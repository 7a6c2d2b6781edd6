SPECIFICATION PortSafeSpec
CONSTANTS
  Callers = {c1}
  PortMessages = {m1, m2}
  \* One call after another; the list takes those it leaves over.
  Pubs = {p1, p2, p3, p4}
  None = None
  MaxOps = 3
INVARIANTS AwaitsOwnPublication
CHECK_DEADLOCK FALSE
