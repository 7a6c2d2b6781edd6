SPECIFICATION PortSpec
CONSTANTS
  Callers = {c1, c2}
  PortMessages = {m1, m2}
  \* Two calls and one publication that an earlier call has left over.
  Pubs = {p1, p2, p3}
  None = None
  MaxOps = 2
INVARIANTS PortTypeOK ReportedIsStored ClaimsAreExclusive
PROPERTIES PublishSettles
CHECK_DEADLOCK FALSE
