SPECIFICATION SafeSpec
CONSTANTS
  Messages = {m1, m2}
  Publishers = {p1, p2}
  Tokens = {t1, t2, t3}
  NoToken = NoToken
  NoMessage = NoMessage
  MaxAttempts = 2
  BatchSize = 2
  Lease = 1
  Backoff <- MCBackoff
INVARIANTS TypeOK PublishedIsConfirmed OneLiveClaim IsolatedIsExhausted
PROPERTIES ConfirmedIsNotFailed FinishedIsFinal ImplementsContract
SYMMETRY MCSymmetry
