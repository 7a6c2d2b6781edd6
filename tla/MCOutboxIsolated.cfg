SPECIFICATION SafeSpec
CONSTANTS
  Messages = {m1}
  Publishers = {p1, p2}
  Tokens = {t1, t2, t3}
  NoToken = NoToken
  NoMessage = NoMessage
  MaxAttempts = 2
  BatchSize = 1
  Lease = 1
  Backoff <- MCBackoff
INVARIANTS ConfirmedIsNotIsolated
