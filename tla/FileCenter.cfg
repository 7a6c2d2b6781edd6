SPECIFICATION FileSpec
CONSTANTS
  \* Two commands at a time, under one operation id or under two.
  Callers = {c1, c2}
  Operations = {o1, o2}
  NoOperation = NoOperation
INVARIANTS FileTypeOK CompletedIsKept ObjectFollowsStatus VerdictIsObeyed EventsTellStatus
 
