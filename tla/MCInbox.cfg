SPECIFICATION SafeSpec
CONSTANTS
  Messages = {e, j}
  Jobs = {j}
  Unsupported = {}
  Prints = {f, g}
  TruePrint = f
  Workers = {w1, w2}
  NoCopy = NoCopy
  MaxAttempts = 2
  MaxCopies = 2
INVARIANTS TypeOK AtMostOneEffect EffectIsRecorded StoppedJobHasNoEffect NothingLost DeadJobIsNotQueued
SYMMETRY MCSymmetry
