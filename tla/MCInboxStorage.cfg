SPECIFICATION SafeSpec
CONSTANTS
  Messages = {e}
  Jobs = {}
  Unsupported = {}
  Prints = {f}
  TruePrint = f
  Workers = {w1, w2}
  NoCopy = NoCopy
  MaxAttempts = 2
  MaxCopies = 2
PROPERTIES StorageFailureIsRetried
