SPECIFICATION Spec
CONSTANTS
  Messages = {j}
  Jobs = {j}
  Unsupported = {g}
  Prints = {f, g}
  TruePrint = f
  Workers = {w1, w2}
  NoCopy = NoCopy
  MaxAttempts = 2
  MaxCopies = 2
PROPERTIES PublishedIsSettled
