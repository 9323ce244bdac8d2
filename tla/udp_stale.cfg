CONSTANTS
  NFiles = 2
  Frags <- OneThenTwo
  Present = {1, 2}
  Torn = {}
  Start = 1
  FinMod = 1
  MaxCopies = 2
  Timely = FALSE
  NoFile = NoFile
SPECIFICATION Spec
CHECK_DEADLOCK FALSE
INVARIANT
  ReceivedCorrectly
