CONSTANTS
  NFiles = 3
  Frags <- TwoOneOne
  Present = {1, 2, 3}
  Torn = {3}
  Start = 1
  FinMod = 1
  MaxCopies = 2
  Timely = FALSE
  NoFile = NoFile
SPECIFICATION Spec
CHECK_DEADLOCK FALSE
PROPERTIES
  FileKept
