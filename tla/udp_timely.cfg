CONSTANTS
  NFiles = 4
  Frags <- TwoEmptyOneThree
  Present = {1, 2, 4}
  Torn = {}
  Start = 1
  FinMod = 2
  MaxCopies = 2
  Timely = TRUE
  NoFile = NoFile
SPECIFICATION FairSpec
CHECK_DEADLOCK FALSE
INVARIANTS
  TypeOK
  AckedStored
PROPERTIES
  TransferSpec
  Terminates
