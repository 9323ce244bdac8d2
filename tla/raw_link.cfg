CONSTANTS
  NFiles = 6
  Frags <- Plain
  Exact <- SomeExact
  Present = {1, 2, 4, 5, 6}
  Torn = {6}
  RcvBuf = 3
  NoFile = NoFile
SPECIFICATION FairSpec
CHECK_DEADLOCK FALSE
INVARIANTS
  TypeOK
  WrittenOnce
  WrittenWhole
PROPERTIES
  AllArrive
