CONSTANTS
  N = 4
  B = 2
  Puzzles <- MCPuzzles
SPECIFICATION FairSpec
CHECK_DEADLOCK FALSE
INVARIANTS
  TypeOK
  Verdict
PROPERTIES
  Ends
