CONSTANTS
  Worker = {w1, w2}
  Target = {ok, none, private, hangs}
  Malformed = {}
  Unknown = {none}
  Barred = {private}
  Silent = {hangs}
  MAX_ATTEMPTS = 2
SPECIFICATION FairSpec
CHECK_DEADLOCK FALSE
INVARIANTS
  TypeOK
  Prompt
  InOrder
PROPERTIES
  EveryRequestEnds
