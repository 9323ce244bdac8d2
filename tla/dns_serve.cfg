CONSTANTS
  Config <- Zones
  Short = {}
  Octet = {"1"}
  Client = {c1, c2}
  Questions <- Asked
  Sockets = 2
  MaxAsked = 3
SPECIFICATION FairSpec
CHECK_DEADLOCK FALSE
INVARIANTS
  TypeOK
  Loaded
  AnswersRight
  ForeignOnly
  AnswerToAsker
PROPERTIES
  EachAnswered
