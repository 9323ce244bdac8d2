CONSTANTS
  FdLimit = 6
  FdSetSize = 2
  MaxChan = 1
  Token <- MCToken
  NoName = ""
  Glued = "~"
  Trailing <- MCTrailing
  FirstLines <- OneFirst
  SecondLines <- PoliteSecond
  Lines <- OpenLines
  NoClient = NoClient
  MaxUnread = 2
  MaxConns = 3
  MaxSent = 5
SPECIFICATION Spec
CHECK_DEADLOCK FALSE
INVARIANT
  JoinAlwaysRight
