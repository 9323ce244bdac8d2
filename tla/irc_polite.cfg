CONSTANTS
  FdLimit = 6
  FdSetSize = 2
  MaxChan = 2
  Token <- MCToken
  NoName = ""
  Glued = "~"
  Trailing <- MCTrailing
  FirstLines <- PoliteFirst
  SecondLines <- PoliteSecond
  Lines <- TalkLines
  NoClient = NoClient
  MaxUnread = 1
  MaxConns = 3
  MaxSent = 6
SPECIFICATION FairSpec
CHECK_DEADLOCK FALSE
INVARIANTS
  CountsCover
  RoundComplete
PROPERTIES
  HangupReclaimed
  LinesRead
