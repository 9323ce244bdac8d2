CONSTANTS
  FdLimit = 6
  FdSetSize = 2
  MaxChan = 2
  Token <- MCToken
  NoName = ""
  Glued = "~"
  Trailing <- MCTrailing
  FirstLines <- OpenFirst
  SecondLines <- OpenSecond
  Lines <- OpenLines
  NoClient = NoClient
  MaxUnread = 2
  MaxConns = 3
  MaxSent = 5
SPECIFICATION Spec
CHECK_DEADLOCK FALSE
INVARIANTS
  TypeOK
  TableSound
  NickUnique
  ChannelsSound
