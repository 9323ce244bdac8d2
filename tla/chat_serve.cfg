CONSTANTS
  MAXUSER = 3
  MaxFds = 3
  NAMELEN = 5
  Char <- MCChar
  Name <- MCName
  Who <- MCWho
  Slash = "/"
  NL = "nl"
  Nul = "nul"
  Default <- KK
  Lines <- Talk
  MaxUnread = 2
  Deaf = {1}
  MaxConns = 3
  MaxSent = 2
SPECIFICATION FairSpec
CHECK_DEADLOCK FALSE
INVARIANTS
  TypeOK
  ViewCurrent
  CountDrift
  NameBegins
  RoundComplete
PROPERTIES
  Attended
