CONSTANTS
  Conn = {c1, c2, c3, c4}
  Endless = {c4}
  Server = Server
  NoConn = NoConn
SPECIFICATION FairSpec
CHECK_DEADLOCK FALSE
INVARIANTS
  TypeOK
  Isolated
PROPERTIES
  Reaped
  Released
