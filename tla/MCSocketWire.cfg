SPECIFICATION UsersSpec
CONSTANTS
  Client = Client
  Server = Server
  Ends <- MCEnds
  MaxPuts <- MCPuts
  MaxConnections = 3
  Capacity = 4
  MayTerminate = {Client}
INVARIANTS
  WireTypeOK
  EveryPutIsKept
  NothingLost
PROPERTY
  IsChannelUntilEarly
CHECK_DEADLOCK FALSE
