SPECIFICATION UsersSpec
CONSTANTS
  Client = Client
  Server = Server
  Ends <- MCEnds
  MaxPuts <- MCPuts
  MaxConnections = 2
  Capacity = 1
  MayTerminate <- MCEnds
PROPERTIES
  WireServes
  TerminationEnds
CHECK_DEADLOCK FALSE
