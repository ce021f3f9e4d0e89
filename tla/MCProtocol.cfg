SPECIFICATION PartSpec
CONSTANTS
  Threads = {"t1", "t2"}
  Lifetimes = {"outer", "inner", "innermost"}
  Parent <- MCChain
  MaxCalls = 5
  Ids = {"entity"}
  MaxMessages = 4
  Clients = {"client"}
  MaxPuts <- MCPuts
  \* One thread logs: two could share the lock in turn for ever, and the scheduler would wait.
  Loggers = {"logger"}
  MaxConnections = 3
  MaxEvents = 2
  UserSettings <- MCSettings
  RiderModes <- MCModes
  MaxUser = 2
  MaxRider = 2
INVARIANTS
  PartsTypeOK
  ActionsAreKept
  RiderSeesEditor
PROPERTIES
  LifetimesEnd
  MessagesArrive
  BufferServes
  ModelFollows
CHECK_DEADLOCK FALSE
