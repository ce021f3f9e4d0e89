SPECIFICATION EntitySpec
CONSTANTS
  Master = "master"
  Slave = "slave"
  Values = {"a", "b", "c"}
  Empty = "empty"
  MaxSets = 3
  Keys = {"k1", "k2"}
  Mapped = {"a", "b"}
  Absent = "absent"
  MaxMapped <- MCMaxMapped
  Listed = {"u", "v"}
  MaxLength = 3
  MaxListed = 3
  Handled <- MCHandled
  MaxCalls <- MCMaxCalls
  Interned = {"a", "b"}
  Answers = FALSE
  MaxMessages = 1
  Budget <- MCBudget
INVARIANTS
  EntitiesTypeOK
  ListsAgree
  CopiesAgree
  AnsweredOnce
  MessagesInOrder
PROPERTIES
  VersionsGrow
  CallsEnd
  EndsMeet
CHECK_DEADLOCK FALSE
