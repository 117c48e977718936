\* Calls and their answers under fair scheduling, without expiry or faults.
CONSTANTS
  ClientId = {a, b}
  NoClient = NoClient
  OrigId = {1, 2}
  ServerId = {}
  MaxConn = 2
  MaxIid = 2
  QueueCap = 1
  ChildCap = 1
  MaxClients = 2
  MaxPending = 2
  Notes = FALSE
  Expiry = FALSE
  Faults = FALSE
SPECIFICATION FairSpec
INVARIANTS AnsweredOnce
PROPERTY ImplementsCalls
CHECK_DEADLOCK FALSE
