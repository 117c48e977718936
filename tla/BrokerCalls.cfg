\* Calls of two panels over three connections, with expiry and pipe faults.
CONSTANTS
  ClientId = {a, b}
  NoClient = NoClient
  OrigId = {1}
  ServerId = {}
  MaxConn = 3
  MaxIid = 2
  QueueCap = 1
  ChildCap = 1
  MaxClients = 2
  MaxPending = 1
  Notes = FALSE
  Expiry = TRUE
  Faults = TRUE
SPECIFICATION Spec
SYMMETRY PanelSymmetry
INVARIANTS RightPanel NoStaleRoute OneInitialize
CHECK_DEADLOCK FALSE
