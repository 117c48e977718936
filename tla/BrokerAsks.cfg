\* Requests of the app server and notifications both ways, two connections; the third panel is refused.
CONSTANTS
  ClientId = {a, b, c}
  NoClient = NoClient
  OrigId = {}
  ServerId = {s1}
  MaxConn = 2
  MaxIid = 2
  QueueCap = 1
  ChildCap = 1
  MaxClients = 2
  MaxPending = 1
  Notes = TRUE
  Expiry = TRUE
  Faults = TRUE
SPECIFICATION Spec
SYMMETRY PanelSymmetry
INVARIANTS TypeOK NoZombie AuthenticServerAnswer
CHECK_DEADLOCK FALSE
