\* Calls, Chrome's requests, expiry and stalled clients over two connections.
CONSTANTS
  Cid = {c1, c2}
  CallId = {1}
  AskId = {s1}
  MaxIid = 2
  ClientQueue = 1
  OutputQueue = 1
  MaxPending = 1
  MaxConnections = 2
  Notes = FALSE
  Expiry = TRUE
  Stalls = TRUE
SPECIFICATION Spec
SYMMETRY ClientSymmetry
INVARIANTS TypeOK OnlyCurrent RightClient AuthenticAnswer
PROPERTY NeverUnseated
CHECK_DEADLOCK FALSE
