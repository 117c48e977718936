\* Blocking sends, stalled clients and evictions under fair scheduling.
CONSTANTS
  Cid = {c1, c2}
  CallId = {1}
  AskId = {}
  MaxIid = 1
  ClientQueue = 1
  OutputQueue = 1
  MaxPending = 1
  MaxConnections = 2
  Notes = TRUE
  Expiry = FALSE
  Stalls = TRUE
SPECIFICATION FairSpec
PROPERTY NothingStalls
CHECK_DEADLOCK FALSE
