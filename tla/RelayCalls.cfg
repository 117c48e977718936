\* Calls of clients that read their sockets, and their answers, without expiry.  Beside them two
\* turns named by two requests, one tracked at a time, and a file of up to four half lines read
\* from two before its end.
CONSTANTS
  Cid = {c1, c2}
  CallId = {1, 2}
  AskId = {}
  MaxIid = 3
  ClientQueue = 1
  OutputQueue = 1
  MaxPending = 1
  MaxConnections = 2
  Notes = FALSE
  Expiry = FALSE
  Stalls = FALSE
  Turns = {t1, t2}
  MaxObserved = 1
  TailSize = 2
  MaxRequests = 2
  MaxFile = 4
SPECIFICATION MCSpec
PROPERTIES ImplementsCalls TracksTurns
CHECK_DEADLOCK FALSE
