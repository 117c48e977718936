\* Restarts, crashes and configuration changes; the browser client may be missing.
SPECIFICATION FairSpec
CONSTANTS
  Config = {a, b}
  FixedPort = {a}
  MaxSession = 2
  Panel = {p1, p2}
  MaxHandshakes = 1
  Faults = {"random", "listener", "client"}
CHECK_DEADLOCK FALSE
INVARIANTS TypeOK PermitsExact FreshReply NothingForgotten
PROPERTY Drains
