\* A browser client that is missing when the result is put together.
SPECIFICATION Spec
CONSTANTS
  Config = {a}
  FixedPort = {}
  MaxSession = 2
  Panel = {p1}
  MaxHandshakes = 1
  Faults = {"client"}
CHECK_DEADLOCK FALSE
INVARIANT OneRuntime
