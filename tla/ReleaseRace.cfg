\* Two runs of the workflow, one of them started by hand while the other publishes.
SPECIFICATION MCSpec
CONSTANTS
  Workflows = {run1, run2}
CHECK_DEADLOCK FALSE
INVARIANT NeverClobbered
