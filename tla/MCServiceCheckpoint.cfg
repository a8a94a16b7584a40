CONSTANTS
  WAIT_LIMIT = 2
  PRESHUTDOWN_WAITS = 5
  MaxFailures = 1
SPECIFICATION Spec
INVARIANTS
  CheckpointsWhilePending
CHECK_DEADLOCK FALSE
