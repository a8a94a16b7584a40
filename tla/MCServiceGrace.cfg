CONSTANTS
  WAIT_LIMIT = 2
  PRESHUTDOWN_WAITS = 5
  MaxFailures = 0
SPECIFICATION Spec
INVARIANTS
  WorkerHasThreeMinutes
CHECK_DEADLOCK FALSE
