CONSTANTS
  WAIT_LIMIT = 2
  PRESHUTDOWN_WAITS = 5
  MaxFailures = 1
SPECIFICATION FairSpec
INVARIANTS
  TypeOK
  AcceptingMeansStoppable
  StopsOnlyAfterWait
  ExitIsReported
PROPERTIES
  NeverRunsAgain
  StopIsReported
  StopReachesWorker
CHECK_DEADLOCK FALSE
