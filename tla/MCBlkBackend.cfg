\* Any file may be refused when it is opened, sound or not, open already or not.  So
\* what happens where an open file cannot be opened again (Windows) is among what may
\* happen here.  No symmetry, for liveness.
CONSTANTS
  f1 = f1
  f2 = f2
  f3 = f3
  disk1 = disk1
  disk2 = disk2
  Frontend = {f1, f2, f3}
  Path = {disk1, disk2}
  params <- MCParams
  Unreliable = {disk1, disk2}
  EXCLUSIVE = FALSE
  MAX_FRONTENDS = 2
  MAX_PGRANTS_PER_FRONTEND = 1
  MaxBinds = 2
SPECIFICATION FairSpec
INVARIANTS
  TypeOK
  GrantsBounded
  ClosedLeavesNoRing
  UnflushedStaysOpen
PROPERTIES
  StopEndsMain
CHECK_DEADLOCK FALSE
