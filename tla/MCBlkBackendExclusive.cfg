\* A file cannot be opened twice, as on Windows; one frontend, one usable image.
CONSTANTS
  f1 = f1
  f2 = f2
  f3 = f3
  disk1 = disk1
  disk2 = disk2
  Frontend = {f1}
  Path = {disk1, disk2}
  params <- MCParams
  Unreliable = {}
  EXCLUSIVE = TRUE
  MAX_FRONTENDS = 2
  MAX_PGRANTS_PER_FRONTEND = 1
  MaxBinds = 2
SPECIFICATION Spec
INVARIANTS
  RebindingSurvives
CHECK_DEADLOCK FALSE
