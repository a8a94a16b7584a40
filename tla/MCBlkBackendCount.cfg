\* Handlers that go away stay counted.
CONSTANTS
  f1 = f1
  f2 = f2
  f3 = f3
  disk1 = disk1
  disk2 = disk2
  Frontend = {f1, f2, f3}
  Path = {disk1, disk2}
  params <- MCParams
  Unreliable = {}
  EXCLUSIVE = FALSE
  MAX_FRONTENDS = 2
  MAX_PGRANTS_PER_FRONTEND = 1
  MaxBinds = 2
SPECIFICATION Spec
PROPERTIES
  RefusedOnlyWhenFull
CHECK_DEADLOCK FALSE
