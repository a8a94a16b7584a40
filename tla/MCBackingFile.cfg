\* Both systems.
CONSTANTS
  NumSectors = {0, 1, 2, 4}
  SectorSize = {0, 1, 2}
  SECTOR_SIZE = 2
  INT_MAX = 4
  BUFFER = 3
SPECIFICATION Spec
INVARIANTS
  TypeOK
  LossBounded
  MappedIsUsable
  MappedStaysWhole
