\* The same callers, against what the tests of the repository say of the bounds.
CONSTANTS
  SectorCount = 3
  Content = {zero, c1, c2}
  Zero = zero
  WORD = 8
  DiskStates = {TRUE, FALSE}
SPECIFICATION ImageSpec
SYMMETRY Symmetry
INVARIANTS
  Bounded
