\* One reference more than the cache holds; one address and one frame to spare.
CONSTANTS
  Gref = {g1, g2, g3, g4, g5}
  Frame = {f1, f2, f3}
  Addr = {a1, a2, a3, a4, a5}
  NoFrame = NoFrame
  nullptr = nullptr
  MAX_PGRANTS_PER_FRONTEND = 4
  GRANT_EVICTION_SIZE = 2
SPECIFICATION CacheSpec
SYMMETRY Symmetry
INVARIANTS
  CacheTypeOK
  IndexExact
  MappingsCached
  Coherent
  MappedBounded
PROPERTY RecentStayMapped
