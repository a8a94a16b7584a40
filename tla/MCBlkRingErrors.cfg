\* Requests that are refused or fail half way; no symmetry, for liveness.
CONSTANTS
  d1 = d1
  d2 = d2
  d3 = d3
  p1 = p1
  p2 = p2
  f1 = f1
  f2 = f2
  f3 = f3
  t1 = t1
  t2 = t2
  zero = zero
  Gref = {d1, d2, d3, p1, p2}
  Frame = {f1, f2, f3, t1, t2}
  Addr = {a1, a2, a3}
  NoFrame = NoFrame
  nullptr = nullptr
  MAX_PGRANTS_PER_FRONTEND = 3
  GRANT_EVICTION_SIZE = 1
  SectorCount = 4
  Content <- MCContent
  Zero = zero
  WORD = 16
  UINT32 = 8
  DiskStates = {TRUE}
  Workload <- OddWorkload
  Table <- MCTable
  InitialImage <- MCInitialImage
  InitialMemory <- MCInitialMemory
  InitialGrants <- MCInitialGrants
  Regrants <- NoRegrants
  NoRequest = NoRequest
  SECTORS_PER_PAGE = 2
  BLKIF_MAX_SEGMENTS_PER_REQUEST = 2
  SEGMENTS_PER_INDIRECT_PAGE = 2
  MAX_INDIRECT_SEGMENTS = 3
  RING_SIZE = 2
  MaxRequests = 3
SPECIFICATION FairRingSpec
INVARIANTS
  RingTypeOK
  OnceInOrder
  StraysOnlyUnvalidated
PROPERTIES
  EveryRequestAnswered
