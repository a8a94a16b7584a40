----------------------------- MODULE BlkRingProofs -----------------------------
(* The safety properties of BlkRing, proved for every workload, every        *)
(* content of the frontend's pages, every size of cache and image.           *)
EXTENDS BlkRing, GrantCacheProofs, DiskImageProofs

-----------------------------------------------------------------------------
(* What is known of a request once it is made.                               *)
Fields(r) ==
  /\ r \in RequestType
  /\ Len(r.seg) = IF IsIndirect(r) THEN 0 ELSE r.nr_segments
  /\ IsIndirect(r) => Len(r.indirect_grefs) = NrIndirectGrefs(r)

(* The frontend leaves the grants of a request in place until it is answered. *)
Granted == \A r \in outstanding : Fields(r) /\ WellFormed(r)

(* Where the requests a frontend waits for are: their ids are consecutive,   *)
(* over the responses, the request in work and the ring.                     *)
Busy == IF req = NoRequest THEN 0 ELSE 1
Oldest == nextId - Cardinality(outstanding)

Waiting ==
  /\ nextId \in 1 .. MaxRequests + 1
  /\ IsFiniteSet(outstanding) /\ Cardinality(outstanding) <= RING_SIZE
  /\ {r.id : r \in outstanding} = Oldest .. nextId - 1
  /\ \A r, s \in outstanding : r.id = s.id => r = s
  /\ ring \in Seq(RequestType) /\ \A k \in 1 .. Len(ring) : ring[k] \in outstanding
  /\ responses \in Seq([id : Nat, operation : STRING, status : Status])
  /\ Len(responses) + Busy + Len(ring) = Cardinality(outstanding)
  /\ \A k \in 1 .. Len(responses) : responses[k].id = Oldest + k - 1
  /\ req # NoRequest => req \in outstanding /\ req.id = Oldest + Len(responses)
  /\ \A k \in 1 .. Len(ring) : ring[k].id = Oldest + Len(responses) + Busy + k - 1

ThreadTypes ==
  /\ pc \in {"idle", "page", "segment", "copy", "respond"}
  /\ i \in Nat /\ segments_done \in Nat /\ n \in Nat /\ start_sector \in Nat
  /\ seg \in Addr \cup {nullptr} /\ buffer \in Addr \cup {nullptr} /\ status \in Status
  /\ (pc = "idle") = (req = NoRequest)
  /\ pc = "idle" => ThreadIdle
  /\ ~up => pc = "idle" /\ mGntLru = <<>> /\ outstanding = {}

(* How far the thread is with a request: whole pages of segments are done,   *)
(* and of the page it is at the first n.                                     *)
Working ==
  pc \in {"page", "segment", "copy"} =>
    /\ segments_done + n < req.nr_segments
    /\ IsIndirect(req) => /\ req.nr_segments <= MAX_INDIRECT_SEGMENTS
                          /\ i < NrIndirectGrefs(req)
                          /\ segments_done = i * SEGMENTS_PER_INDIRECT_PAGE
    /\ ~IsIndirect(req) => i = 0 /\ segments_done = 0 /\ seg = nullptr /\ pc # "page"
    /\ pc = "page" => n = 0 /\ seg = nullptr
    /\ pc # "page" => n < NrSegs

AmongFirst(l, page) == \E k \in 1 .. Len(mGntLru) : k <= l /\ mGntLru[k] = page

(* The page of the segments went to the front of the list when it was added, *)
(* and each segment since has moved it one position back at most.            *)
Pinned ==
  /\ pc \in {"segment", "copy"} /\ IsIndirect(req) =>
       AmongFirst(IF pc = "copy" THEN n + 2 ELSE n + 1, [gref |-> req.indirect_grefs[i + 1], addr |-> seg])
  /\ pc = "copy" => AmongFirst(1, [gref |-> Segment.gref, addr |-> buffer])

Memory == mem \in [Frame -> [0 .. SECTORS_PER_PAGE - 1 -> Content]]

RingInv ==
  /\ CacheInv /\ ImageTypeOK /\ Durable
  /\ Memory /\ Granted /\ Waiting /\ ThreadTypes /\ Working /\ Pinned

-----------------------------------------------------------------------------
(* Pages of segments: the k-th segment is on page (k - 1) \div s, and there   *)
(* are div_round_up(m, s) pages for m segments.                              *)
LEMMA Products ==
  ASSUME NEW a \in Nat, NEW b \in Nat, NEW c \in Nat, a <= b
  PROVE  a * c <= b * c /\ a * c \in Nat /\ b * c \in Nat /\ (b + 1) * c = b * c + c
<1>1. PICK d \in Nat : b = a + d
  <2>1. b - a \in Nat /\ b = a + (b - a)
    OBVIOUS
  <2>2. QED
    BY <2>1
<1>2. d * c \in Nat /\ (a + d) * c = a * c + d * c /\ a * c \in Nat
  OBVIOUS
<1>3. QED
  BY <1>1, <1>2

LEMMA PagesOfSegments ==
  ASSUME NEW m \in Nat, NEW s \in Nat \ {0}
  PROVE  /\ div_round_up(m, s) \in Nat
         /\ \A k \in Nat : k < div_round_up(m, s) => k * s < m
         /\ \A k \in 1 .. m : ((k - 1) \div s) + 1 \in 1 .. div_round_up(m, s)
         /\ \A k \in 1 .. m : ((k - 1) % s) + 1 \in 1 .. s
<1> DEFINE q == (m + s - 1) \div s
<1>1. m + s - 1 \in Nat /\ q \in Nat /\ q * s <= m + s - 1 /\ m + s - 1 < q * s + s
  OBVIOUS
<1>2. ASSUME NEW k \in Nat, k < q
      PROVE  k * s < m
  <2>1. (k + 1) * s <= q * s /\ (k + 1) * s = k * s + s /\ k * s \in Nat
    BY <1>1, <1>2, Products
  <2>2. QED
    BY <1>1, <2>1
<1>3. ASSUME NEW k \in 1 .. m
      PROVE  ((k - 1) \div s) + 1 \in 1 .. q
  <2>1. k - 1 \in Nat /\ (k - 1) \div s \in Nat /\ ((k - 1) \div s) * s <= k - 1
    OBVIOUS
  <2>2. ASSUME (k - 1) \div s >= q PROVE FALSE
    <3>1. q * s <= ((k - 1) \div s) * s /\ q * s \in Nat /\ ((k - 1) \div s) * s \in Nat
      BY <1>1, <2>1, <2>2, Products
    <3>2. QED
      BY <1>1, <2>1, <3>1
  <2>3. QED
    BY <1>1, <2>1, <2>2
<1>4. ASSUME NEW k \in 1 .. m
      PROVE  ((k - 1) % s) + 1 \in 1 .. s
  <2>1. (k - 1) % s \in 0 .. s - 1
    OBVIOUS
  <2>2. QED
    BY <2>1
<1>5. QED
  BY <1>1, <1>2, <1>3, <1>4 DEF div_round_up

(* The pages hold all the segments.                                          *)
LEMMA PagesHoldSegments ==
  ASSUME NEW m \in Nat, NEW s \in Nat \ {0}
  PROVE  m <= div_round_up(m, s) * s
<1> DEFINE q == (m + s - 1) \div s
<1>1. m + s - 1 \in Nat /\ q \in Nat /\ m + s - 1 < q * s + s /\ q * s \in Nat
  OBVIOUS
<1>2. m <= q * s
  BY <1>1
<1>3. QED
  BY <1>2 DEF div_round_up

(* The k-th segment of the j-th page is on that page, at that place.         *)
LEMMA PlaceOfSegment ==
  ASSUME NEW j \in Nat, NEW s \in Nat \ {0}, NEW k \in 0 .. s - 1
  PROVE  (j * s + k) \div s = j /\ (j * s + k) % s = k
<1>1. j * s \in Nat /\ j * s + k \in Nat
  OBVIOUS
<1>2. PICK q \in Nat, p \in 0 .. s - 1 : q = (j * s + k) \div s /\ p = (j * s + k) % s /\ j * s + k = q * s + p
  BY <1>1
<1>3. ASSUME q < j PROVE FALSE
  <2>1. (q + 1) * s <= j * s /\ (q + 1) * s = q * s + s /\ q * s \in Nat
    BY <1>3, Products
  <2>2. QED
    BY <1>1, <1>2, <2>1
<1>4. ASSUME j < q PROVE FALSE
  <2>1. (j + 1) * s <= q * s /\ (j + 1) * s = j * s + s /\ q * s \in Nat
    BY <1>4, Products
  <2>2. QED
    BY <1>1, <1>2, <2>1
<1>5. q = j
  BY <1>3, <1>4
<1>6. QED
  BY <1>1, <1>2, <1>5

-----------------------------------------------------------------------------
(* The types of a request's fields.                                          *)
LEMMA FieldTypes ==
  ASSUME NEW r, Fields(r)
  PROVE  /\ r.id \in Nat /\ r.sector_number \in Nat /\ r.nr_segments \in Nat /\ r.nr_sectors \in Nat
         /\ r.operation \in STRING /\ r.indirect_op \in STRING
         /\ r.seg \in Seq(SegmentType) /\ r.indirect_grefs \in Seq(Gref)
         /\ r # NoRequest
         /\ ~IsIndirect(r) => \A k \in 1 .. r.nr_segments : r.seg[k] \in SegmentType
         /\ IsIndirect(r) => /\ NrIndirectGrefs(r) \in Nat
                             /\ \A k \in 1 .. NrIndirectGrefs(r) : r.indirect_grefs[k] \in Gref
<1>1. /\ r.id \in Nat /\ r.sector_number \in Nat /\ r.nr_segments \in Nat /\ r.nr_sectors \in Nat
      /\ r.operation \in STRING /\ r.indirect_op \in STRING
      /\ r.seg \in Seq(SegmentType) /\ r.indirect_grefs \in Seq(Gref)
  BY ImageSize DEF Fields, RequestType
<1>2. r # NoRequest
  BY Requests DEF Fields
<1>3. ~IsIndirect(r) => \A k \in 1 .. r.nr_segments : r.seg[k] \in SegmentType
  BY <1>1, ElementOfSeq DEF Fields
<1>4. NrIndirectGrefs(r) \in Nat
  BY <1>1, PagesOfSegments, RingSizes DEF NrIndirectGrefs
<1>5. IsIndirect(r) => \A k \in 1 .. NrIndirectGrefs(r) : r.indirect_grefs[k] \in Gref
  BY <1>1, ElementOfSeq DEF Fields
<1>6. QED
  BY <1>1, <1>2, <1>3, <1>4, <1>5

(* The segments of a request that is well formed, whichever way it names     *)
(* them.                                                                     *)
LEMMA SegmentTypes ==
  ASSUME NEW r, Fields(r), WellFormed(r), grants \in [Gref -> Frame \cup {NoFrame}]
  PROVE  /\ DOMAIN Segments(r) = 1 .. r.nr_segments
         /\ \A k \in 1 .. r.nr_segments : Segments(r)[k] \in SegmentType
         /\ IsIndirect(r) => \A k \in 1 .. NrIndirectGrefs(r) :
              r.indirect_grefs[k] \in TableGrefs(r) /\ grants[r.indirect_grefs[k]] \in DOMAIN Table
<1>1. r.nr_segments \in Nat /\ r.seg \in Seq(SegmentType)
  BY FieldTypes
<1>2. IsIndirect(r) => \A k \in 1 .. NrIndirectGrefs(r) :
        r.indirect_grefs[k] \in TableGrefs(r) /\ grants[r.indirect_grefs[k]] \in DOMAIN Table
  BY DEF WellFormed, TableGrefs
<1>3. DOMAIN Segments(r) = 1 .. r.nr_segments
  <2>1. CASE IsIndirect(r)
    BY <2>1 DEF Segments
  <2>2. CASE ~IsIndirect(r)
    BY <1>1, <2>2, LenProperties DEF Segments, Fields
  <2>3. QED
    BY <2>1, <2>2
<1>4. ASSUME NEW k \in 1 .. r.nr_segments
      PROVE  Segments(r)[k] \in SegmentType
  <2>1. CASE IsIndirect(r)
    <3> DEFINE p == ((k - 1) \div SEGMENTS_PER_INDIRECT_PAGE) + 1
               o == ((k - 1) % SEGMENTS_PER_INDIRECT_PAGE) + 1
    <3>1. p \in 1 .. NrIndirectGrefs(r) /\ o \in 1 .. SEGMENTS_PER_INDIRECT_PAGE
      BY <1>1, PagesOfSegments, RingSizes DEF NrIndirectGrefs
    <3>2. Segments(r)[k] = Table[grants[r.indirect_grefs[p]]][o]
      BY <2>1 DEF Segments
    <3>3. grants[r.indirect_grefs[p]] \in DOMAIN Table
      BY <1>2, <2>1, <3>1
    <3>4. QED
      BY <3>1, <3>2, <3>3, Pages
  <2>2. CASE ~IsIndirect(r)
    BY <2>2, FieldTypes DEF Segments
  <2>3. QED
    BY <2>1, <2>2
<1>5. QED
  BY <1>2, <1>3, <1>4

(* All its references are the frontend's.                                    *)
LEMMA GrefTypes ==
  ASSUME NEW r, Fields(r), WellFormed(r), grants \in [Gref -> Frame \cup {NoFrame}]
  PROVE  Grefs(r) \subseteq Gref
<1>1. TableGrefs(r) \subseteq Gref
  BY FieldTypes DEF TableGrefs
<1>2. \A k \in DOMAIN Segments(r) : Segments(r)[k].gref \in Gref
  BY SegmentTypes DEF SegmentType
<1>3. QED
  BY <1>1, <1>2 DEF Grefs

(* As long as its grants stay, so do its segments, and it stays well formed. *)
LEMMA SegmentsStay ==
  ASSUME NEW r, Fields(r), WellFormed(r), grants \in [Gref -> Frame \cup {NoFrame}],
         \A g \in Grefs(r) : grants'[g] = grants[g]
  PROVE  WellFormed(r)' /\ Segments(r)' = Segments(r)
<1>1. /\ DOMAIN Segments(r) = 1 .. r.nr_segments
      /\ IsIndirect(r) => \A k \in 1 .. NrIndirectGrefs(r) : r.indirect_grefs[k] \in TableGrefs(r)
  BY SegmentTypes
<1>2. r.nr_segments \in Nat
  BY FieldTypes
<1>3. \A g \in TableGrefs(r) : grants'[g] = grants[g]
  BY DEF Grefs
<1>4. Segments(r)' = Segments(r)
  <2>1. CASE IsIndirect(r)
    <3>1. ASSUME NEW k \in 1 .. r.nr_segments
          PROVE  grants'[r.indirect_grefs[((k - 1) \div SEGMENTS_PER_INDIRECT_PAGE) + 1]]
                 = grants[r.indirect_grefs[((k - 1) \div SEGMENTS_PER_INDIRECT_PAGE) + 1]]
      <4>1. ((k - 1) \div SEGMENTS_PER_INDIRECT_PAGE) + 1 \in 1 .. NrIndirectGrefs(r)
        BY <1>2, PagesOfSegments, RingSizes DEF NrIndirectGrefs
      <4>2. QED
        BY <1>1, <1>3, <2>1, <4>1
    <3>2. QED
      BY <2>1, <3>1 DEF Segments, IsIndirect
  <2>2. CASE ~IsIndirect(r)
    BY <2>2 DEF Segments, IsIndirect
  <2>3. QED
    BY <2>1, <2>2
<1>5. \A k \in DOMAIN Segments(r) : grants'[Segments(r)[k].gref] = grants[Segments(r)[k].gref]
  BY DEF Grefs
<1>6. WellFormed(r)'
  BY <1>3, <1>4, <1>5 DEF WellFormed, TableGrefs, NrIndirectGrefs, IsIndirect, div_round_up
<1>7. QED
  BY <1>4, <1>6

-----------------------------------------------------------------------------
(* A page in the list is mapped, and reaches what its reference grants.      *)
LEMMA ListedIsMapped ==
  ASSUME CacheInv, NEW l, NEW g, NEW a, AmongFirst(l, [gref |-> g, addr |-> a])
  PROVE  /\ g \in Gref /\ a \in Addr /\ a \in DOMAIN mapped
         /\ mapped[a].gref = g /\ mapped[a].frame = grants[g] /\ grants[g] \in Frame
<1>1. PICK k \in 1 .. Len(mGntLru) : mGntLru[k] = [gref |-> g, addr |-> a]
  BY DEF AmongFirst
<1>2. /\ mGntLru[k].gref = g /\ mGntLru[k].addr = a
      /\ mGntLru[k].gref \in Gref /\ mGntLru[k].addr \in Addr
  BY <1>1, PageType DEF CacheInv, Consistent, Cache
<1>3. /\ DOMAIN mapped = {mGntLru[j].addr : j \in 1 .. Len(mGntLru)}
      /\ grants[mGntLru[k].gref] \in Frame
      /\ mapped[mGntLru[k].addr] = [gref |-> mGntLru[k].gref, frame |-> grants[mGntLru[k].gref]]
  BY DEF CacheInv, Consistent, Mapped, Cache
<1>4. QED
  BY <1>2, <1>3

(* What the thread reads as the segment it is at is that segment of the      *)
(* request.                                                                  *)
LEMMA AtSegment ==
  ASSUME RingInv, pc \in {"segment", "copy"}
  PROVE  /\ req \in outstanding /\ Fields(req) /\ WellFormed(req)
         /\ segments_done + n + 1 \in 1 .. req.nr_segments
         /\ Segment = Segments(req)[segments_done + n + 1]
         /\ Segment \in SegmentType
         /\ IsIndirect(req) => seg # nullptr /\ seg \in DOMAIN mapped /\ mapped[seg].gref = req.indirect_grefs[i + 1]
<1>1. req \in outstanding /\ Fields(req) /\ WellFormed(req)
  BY DEF RingInv, ThreadTypes, Waiting, Granted
<1>2. /\ req.nr_segments \in Nat /\ segments_done \in Nat /\ n \in Nat /\ i \in Nat
      /\ segments_done + n < req.nr_segments /\ n < NrSegs
  BY <1>1, FieldTypes DEF RingInv, ThreadTypes, Working
<1>3. segments_done + n + 1 \in 1 .. req.nr_segments
  BY <1>2
<1>4. Segments(req)[segments_done + n + 1] \in SegmentType
  BY <1>1, <1>3, SegmentTypes DEF RingInv, CacheInv
<1>5. CASE IsIndirect(req)
  <2>1. /\ seg \in Addr /\ seg \in DOMAIN mapped /\ mapped[seg].gref = req.indirect_grefs[i + 1]
        /\ mapped[seg].frame = grants[req.indirect_grefs[i + 1]]
    BY <1>5, ListedIsMapped DEF RingInv, Pinned
  <2>2. seg # nullptr
    BY <2>1, CacheNulls
  <2>3. n \in 0 .. SEGMENTS_PER_INDIRECT_PAGE - 1
    BY <1>2, <1>5, RingSizes DEF NrSegs, minimum
  <2>4. segments_done = i * SEGMENTS_PER_INDIRECT_PAGE
    BY <1>5 DEF RingInv, Working
  <2>5. /\ ((segments_done + n + 1) - 1) \div SEGMENTS_PER_INDIRECT_PAGE = i
        /\ ((segments_done + n + 1) - 1) % SEGMENTS_PER_INDIRECT_PAGE = n
    <3>1. (segments_done + n + 1) - 1 = i * SEGMENTS_PER_INDIRECT_PAGE + n
      BY <1>2, <2>4
    <3>2. SEGMENTS_PER_INDIRECT_PAGE \in Nat \ {0}
      BY RingSizes
    <3>3. /\ (i * SEGMENTS_PER_INDIRECT_PAGE + n) \div SEGMENTS_PER_INDIRECT_PAGE = i
          /\ (i * SEGMENTS_PER_INDIRECT_PAGE + n) % SEGMENTS_PER_INDIRECT_PAGE = n
      BY <1>2, <2>3, <3>2, PlaceOfSegment
    <3>4. QED
      BY <3>1, <3>3, Zenon
  <2>6. Segments(req)[segments_done + n + 1] = Table[grants[req.indirect_grefs[i + 1]]][n + 1]
    BY <1>3, <1>5, <2>5 DEF Segments
  <2>7. Segment = Segments(req)[segments_done + n + 1]
    BY <2>1, <2>2, <2>6 DEF Segment
  <2>8. QED
    BY <1>1, <1>3, <1>4, <2>1, <2>2, <2>7
<1>6. CASE ~IsIndirect(req)
  <2>1. segments_done = 0 /\ seg = nullptr
    BY <1>6 DEF RingInv, Working
  <2>2. Segment = Segments(req)[segments_done + n + 1]
    BY <1>2, <1>6, <2>1 DEF Segment, Segments
  <2>3. QED
    BY <1>1, <1>3, <1>4, <1>6, <2>2
<1>7. QED
  BY <1>5, <1>6

(* The frame the thread copies to or from is the one the segment names.      *)
LEMMA AtCopy ==
  ASSUME RingInv, pc = "copy"
  PROVE  /\ buffer \in DOMAIN mapped /\ mapped[buffer].gref = Segment.gref
         /\ mapped[buffer].frame = grants[Segment.gref] /\ grants[Segment.gref] \in Frame
  BY ListedIsMapped DEF RingInv, Pinned

(* The reference of the page of segments the thread is to map.               *)
LEMMA AtPage ==
  ASSUME RingInv, pc = "page"
  PROVE  /\ req \in outstanding /\ Fields(req) /\ WellFormed(req) /\ IsIndirect(req)
         /\ req.indirect_grefs[i + 1] \in Gref
<1>1. req \in outstanding /\ Fields(req) /\ WellFormed(req)
  BY DEF RingInv, ThreadTypes, Waiting, Granted
<1>2. IsIndirect(req) /\ i \in Nat /\ i < NrIndirectGrefs(req)
  BY DEF RingInv, Working, ThreadTypes
<1>3. NrIndirectGrefs(req) \in Nat
  BY <1>1, <1>2, FieldTypes
<1>4. i + 1 \in 1 .. NrIndirectGrefs(req)
  BY <1>2, <1>3
<1>5. QED
  BY <1>1, <1>2, <1>4, FieldTypes

-----------------------------------------------------------------------------
(* Steps that leave the thread alone leave its part of the invariant alone.  *)
LEMMA ThreadKept ==
  ASSUME ThreadTypes, Working, Pinned, UNCHANGED <<thread, mGntLru, mapped, up>>, ~up => outstanding' = {}
  PROVE  ThreadTypes' /\ Working' /\ Pinned'
<1>1. UNCHANGED <<req, pc, seg, i, segments_done, n, start_sector, buffer, status, mGntLru, mapped, up>>
  BY DEF thread
<1>2. NrSegs' = NrSegs /\ Segment' = Segment
  BY <1>1 DEF NrSegs, Segment, IsIndirect
<1>3. ThreadTypes'
  BY <1>1 DEF ThreadTypes, ThreadIdle
<1>4. Working'
  BY <1>1, <1>2 DEF Working, IsIndirect, NrIndirectGrefs, div_round_up
<1>5. Pinned'
  BY <1>1, <1>2 DEF Pinned, AmongFirst, IsIndirect
<1>6. QED
  BY <1>3, <1>4, <1>5

(* Steps that leave the frontend's grants alone leave its requests alone.    *)
LEMMA GrantedKept ==
  ASSUME Granted, CacheInv, UNCHANGED grants, outstanding' \subseteq outstanding
  PROVE  Granted'
<1> SUFFICES ASSUME NEW r \in outstanding PROVE Fields(r)' /\ WellFormed(r)'
  BY DEF Granted
<1>1. Fields(r) /\ WellFormed(r)
  BY DEF Granted
<1>2. WellFormed(r)'
  BY <1>1, SegmentsStay DEF CacheInv
<1>3. QED
  BY <1>1, <1>2 DEF Fields, IsIndirect, NrIndirectGrefs, div_round_up

(* What does not touch the frontend's side touches nothing it waits for.     *)
LEMMA WaitingKept ==
  ASSUME Waiting, UNCHANGED <<frontend, req>>
  PROVE  Waiting'
  BY DEF Waiting, frontend, Busy, Oldest

(* The cache is left alone.                                                  *)
LEMMA CacheKept ==
  ASSUME CacheInv, UNCHANGED cacheVars
  PROVE  CacheInv'
<1>1. Cache' = Cache /\ grants' = grants /\ mGntLru' = mGntLru
  BY DEF Cache, cacheVars
<1>2. QED
  BY <1>1 DEF CacheInv, Consistent, NoDuplicates, Indexed, Mapped, Cache, cacheVars

(* The image is left alone.                                                  *)
LEMMA ImageKept ==
  ASSUME ImageTypeOK, Durable, UNCHANGED imageVars
  PROVE  ImageTypeOK' /\ Durable'
  BY DEF ImageTypeOK, Durable, imageVars, contents

-----------------------------------------------------------------------------
(* The invariant holds when the ring is created.                             *)
LEMMA RingInitInv == RingInit => RingInv
<1> SUFFICES ASSUME RingInit PROVE RingInv
  OBVIOUS
<1>1. CacheInv /\ ImageTypeOK /\ Durable
  BY CacheInitInv, ImageInitInv DEF RingInit, ImageInv
<1>2. outstanding = {} /\ IsFiniteSet(outstanding) /\ Cardinality(outstanding) = 0
  BY FS_EmptySet DEF RingInit
<1>3. Granted
  BY <1>2 DEF Granted
<1>4. Busy = 0 /\ Oldest = 1
  BY <1>2 DEF RingInit, ThreadIdle, Busy, Oldest
<1>5. /\ ring \in Seq(RequestType) /\ responses \in Seq([id : Nat, operation : STRING, status : Status])
      /\ Len(ring) = 0 /\ Len(responses) = 0
  BY EmptySeq DEF RingInit
<1>6. Waiting
  <2>1. nextId \in 1 .. MaxRequests + 1 /\ Cardinality(outstanding) <= RING_SIZE
    BY <1>2, RingSizes DEF RingInit
  <2>2. {r.id : r \in outstanding} = Oldest .. nextId - 1
    BY <1>2, <1>4 DEF RingInit
  <2>3. QED
    BY <1>2, <1>4, <1>5, <2>1, <2>2 DEF RingInit, ThreadIdle, Waiting
<1>7. ThreadTypes /\ Working /\ Pinned /\ Memory
  BY Pages DEF RingInit, ThreadIdle, ThreadTypes, Working, Pinned, Memory, Status
<1>8. QED
  BY <1>1, <1>3, <1>6, <1>7 DEF RingInv

-----------------------------------------------------------------------------
(* The frontend makes a request: its id follows those it waits for.          *)
LEMMA SubmitWaiting ==
  ASSUME Waiting, NEW r \in RequestType, r.id = nextId, nextId <= MaxRequests,
         Cardinality(outstanding) < RING_SIZE,
         ring' = Append(ring, r), outstanding' = outstanding \cup {r}, nextId' = nextId + 1,
         UNCHANGED <<req, responses>>
  PROVE  Waiting'
<1>1. /\ nextId \in Nat /\ Cardinality(outstanding) \in Nat /\ MaxRequests \in Nat /\ RING_SIZE \in Nat
      /\ IsFiniteSet(outstanding) /\ Len(ring) \in Nat /\ Len(responses) \in Nat
  BY FS_CardinalityType, LenProperties, RingSizes DEF Waiting
<1>a. /\ Len(responses) + Busy + Len(ring) = Cardinality(outstanding) /\ Busy \in {0, 1}
      /\ Oldest = nextId - Cardinality(outstanding)
  BY DEF Waiting, Busy, Oldest
<1>b. \A q \in outstanding : q.id < nextId
  <2>1. \A q \in outstanding : q.id \in Oldest .. nextId - 1
    BY DEF Waiting
  <2>2. QED
    BY <1>1, <1>a, <2>1
<1>2. r \notin outstanding
  BY <1>1, <1>b
<1>3. IsFiniteSet(outstanding') /\ Cardinality(outstanding') = Cardinality(outstanding) + 1
  BY <1>1, <1>2, FS_AddElement
<1>4. Oldest' = Oldest /\ Busy' = Busy
  BY <1>1, <1>3 DEF Oldest, Busy
<1>5. /\ ring' \in Seq(RequestType) /\ Len(ring') = Len(ring) + 1
      /\ \A k \in 1 .. Len(ring) : ring'[k] = ring[k]
      /\ ring'[Len(ring) + 1] = r
  BY AppendProperties DEF Waiting
<1>6. {q.id : q \in outstanding'} = Oldest' .. nextId' - 1
  <2>1. {q.id : q \in outstanding'} = {q.id : q \in outstanding} \cup {nextId}
    OBVIOUS
  <2>2. {q.id : q \in outstanding} = Oldest .. nextId - 1 /\ Oldest \in Int /\ Oldest <= nextId
    BY <1>1 DEF Waiting, Oldest
  <2>3. QED
    BY <1>1, <1>4, <2>1, <2>2
<1>7. ASSUME NEW q \in outstanding', NEW s \in outstanding', q.id = s.id
      PROVE  q = s
  <2>1. \A t \in outstanding : t.id # nextId
    BY <1>1, <1>b
  <2>2. QED
    BY <1>7, <2>1 DEF Waiting
<1>8. ASSUME NEW k \in 1 .. Len(ring')
      PROVE  /\ ring'[k] \in outstanding'
             /\ ring'[k].id = Oldest' + Len(responses') + Busy' + k - 1
  <2>1. CASE k = Len(ring) + 1
    <3>1. Oldest + Len(responses) + Busy + Len(ring) = nextId
      <4>1. /\ nextId \in Nat /\ Cardinality(outstanding) \in Nat
            /\ Len(ring) \in Nat /\ Len(responses) \in Nat /\ Busy \in Nat
        BY <1>1, <1>a
      <4>2. QED
        BY <1>a, <4>1
    <3>2. ring'[k] = r /\ Len(responses') = Len(responses) /\ k - 1 = Len(ring)
      BY <1>1, <1>5, <2>1
    <3>3. Oldest' + Len(responses') + Busy' + k - 1 = nextId
      BY <1>1, <1>4, <1>a, <2>1, <3>1, <3>2
    <3>4. QED
      BY <3>2, <3>3
  <2>2. CASE k # Len(ring) + 1
    BY <1>1, <1>4, <1>5, <2>2 DEF Waiting
  <2>3. QED
    BY <2>1, <2>2
<1>9. Len(responses') + Busy' + Len(ring') = Cardinality(outstanding')
  BY <1>1, <1>3, <1>4, <1>5, <1>a
<1>10. nextId' \in 1 .. MaxRequests + 1 /\ Cardinality(outstanding') <= RING_SIZE
  BY <1>1, <1>3
<1>11. /\ responses' \in Seq([id : Nat, operation : STRING, status : Status])
       /\ \A k \in 1 .. Len(responses') : responses'[k].id = Oldest' + k - 1
       /\ req' # NoRequest => req' \in outstanding' /\ req'.id = Oldest' + Len(responses')
  BY <1>4 DEF Waiting
<1>12. QED
  BY <1>3, <1>5, <1>6, <1>7, <1>8, <1>9, <1>10, <1>11 DEF Waiting

LEMMA SubmitStep ==
  ASSUME RingInv, NEW w \in Workload, Submit(w)
  PROVE  RingInv'
<1>1. w \in RequestType /\ nextId \in Nat
  BY Requests DEF RingInv, Waiting
<1>2. PICK r \in RequestType : r = [w EXCEPT !.id = nextId]
  BY <1>1 DEF RequestType
<1>3. /\ ring' = Append(ring, r) /\ outstanding' = outstanding \cup {r} /\ nextId' = nextId + 1
      /\ nextId <= MaxRequests /\ Cardinality(outstanding) < RING_SIZE /\ WellFormed(w) /\ up
      /\ UNCHANGED <<cacheVars, imageVars, thread, responses, up, mem>>
  BY <1>2 DEF Submit
<1>4. UNCHANGED <<mGntLru, mapped, grants, req>>
  BY <1>3 DEF cacheVars, thread
<1>5. /\ r.id = nextId /\ r.operation = w.operation /\ r.sector_number = w.sector_number
      /\ r.nr_segments = w.nr_segments /\ r.seg = w.seg /\ r.indirect_grefs = w.indirect_grefs
      /\ r.nr_sectors = w.nr_sectors
  BY <1>1, <1>2 DEF RequestType
<1>6. Fields(r)
  BY <1>5, Requests DEF Fields, IsIndirect, NrIndirectGrefs
<1>7. WellFormed(r)
  BY <1>3, <1>5 DEF WellFormed, TableGrefs, Segments, IsIndirect, NrIndirectGrefs
<1>8. Granted'
  <2>1. ASSUME NEW q, Fields(q), WellFormed(q)
        PROVE  Fields(q)' /\ WellFormed(q)'
    <3>1. WellFormed(q)'
      BY <1>4, <2>1, SegmentsStay DEF RingInv, CacheInv
    <3>2. QED
      BY <2>1, <3>1 DEF Fields, IsIndirect, NrIndirectGrefs, div_round_up
  <2>2. QED
    BY <1>3, <1>6, <1>7, <2>1 DEF Granted, RingInv
<1>9. Waiting'
  BY <1>3, <1>4, <1>5, SubmitWaiting DEF RingInv
<1>10. ThreadTypes' /\ Working' /\ Pinned'
  BY <1>3, <1>4, ThreadKept DEF RingInv
<1>11. CacheInv' /\ ImageTypeOK' /\ Durable'
  BY <1>3, CacheKept, ImageKept DEF RingInv
<1>12. QED
  BY <1>3, <1>8, <1>9, <1>10, <1>11 DEF RingInv, Memory

(* The frontend takes the oldest response, and waits for its request no more. *)
LEMMA TakeResponseStep ==
  ASSUME RingInv, TakeResponse
  PROVE  RingInv'
<1>1. /\ responses # <<>> /\ responses' = Tail(responses)
      /\ outstanding' = {r \in outstanding : r.id # Head(responses).id}
      /\ UNCHANGED <<cacheVars, imageVars, thread, ring, nextId, up, mem>>
  BY DEF TakeResponse
<1>2. UNCHANGED <<mGntLru, mapped, grants, req>>
  BY <1>1 DEF cacheVars, thread
<1>3. /\ nextId \in Nat /\ Cardinality(outstanding) \in Nat /\ RING_SIZE \in Nat /\ Cardinality(outstanding) <= RING_SIZE
      /\ IsFiniteSet(outstanding) /\ Len(ring) \in Nat /\ Len(responses) \in Nat
      /\ Len(responses) + Busy + Len(ring) = Cardinality(outstanding) /\ Busy \in {0, 1}
      /\ Oldest = nextId - Cardinality(outstanding)
  BY FS_CardinalityType, LenProperties, RingSizes DEF RingInv, Waiting, Busy, Oldest
<1>4. /\ Len(responses) \in Nat \ {0} /\ Head(responses) = responses[1]
      /\ responses' \in Seq([id : Nat, operation : STRING, status : Status])
      /\ Len(responses') = Len(responses) - 1
      /\ \A k \in 1 .. Len(responses) - 1 : responses'[k] = responses[k + 1]
  BY <1>1, EmptySeq, LenProperties, HeadTailProperties DEF RingInv, Waiting
<1>5. Head(responses).id = Oldest
  <2>1. \A k \in 1 .. Len(responses) : responses[k].id = Oldest + k - 1
    BY DEF RingInv, Waiting
  <2>2. 1 \in 1 .. Len(responses)
    BY <1>4
  <2>3. responses[1].id = Oldest + 1 - 1
    BY <2>1, <2>2
  <2>4. Oldest \in Int
    BY <1>3
  <2>5. QED
    BY <1>4, <2>3, <2>4
<1>6. Oldest \in Oldest .. nextId - 1
  BY <1>3, <1>4
<1>7. PICK r \in outstanding : r.id = Oldest
  BY <1>6 DEF RingInv, Waiting
<1>8. outstanding' = outstanding \ {r}
  BY <1>1, <1>5, <1>7 DEF RingInv, Waiting
<1>9. IsFiniteSet(outstanding') /\ Cardinality(outstanding') = Cardinality(outstanding) - 1
  BY <1>3, <1>8, FS_RemoveElement
<1>10. Oldest' = Oldest + 1 /\ Busy' = Busy
  BY <1>1, <1>2, <1>3, <1>9 DEF Oldest, Busy
<1>11. Waiting'
  <2>0. Oldest' + Len(responses') = Oldest + Len(responses)
    BY <1>3, <1>4, <1>10
  <2>1. {q.id : q \in outstanding'} = Oldest' .. nextId' - 1
    <3>1. {q.id : q \in outstanding'} = {q.id : q \in outstanding} \ {Oldest}
      BY <1>7, <1>8 DEF RingInv, Waiting
    <3>2. {q.id : q \in outstanding} = Oldest .. nextId - 1
      BY DEF RingInv, Waiting
    <3>3. (Oldest .. nextId - 1) \ {Oldest} = Oldest' .. nextId' - 1
      BY <1>1, <1>3, <1>10
    <3>4. QED
      BY <3>1, <3>2, <3>3, Zenon
  <2>2. \A k \in 1 .. Len(responses') : responses'[k].id = Oldest' + k - 1
    <3>1. \A k \in 1 .. Len(responses) : responses[k].id = Oldest + k - 1
      BY DEF RingInv, Waiting
    <3>2. ASSUME NEW k \in 1 .. Len(responses) - 1 PROVE responses'[k].id = Oldest' + k - 1
      <4>1. k + 1 \in 1 .. Len(responses) /\ responses'[k] = responses[k + 1]
        BY <1>4
      <4>2. responses[k + 1].id = Oldest + (k + 1) - 1
        BY <3>1, <4>1
      <4>3. QED
        BY <1>3, <1>10, <4>1, <4>2
    <3>3. QED
      BY <1>4, <3>2
  <2>3. ASSUME NEW k \in 1 .. Len(ring')
        PROVE  ring'[k] \in outstanding' /\ ring'[k].id = Oldest' + Len(responses') + Busy' + k - 1
    <3>1. k \in 1 .. Len(ring) /\ ring'[k] = ring[k] /\ ring[k] \in outstanding
          /\ ring[k].id = Oldest + Len(responses) + Busy + k - 1
      BY <1>1, <2>3 DEF RingInv, Waiting
    <3>2. ring[k].id = Oldest' + Len(responses') + Busy' + k - 1
      BY <1>3, <1>10, <2>0, <3>1
    <3>3. ring[k].id # Oldest
      <4>1. Oldest \in Int /\ Len(responses) \in Nat \ {0} /\ Busy \in Nat /\ k \in Nat \ {0}
        <5>1. Oldest \in Int /\ Busy \in Nat
          BY <1>3
        <5>2. Len(responses) \in Nat \ {0}
          BY <1>4
        <5>3. k \in Nat \ {0}
          <6>1. k \in 1 .. Len(ring) /\ Len(ring) \in Nat
            BY <1>3, <3>1
          <6>2. QED
            BY <6>1
        <5>4. QED
          BY <5>1, <5>2, <5>3
      <4>2. Oldest + Len(responses) + Busy + k - 1 # Oldest
        BY <4>1
      <4>3. QED
        BY <3>1, <4>2
    <3>4. QED
      BY <1>7, <1>8, <3>1, <3>2, <3>3
  <2>4. req' # NoRequest => req' \in outstanding' /\ req'.id = Oldest' + Len(responses')
    <3>1. req # NoRequest => req \in outstanding /\ req.id = Oldest + Len(responses)
      BY DEF RingInv, Waiting
    <3>2. req # NoRequest => req.id # Oldest /\ req.id = Oldest' + Len(responses')
      <4>1. Oldest \in Int /\ Len(responses) \in Nat \ {0}
        BY <1>3, <1>4
      <4>2. Oldest + Len(responses) # Oldest
        BY <4>1
      <4>3. QED
        BY <2>0, <3>1, <4>2
    <3>3. QED
      BY <1>2, <1>7, <1>8, <3>1, <3>2
  <2>5. Len(responses') + Busy' + Len(ring') = Cardinality(outstanding') /\ Cardinality(outstanding') <= RING_SIZE
    BY <1>1, <1>3, <1>4, <1>9, <1>10
  <2>6. QED
    BY <1>1, <1>4, <1>8, <1>9, <2>1, <2>2, <2>3, <2>4, <2>5 DEF RingInv, Waiting
<1>12. Granted'
  BY <1>2, <1>8, GrantedKept DEF RingInv
<1>13. ThreadTypes' /\ Working' /\ Pinned'
  <2>1. ~up => outstanding' = {}
    BY <1>8 DEF RingInv, ThreadTypes
  <2>2. QED
    BY <1>1, <1>2, <2>1, ThreadKept DEF RingInv
<1>14. CacheInv' /\ ImageTypeOK' /\ Durable'
  BY <1>1, CacheKept, ImageKept DEF RingInv
<1>15. QED
  BY <1>1, <1>11, <1>12, <1>13, <1>14 DEF RingInv, Memory

(* The frontend grants other pages, but none of a request it waits for.      *)
LEMMA FrontendKeeps ==
  ASSUME RingInv, FrontendGrants, NEW r \in outstanding
  PROVE  Fields(r) /\ WellFormed(r) /\ \A g \in Grefs(r) : grants'[g] = grants[g]
<1>1. Fields(r) /\ WellFormed(r)
  BY DEF RingInv, Granted
<1>2. \A g \in Grefs(r) : grants[g] # NoFrame
  <2>1. \A g \in TableGrefs(r) : grants[g] # NoFrame
    BY <1>1, Pages, CacheNulls DEF WellFormed
  <2>2. \A k \in DOMAIN Segments(r) : grants[Segments(r)[k].gref] # NoFrame
    BY <1>1 DEF WellFormed
  <2>3. QED
    BY <2>1, <2>2 DEF Grefs
<1>3. ASSUME NEW g \in Gref, grants' = [grants EXCEPT ![g] = grants'[g]], g \notin Grefs(r)
      PROVE  \A h \in Grefs(r) : grants'[h] = grants[h]
  BY <1>1, <1>3, GrefTypes DEF RingInv, CacheInv
<1>4. PICK g \in Gref : grants' = [grants EXCEPT ![g] = grants'[g]] /\ g \notin Grefs(r)
  <2>1. ASSUME NEW g \in Gref, NEW f, GrantAccess(g, f)
        PROVE  grants' = [grants EXCEPT ![g] = grants'[g]] /\ g \notin Grefs(r)
    BY <1>2, <2>1 DEF GrantAccess, RingInv, CacheInv
  <2>2. ASSUME NEW g \in Gref, EndAccess(g), g \notin Grefs(r)
        PROVE  grants' = [grants EXCEPT ![g] = grants'[g]] /\ g \notin Grefs(r)
    BY <2>2 DEF EndAccess, RingInv, CacheInv
  <2>3. QED
    BY <2>1, <2>2 DEF FrontendGrants
<1>5. QED
  BY <1>1, <1>3, <1>4

LEMMA FrontendGrantsStep ==
  ASSUME RingInv, FrontendGrants
  PROVE  RingInv'
<1>1. UNCHANGED <<imageVars, thread, frontend, up, mem>>
  BY DEF FrontendGrants
<1>2. UNCHANGED <<outstanding, req>>
  BY <1>1 DEF frontend, thread
<1>3. CacheInv' /\ UNCHANGED <<mGntLru, mGntMap, mapped>>
  <2>1. ASSUME NEW g \in Gref, NEW f \in Regrants[g], GrantAccess(g, f)
        PROVE  f \in Frame
    BY Pages
  <2>2. QED
    BY <2>1, FrontendInv DEF FrontendGrants, RingInv
<1>4. \A r \in outstanding : Fields(r) /\ WellFormed(r) /\ \A g \in Grefs(r) : grants'[g] = grants[g]
  BY FrontendKeeps
<1>5. Granted'
  <2>1. ASSUME NEW r \in outstanding PROVE Fields(r)' /\ WellFormed(r)'
    BY <1>4, SegmentsStay DEF RingInv, CacheInv, Fields, IsIndirect, NrIndirectGrefs, div_round_up
  <2>2. QED
    BY <1>2, <2>1 DEF Granted
<1>6. Waiting'
  BY <1>1, <1>2, WaitingKept DEF RingInv
<1>7. ThreadTypes' /\ Working' /\ Pinned'
  BY <1>1, <1>2, <1>3, ThreadKept DEF RingInv, ThreadTypes
<1>8. ImageTypeOK' /\ Durable'
  BY <1>1, ImageKept DEF RingInv
<1>9. QED
  BY <1>1, <1>3, <1>5, <1>6, <1>7, <1>8 DEF RingInv, Memory

-----------------------------------------------------------------------------
(* A thread at rest.                                                         *)
LEMMA RestingThread ==
  ASSUME ThreadIdle', ~up' => mGntLru' = <<>> /\ outstanding' = {}
  PROVE  ThreadTypes' /\ Working' /\ Pinned'
<1>1. /\ req' = NoRequest /\ pc' = "idle" /\ seg' = nullptr /\ buffer' = nullptr
      /\ i' = 0 /\ segments_done' = 0 /\ n' = 0 /\ start_sector' = 0 /\ status' = "OKAY"
  BY DEF ThreadIdle
<1>2. QED
  BY <1>1 DEF ThreadTypes, Working, Pinned, Status

(* A ring nobody waits for.                                                  *)
LEMMA NothingWaiting ==
  ASSUME nextId \in 1 .. MaxRequests + 1, UNCHANGED nextId, req' = NoRequest,
         ring' = <<>>, responses' = <<>>, outstanding' = {}
  PROVE  Waiting' /\ Granted'
<1>1. IsFiniteSet(outstanding') /\ Cardinality(outstanding') = 0
  BY FS_EmptySet
<1>2. Busy' = 0 /\ Oldest' = nextId
  BY <1>1 DEF Busy, Oldest
<1>3. /\ ring' \in Seq(RequestType) /\ responses' \in Seq([id : Nat, operation : STRING, status : Status])
      /\ Len(ring') = 0 /\ Len(responses') = 0
  BY EmptySeq
<1>4. {r.id : r \in outstanding'} = Oldest' .. nextId' - 1
  BY <1>2
<1>5. Waiting'
  BY <1>1, <1>2, <1>3, <1>4, RingSizes DEF Waiting
<1>6. QED
  BY <1>5 DEF Granted

(* freeGrants leaves nothing, as a crash does.                               *)
LEMMA FreeGrantsEmpties ==
  ASSUME CacheInv
  PROVE  Without(mapped, {mGntLru[k].addr : k \in DOMAIN mGntLru}) = [a \in {} |-> nullptr]
<1>1. DOMAIN mGntLru = 1 .. Len(mGntLru)
  BY LenProperties DEF CacheInv, Consistent, NoDuplicates, Cache
<1>2. DOMAIN mapped \ {mGntLru[k].addr : k \in DOMAIN mGntLru} = {}
  BY <1>1 DEF CacheInv, Consistent, Mapped, Cache
<1>3. QED
  BY <1>2 DEF Without, Restrict

LEMMA RingGoesSteps ==
  ASSUME RingInv, DestroyRing \/ Crash
  PROVE  RingInv' /\ FreeGrants /\ DOMAIN mapped' = {}
<1>1. FreeGrants
  BY FreeGrantsEmpties DEF DestroyRing, Crash, FreeGrants, Becomes, RingInv
<1>2. CacheInv' /\ mapped' = [a \in {} |-> nullptr] /\ mGntLru' = <<>>
  BY <1>1, FreeGrantsInv DEF RingInv
<1>3. ThreadIdle'
  <2>1. CASE DestroyRing
    BY <2>1 DEF DestroyRing, thread, ThreadIdle, RingInv, ThreadTypes
  <2>2. CASE Crash
    BY <2>2 DEF Crash, ThreadRests, ThreadIdle
  <2>3. QED
    BY <2>1, <2>2
<1>4. /\ ring' = <<>> /\ responses' = <<>> /\ outstanding' = {} /\ UNCHANGED nextId /\ UNCHANGED mem
  BY DEF DestroyRing, Crash
<1>5. Waiting' /\ Granted'
  BY <1>3, <1>4, NothingWaiting DEF RingInv, Waiting, ThreadIdle
<1>6. ImageTypeOK' /\ Durable'
  BY ImageKept, CrashInImage DEF RingInv, DestroyRing, Crash
<1>7. ThreadTypes' /\ Working' /\ Pinned'
  BY <1>2, <1>3, <1>4, RestingThread
<1>8. QED
  BY <1>1, <1>2, <1>4, <1>5, <1>6, <1>7 DEF RingInv, Memory

(* A new ring, a step of the disk, and steps of others.                      *)
LEMMA RingStaysSteps ==
  ASSUME RingInv,
         \/ CreateRing
         \/ Storage
         \/ UNCHANGED vars
  PROVE  RingInv'
<1>1. UNCHANGED <<cacheVars, thread, frontend, mem>> /\ (up' = up \/ CreateRing)
  BY DEF CreateRing, Storage, vars
<1>2. UNCHANGED <<mGntLru, mapped, grants, req, outstanding, ring, responses, nextId>>
  BY <1>1 DEF cacheVars, thread, frontend
<1>3. CacheInv' /\ Granted' /\ Waiting'
  BY <1>1, <1>2, CacheKept, GrantedKept, WaitingKept DEF RingInv
<1>4. ImageTypeOK' /\ Durable'
  BY ImageKept, WritebackInImage, DiskTurnsInImage DEF RingInv, CreateRing, Storage, vars
<1>5. ThreadTypes' /\ Working' /\ Pinned'
  <2>1. CASE up' = up
    BY <1>1, <1>2, <2>1, ThreadKept DEF RingInv, ThreadTypes
  <2>2. CASE CreateRing
    <3>1. ThreadIdle' /\ up'
      BY <2>2 DEF CreateRing, RingInv, ThreadTypes, ThreadIdle, thread
    <3>2. QED
      BY <3>1, RestingThread
  <2>3. QED
    BY <1>1, <2>1, <2>2
<1>6. QED
  BY <1>1, <1>3, <1>4, <1>5 DEF RingInv, Memory

-----------------------------------------------------------------------------
(* The thread takes the next request from the ring ...                       *)
LEMMA TakenWaiting ==
  ASSUME Waiting, req = NoRequest, ring # <<>>, ring' = Tail(ring), req' = Head(ring),
         UNCHANGED <<responses, outstanding, nextId>>, NoRequest \notin RequestType
  PROVE  Waiting' /\ req' \in outstanding /\ req' # NoRequest
<1>1. /\ nextId \in Nat /\ Cardinality(outstanding) \in Nat /\ Len(ring) \in Nat /\ Len(responses) \in Nat
  BY FS_CardinalityType, LenProperties DEF Waiting
<1>2. /\ Len(ring) \in Nat \ {0} /\ Head(ring) = ring[1]
      /\ ring' \in Seq(RequestType) /\ Len(ring') = Len(ring) - 1
      /\ \A k \in 1 .. Len(ring) - 1 : ring'[k] = ring[k + 1]
  BY EmptySeq, LenProperties, HeadTailProperties DEF Waiting
<1>3. 1 \in 1 .. Len(ring)
  BY <1>2
<1>4. req' \in outstanding /\ req' # NoRequest
  BY <1>2, <1>3, ElementOfSeq DEF Waiting
<1>5. Busy = 0 /\ Busy' = 1 /\ Oldest' = Oldest /\ Oldest \in Int
  BY <1>1, <1>4 DEF Busy, Oldest
<1>6. req'.id = Oldest + Len(responses)
  <2>1. ring[1].id = Oldest + Len(responses) + Busy + 1 - 1
    BY <1>3 DEF Waiting
  <2>2. QED
    BY <1>1, <1>2, <1>5, <2>1
<1>7. ASSUME NEW k \in 1 .. Len(ring')
      PROVE  ring'[k] \in outstanding' /\ ring'[k].id = Oldest' + Len(responses') + Busy' + k - 1
  <2>1. k + 1 \in 1 .. Len(ring) /\ ring'[k] = ring[k + 1] /\ k \in Nat
    BY <1>2, <1>7
  <2>2. ring[k + 1] \in outstanding /\ ring[k + 1].id = Oldest + Len(responses) + Busy + (k + 1) - 1
    BY <2>1 DEF Waiting
  <2>3. QED
    BY <1>1, <1>5, <2>1, <2>2
<1>8. Len(responses') + Busy' + Len(ring') = Cardinality(outstanding')
  BY <1>1, <1>2, <1>5 DEF Waiting
<1>9. QED
  BY <1>2, <1>4, <1>5, <1>6, <1>7, <1>8 DEF Waiting

(* ... and starts it.                                                        *)
LEMMA ProcessRequestStep ==
  ASSUME RingInv, ProcessRequest
  PROVE  RingInv'
<1>1. /\ pc = "idle" /\ up /\ ring # <<>> /\ ring' = Tail(ring) /\ req' = Head(ring)
      /\ UNCHANGED <<cacheVars, responses, outstanding, nextId, up, mem>>
      /\ \/ HandleReadWrite(req') \/ HandleIndirect(req') \/ HandleDiscard(req')
         \/ HandleFlush(req') /\ Settle
         \/ HandleOther(req')
  BY DEF ProcessRequest
<1>2. /\ req = NoRequest /\ seg = nullptr /\ buffer = nullptr
      /\ i = 0 /\ segments_done = 0 /\ n = 0 /\ start_sector = 0 /\ status = "OKAY"
  BY <1>1 DEF RingInv, ThreadTypes, ThreadIdle
<1>3. Waiting' /\ req' \in outstanding /\ req' # NoRequest
  BY <1>1, <1>2, TakenWaiting, Requests DEF RingInv
<1>4. CacheInv' /\ Granted' /\ mGntLru' = mGntLru
  BY <1>1, CacheKept, GrantedKept DEF RingInv, cacheVars
<1>5. Fields(req')
  BY <1>3 DEF RingInv, Granted
<1>6. /\ req'.sector_number \in Nat /\ req'.nr_segments \in Nat /\ req'.nr_sectors \in Nat
  BY <1>5, FieldTypes
<1>7. ImageTypeOK' /\ Durable'
  <2>1. CASE HandleFlush(req') /\ Settle
    BY <2>1, FlushInImage DEF HandleFlush, RingInv
  <2>2. CASE HandleDiscard(req')
    BY <1>6, <2>2, DiscardStaysInImage DEF HandleDiscard, RingInv
  <2>3. CASE HandleReadWrite(req') \/ HandleIndirect(req') \/ HandleOther(req')
    BY <2>3, ImageKept DEF HandleReadWrite, HandleIndirect, HandleOther, RingInv
  <2>4. QED
    BY <1>1, <2>1, <2>2, <2>3
<1>8. CASE \E rc \in Status : Answer(rc)
  BY <1>1, <1>2, <1>3, <1>4, <1>7, <1>8 DEF Answer, RingInv, ThreadTypes, Working, Pinned, Memory
<1>9. CASE /\ req'.operation \in {"READ", "WRITE"}
           /\ req'.nr_segments > 0
           /\ pc' = "segment" /\ start_sector' = req'.sector_number
           /\ UNCHANGED <<seg, i, segments_done, n, buffer, status>>
  <2>1. ~IsIndirect(req') /\ NrSegs' = req'.nr_segments
    BY <1>9 DEF IsIndirect, NrSegs
  <2>2. Working'
    BY <1>2, <1>6, <1>9, <2>1, RingSizes DEF Working
  <2>3. Pinned' /\ ThreadTypes'
    BY <1>1, <1>2, <1>3, <1>6, <1>9, <2>1 DEF Pinned, ThreadTypes, Status
  <2>4. QED
    BY <1>1, <1>3, <1>4, <1>7, <2>2, <2>3 DEF RingInv, Memory
<1>10. CASE /\ req'.operation = "INDIRECT"
            /\ req'.nr_segments \in 1 .. MAX_INDIRECT_SEGMENTS
            /\ pc' = "page" /\ start_sector' = req'.sector_number
            /\ UNCHANGED <<seg, i, segments_done, n, buffer, status>>
  <2>1. 0 < NrIndirectGrefs(req')
    <3>1. SEGMENTS_PER_INDIRECT_PAGE \in Nat \ {0} /\ 1 \in 1 .. req'.nr_segments
      BY <1>6, <1>10, RingSizes
    <3>2. /\ div_round_up(req'.nr_segments, SEGMENTS_PER_INDIRECT_PAGE) \in Nat
          /\ \A k \in 1 .. req'.nr_segments : ((k - 1) \div SEGMENTS_PER_INDIRECT_PAGE) + 1
                \in 1 .. div_round_up(req'.nr_segments, SEGMENTS_PER_INDIRECT_PAGE)
      BY <1>6, <3>1, PagesOfSegments
    <3>3. div_round_up(req'.nr_segments, SEGMENTS_PER_INDIRECT_PAGE) > 0
      BY <3>1, <3>2
    <3>4. QED
      BY <3>3 DEF NrIndirectGrefs
  <2>2. Working'
    BY <1>2, <1>6, <1>10, <2>1, RingSizes DEF Working, IsIndirect, NrIndirectGrefs, div_round_up
  <2>3. Pinned' /\ ThreadTypes'
    BY <1>1, <1>2, <1>3, <1>6, <1>10 DEF Pinned, ThreadTypes, Status
  <2>4. QED
    BY <1>1, <1>3, <1>4, <1>7, <2>2, <2>3 DEF RingInv, Memory
<1>11. QED
  <2>1. CASE HandleReadWrite(req')
    BY <1>6, <1>8, <1>9, <2>1, RingSizes DEF HandleReadWrite, Status
  <2>2. CASE HandleIndirect(req')
    BY <1>8, <1>10, <2>2 DEF HandleIndirect, Status
  <2>3. CASE HandleFlush(req') \/ HandleDiscard(req') \/ HandleOther(req')
    BY <1>8, <2>3 DEF HandleFlush, HandleDiscard, HandleOther, Status
  <2>4. QED
    BY <1>1, <2>1, <2>2, <2>3

-----------------------------------------------------------------------------
(* A page that is in the list after a step is mapped after it.               *)
LEMMA ListedStaysMapped ==
  ASSUME CacheInv', NEW k \in 1 .. Len(mGntLru'), NEW g, NEW a, mGntLru'[k] = [gref |-> g, addr |-> a]
  PROVE  a \in DOMAIN mapped' /\ mapped'[a].gref = g /\ mapped'[a].frame = grants'[g]
<1>1. mGntLru'[k].gref = g /\ mGntLru'[k].addr = a
  OBVIOUS
<1>2. /\ DOMAIN mapped' = {mGntLru'[j].addr : j \in 1 .. Len(mGntLru')}
      /\ mapped'[mGntLru'[k].addr] = [gref |-> mGntLru'[k].gref, frame |-> grants'[mGntLru'[k].gref]]
  BY DEF CacheInv, Consistent, Mapped, Cache
<1>3. QED
  BY <1>1, <1>2

(* The thread has given the request up, and will answer it.                  *)
LEMMA GivenUp ==
  ASSUME RingInv, pc # "idle", pc' = "respond", status' \in Status, CacheInv', grants' = grants,
         ImageTypeOK', Durable', Memory',
         UNCHANGED <<frontend, req, up, seg, i, segments_done, n, start_sector, buffer>>
  PROVE  RingInv'
<1>1. Granted' /\ Waiting'
  BY GrantedKept, WaitingKept DEF RingInv, frontend
<1>2. ThreadTypes' /\ Working' /\ Pinned'
  BY DEF RingInv, ThreadTypes, Working, Pinned
<1>3. QED
  BY <1>1, <1>2 DEF RingInv

(* handleIndirect maps the next page of segments.                            *)
LEMMA AddIndirectPageStep ==
  ASSUME RingInv, AddIndirectPage
  PROVE  RingInv' /\ \E g \in Gref, virt \in Addr \cup {nullptr} : AddGrant(g, virt)
<1>1. PICK virt \in Addr \cup {nullptr} :
        /\ AddGrant(req.indirect_grefs[i + 1], virt)
        /\ \/ virt = nullptr /\ Answer("ERROR")
           \/ /\ virt # nullptr
              /\ seg' = virt /\ n' = 0 /\ pc' = "segment"
              /\ UNCHANGED <<i, segments_done, start_sector, buffer, status>>
  BY DEF AddIndirectPage
<1>2. pc = "page" /\ UNCHANGED <<imageVars, frontend, req, up, mem>>
  BY DEF AddIndirectPage
<1>3. /\ Fields(req) /\ IsIndirect(req) /\ req.indirect_grefs[i + 1] \in Gref
      /\ req.nr_segments \in Nat
  BY <1>2, AtPage, FieldTypes
<1>4. /\ CacheInv' /\ grants' = grants
      /\ virt # nullptr => mGntLru' # <<>> /\ mGntLru'[1] = [gref |-> req.indirect_grefs[i + 1], addr |-> virt]
  BY <1>1, <1>3, AddGrantProperties DEF RingInv, AddGrant
<1>5. ImageTypeOK' /\ Durable' /\ Memory'
  BY <1>2, ImageKept DEF RingInv, Memory
<1>6. CASE virt = nullptr /\ Answer("ERROR")
  BY <1>1, <1>2, <1>3, <1>4, <1>5, <1>6, GivenUp DEF Answer, Status
<1>7. CASE /\ virt # nullptr
           /\ seg' = virt /\ n' = 0 /\ pc' = "segment"
           /\ UNCHANGED <<i, segments_done, start_sector, buffer, status>>
  <2>1. Granted' /\ Waiting'
    BY <1>2, <1>4, GrantedKept, WaitingKept DEF RingInv, frontend
  <2>2. ThreadTypes'
    BY <1>2, <1>7 DEF RingInv, ThreadTypes
  <2>3. Working'
    <3>1. /\ segments_done \in Nat /\ n = 0 /\ segments_done + n < req.nr_segments
          /\ req.nr_segments <= MAX_INDIRECT_SEGMENTS /\ i < NrIndirectGrefs(req)
          /\ segments_done = i * SEGMENTS_PER_INDIRECT_PAGE
      BY <1>2, <1>3 DEF RingInv, Working, ThreadTypes
    <3>2. NrSegs' = minimum(req.nr_segments - segments_done, SEGMENTS_PER_INDIRECT_PAGE)
      BY <1>2, <1>3, <1>7 DEF NrSegs, IsIndirect, minimum
    <3>3. 0 < NrSegs'
      BY <1>3, <3>1, <3>2, RingSizes DEF minimum
    <3>4. QED
      BY <1>2, <1>3, <1>7, <3>1, <3>3 DEF Working, IsIndirect, NrIndirectGrefs, div_round_up
  <2>4. Pinned'
    <3>1. 1 \in 1 .. Len(mGntLru')
      BY <1>4, <1>7, EmptySeq, LenProperties DEF CacheInv, Consistent, NoDuplicates, Cache
    <3>2. QED
      BY <1>2, <1>3, <1>4, <1>7, <3>1 DEF Pinned, AmongFirst
  <2>5. QED
    BY <1>1, <1>3, <1>4, <1>5, <2>1, <2>2, <2>3, <2>4 DEF RingInv
<1>8. QED
  BY <1>1, <1>3, <1>6, <1>7

(* processSegment maps the page of the segment; an eviction that may cause   *)
(* keeps the page of segments, which is among the n + 1 used last.           *)
LEMMA AddSegmentStep ==
  ASSUME RingInv, AddSegment
  PROVE  RingInv' /\ \E g \in Gref, virt \in Addr \cup {nullptr} : AddGrant(g, virt)
<1>1. PICK virt \in Addr \cup {nullptr} :
        /\ AddGrant(Segment.gref, virt)
        /\ \/ virt = nullptr /\ Answer("ERROR")
           \/ /\ virt # nullptr
              /\ buffer' = virt /\ pc' = "copy"
              /\ UNCHANGED <<seg, i, segments_done, n, start_sector, status>>
  BY DEF AddSegment
<1>2. pc = "segment" /\ UNCHANGED <<imageVars, frontend, req, up, mem>>
  BY DEF AddSegment
<1>3. Fields(req) /\ Segment.gref \in Gref /\ req.nr_segments \in Nat /\ n \in Nat
  BY <1>2, AtSegment, FieldTypes DEF SegmentType, RingInv, ThreadTypes
<1>4. /\ CacheInv' /\ Kept /\ grants' = grants
      /\ virt # nullptr => mGntLru' # <<>> /\ mGntLru'[1] = [gref |-> Segment.gref, addr |-> virt]
  BY <1>1, <1>3, AddGrantProperties DEF RingInv, AddGrant
<1>5. ImageTypeOK' /\ Durable' /\ Memory'
  BY <1>2, ImageKept DEF RingInv, Memory
<1>6. CASE virt = nullptr /\ Answer("ERROR")
  BY <1>1, <1>2, <1>3, <1>4, <1>5, <1>6, GivenUp DEF Answer, Status
<1>7. CASE /\ virt # nullptr
           /\ buffer' = virt /\ pc' = "copy"
           /\ UNCHANGED <<seg, i, segments_done, n, start_sector, status>>
  <2>1. Granted' /\ Waiting'
    BY <1>2, <1>4, GrantedKept, WaitingKept DEF RingInv, frontend
  <2>2. ThreadTypes'
    BY <1>2, <1>7 DEF RingInv, ThreadTypes
  <2>3. Working'
    BY <1>2, <1>7 DEF RingInv, Working, NrSegs, IsIndirect, NrIndirectGrefs, div_round_up, minimum
  <2>4. ASSUME IsIndirect(req)
        PROVE  /\ AmongFirst(n + 2, [gref |-> req.indirect_grefs[i + 1], addr |-> seg])'
               /\ mapped'[seg].frame = mapped[seg].frame
    <3>1. PICK l \in 1 .. Len(mGntLru) :
            l <= n + 1 /\ mGntLru[l] = [gref |-> req.indirect_grefs[i + 1], addr |-> seg]
      BY <1>2, <2>4 DEF RingInv, Pinned, AmongFirst
    <3>2. n + 1 <= KeepSize
      <4>1. n < minimum(req.nr_segments - segments_done, SEGMENTS_PER_INDIRECT_PAGE)
        BY <1>2, <2>4 DEF RingInv, Working, NrSegs
      <4>2. req.nr_segments <= MAX_INDIRECT_SEGMENTS /\ segments_done \in Nat
        BY <1>2, <2>4 DEF RingInv, Working, ThreadTypes
      <4>3. n < minimum(SEGMENTS_PER_INDIRECT_PAGE, MAX_INDIRECT_SEGMENTS)
        BY <1>3, <4>1, <4>2, RingSizes DEF minimum
      <4>4. QED
        BY <1>3, <4>3, RingSizes, KeepSizeType DEF minimum
    <3>3. l \in Nat /\ l <= KeepSize
      BY <1>3, <3>1, <3>2, KeepSizeType
    <3>4. PICK k \in 1 .. Len(mGntLru') : mGntLru'[k] = mGntLru[l] /\ k <= l + 1
      BY <1>4, <3>3 DEF Kept
    <3>5. k <= n + 2
      BY <1>3, <3>1, <3>3, <3>4
    <3>6. mapped'[seg].frame = grants'[req.indirect_grefs[i + 1]]
      BY <1>4, <3>1, <3>4, ListedStaysMapped
    <3>7. mapped[seg].frame = grants[req.indirect_grefs[i + 1]]
      BY <1>2, <2>4, ListedIsMapped DEF RingInv, Pinned
    <3>8. QED
      BY <1>2, <1>4, <1>7, <3>1, <3>4, <3>5, <3>6, <3>7 DEF AmongFirst
  <2>5. Segment' = Segment
    <3>1. CASE IsIndirect(req)
      BY <1>2, <1>7, <2>4, <3>1 DEF Segment
    <3>2. CASE ~IsIndirect(req)
      BY <1>2, <1>7, <3>2 DEF Segment, RingInv, Working
    <3>3. QED
      BY <3>1, <3>2
  <2>6. Pinned'
    <3>1. 1 \in 1 .. Len(mGntLru')
      BY <1>4, <1>7, EmptySeq, LenProperties DEF CacheInv, Consistent, NoDuplicates, Cache
    <3>2. AmongFirst(1, [gref |-> Segment.gref, addr |-> buffer])'
      BY <1>4, <1>7, <2>5, <3>1 DEF AmongFirst
    <3>3. QED
      BY <1>2, <1>7, <2>4, <3>2 DEF Pinned, IsIndirect
  <2>7. QED
    BY <1>1, <1>3, <1>4, <1>5, <2>1, <2>2, <2>3, <2>6 DEF RingInv
<1>8. QED
  BY <1>1, <1>6, <1>7

-----------------------------------------------------------------------------
(* The sectors of a segment, and where they are in a page that has them.     *)
LEMMA SegmentSectors ==
  ASSUME RingInv, pc = "copy"
  PROVE  /\ Segment.first_sect \in Nat /\ Segment.last_sect \in Nat /\ NrSectors(Segment) \in Nat
         /\ start_sector \in Nat /\ NextSector \in Nat
         /\ InPage(Segment) => \A o \in 0 .. NrSectors(Segment) - 1 :
              Segment.first_sect + o \in 0 .. SECTORS_PER_PAGE - 1
<1>1. Segment.first_sect \in Nat /\ Segment.last_sect \in Nat
  BY AtSegment DEF SegmentType
<1>2. NrSectors(Segment) \in Nat
  <2>1. Segment.last_sect - Segment.first_sect + 1 \in Int
    BY <1>1
  <2>2. UINT32 \in Nat \ {0}
    BY RingSizes
  <2>3. QED
    BY <2>1, <2>2 DEF NrSectors
<1>3. start_sector \in Nat
  BY DEF RingInv, ThreadTypes
<1>4. ASSUME InPage(Segment), NEW o \in 0 .. NrSectors(Segment) - 1
      PROVE  Segment.first_sect + o \in 0 .. SECTORS_PER_PAGE - 1
  BY <1>1, <1>2, <1>4, RingSizes DEF InPage
<1>5. QED
  BY <1>1, <1>2, <1>3, <1>4 DEF NextSector

(* After a segment the thread goes on to the next, to the next page of       *)
(* segments, or to the response.                                             *)
LEMMA AdvanceStep ==
  ASSUME RingInv, pc = "copy", Advance, UNCHANGED <<cacheVars, frontend, req, up>>,
         ImageTypeOK', Durable', Memory'
  PROVE  RingInv'
<1>1. /\ start_sector' = NextSector /\ buffer' = nullptr /\ status' = "OKAY"
      /\ UNCHANGED <<mGntLru, mapped, grants, outstanding>>
  BY DEF Advance, cacheVars, frontend
<1>2. /\ Fields(req) /\ req.nr_segments \in Nat /\ i \in Nat /\ segments_done \in Nat /\ n \in Nat
      /\ segments_done + n < req.nr_segments /\ n < NrSegs
  BY AtSegment, FieldTypes DEF RingInv, ThreadTypes, Working
<1>3. NextSector \in Nat
  BY SegmentSectors
<1>4. CacheInv' /\ Granted' /\ Waiting'
  BY <1>1, CacheKept, GrantedKept, WaitingKept DEF RingInv
<1>5. CASE /\ n + 1 < NrSegs
           /\ n' = n + 1 /\ pc' = "segment"
           /\ UNCHANGED <<seg, i, segments_done>>
  <2>1. ThreadTypes'
    BY <1>1, <1>2, <1>3, <1>5 DEF RingInv, ThreadTypes, Status
  <2>2. NrSegs' = NrSegs
    BY <1>5 DEF NrSegs, IsIndirect, minimum
  <2>3. segments_done + n + 1 < req.nr_segments
    BY <1>2, <1>5, RingSizes DEF NrSegs, minimum, RingInv, Working
  <2>4. segments_done' + n' = segments_done + n + 1
    BY <1>2, <1>5
  <2>5. Working'
    BY <1>1, <1>3, <1>5, <2>2, <2>3, <2>4 DEF RingInv, Working, IsIndirect, NrIndirectGrefs, div_round_up
  <2>6. Pinned'
    <3>1. n' + 1 = n + 2
      BY <1>2, <1>5
    <3>2. QED
      BY <1>1, <1>5, <3>1 DEF RingInv, Pinned, AmongFirst, IsIndirect
  <2>7. QED
    BY <1>4, <2>1, <2>5, <2>6 DEF RingInv
<1>6. CASE /\ n + 1 = NrSegs
           /\ n' = 0 /\ seg' = nullptr
           /\ segments_done' = segments_done + NrSegs
           /\ i' = i + 1
           /\ pc' = IF IsIndirect(req) /\ i' < NrIndirectGrefs(req) THEN "page" ELSE "respond"
  <2>1. ThreadTypes'
    BY <1>1, <1>2, <1>3, <1>6 DEF RingInv, ThreadTypes, Status
  <2>2. ASSUME IsIndirect(req), i + 1 < NrIndirectGrefs(req)
        PROVE  /\ segments_done' = (i + 1) * SEGMENTS_PER_INDIRECT_PAGE
               /\ segments_done' < req.nr_segments
    <3>1. SEGMENTS_PER_INDIRECT_PAGE \in Nat \ {0} /\ i + 1 \in Nat
      BY <1>2, RingSizes
    <3>2. (i + 1) * SEGMENTS_PER_INDIRECT_PAGE < req.nr_segments
      BY <1>2, <2>2, <3>1, PagesOfSegments DEF NrIndirectGrefs
    <3>3. segments_done = i * SEGMENTS_PER_INDIRECT_PAGE
      BY <2>2 DEF RingInv, Working
    <3>4. (i + 1) * SEGMENTS_PER_INDIRECT_PAGE = segments_done + SEGMENTS_PER_INDIRECT_PAGE
      BY <1>2, <3>1, <3>3, Products
    <3>5. NrSegs = SEGMENTS_PER_INDIRECT_PAGE
      BY <1>2, <2>2, <3>1, <3>2, <3>4 DEF NrSegs, minimum
    <3>6. QED
      BY <1>6, <3>2, <3>4, <3>5
  <2>3. segments_done' + n' = segments_done + n + 1
    BY <1>2, <1>6
  <2>4. Working'
    <3>1. CASE IsIndirect(req) /\ i + 1 < NrIndirectGrefs(req)
      <4>1. /\ IsIndirect(req)' /\ NrIndirectGrefs(req)' = NrIndirectGrefs(req) /\ pc' = "page"
            /\ req'.nr_segments <= MAX_INDIRECT_SEGMENTS
        BY <1>6, <3>1 DEF RingInv, Working, IsIndirect, NrIndirectGrefs, div_round_up
      <4>2. segments_done' + n' < req'.nr_segments /\ segments_done' = i' * SEGMENTS_PER_INDIRECT_PAGE
        BY <1>2, <1>6, <2>2, <2>3, <3>1
      <4>3. QED
        BY <1>6, <3>1, <4>1, <4>2 DEF Working
    <3>2. CASE ~(IsIndirect(req) /\ i + 1 < NrIndirectGrefs(req))
      BY <1>6, <3>2 DEF Working
    <3>3. QED
      BY <3>1, <3>2
  <2>5. Pinned'
    BY <1>6 DEF Pinned
  <2>6. QED
    BY <1>4, <2>1, <2>4, <2>5 DEF RingInv
<1>7. QED
  BY <1>5, <1>6 DEF Advance

(* processSegment copies between the page and the image.                     *)
LEMMA CopySegmentStep ==
  ASSUME RingInv, CopySegment
  PROVE  RingInv'
<1> DEFINE frame == mapped[buffer].frame
           page == mem[frame]
           nr == NrSectors(Segment)
           written == [o \in 0 .. nr - 1 |-> page[Segment.first_sect + o]]
           read == [o \in DOMAIN page |->
                      IF o \in Segment.first_sect .. Segment.first_sect + nr - 1
                      THEN ReadBuffer(start_sector, nr)[o - Segment.first_sect] ELSE page[o]]
<1>1. /\ pc = "copy" /\ UNCHANGED <<cacheVars, frontend, req, up>>
      /\ InImage(start_sector, nr) => InPage(Segment)
  BY DEF CopySegment
<1>2. PICK rc \in Status :
        /\ \/ WriteSectors(start_sector, written, nr, rc) /\ UNCHANGED mem
           \/ /\ InImage(start_sector, nr) /\ Inside(start_sector, nr)
              /\ mem' = [mem EXCEPT ![frame] = read] /\ UNCHANGED imageVars
           \/ UNCHANGED <<imageVars, mem>>
        /\ \/ rc # "OKAY" /\ Answer(rc)
           \/ rc = "OKAY" /\ Advance
  BY DEF CopySegment
<1>3. /\ Segment.first_sect \in Nat /\ nr \in Nat /\ start_sector \in Nat
      /\ InImage(start_sector, nr) => \A o \in 0 .. nr - 1 : Segment.first_sect + o \in 0 .. SECTORS_PER_PAGE - 1
  BY <1>1, SegmentSectors
<1>4. frame \in Frame /\ page \in [0 .. SECTORS_PER_PAGE - 1 -> Content]
  BY <1>1, AtCopy DEF RingInv, Memory
<1>5. InImage(start_sector, nr) => written \in [0 .. nr - 1 -> Content]
  BY <1>3, <1>4
<1>6. ASSUME InImage(start_sector, nr), Inside(start_sector, nr)
      PROVE  read \in [0 .. SECTORS_PER_PAGE - 1 -> Content]
  <2>1. \A o \in 0 .. nr - 1 : start_sector + o \in Sector
    BY <1>3, <1>6, InsideSectors
  <2>2. \A o \in 0 .. nr - 1 : ReadBuffer(start_sector, nr)[o] \in Content
    BY <2>1 DEF ReadBuffer, RingInv, ImageTypeOK
  <2>3. ASSUME NEW o \in 0 .. SECTORS_PER_PAGE - 1, o \in Segment.first_sect .. Segment.first_sect + nr - 1
        PROVE  o - Segment.first_sect \in 0 .. nr - 1
    BY <1>3, <2>3, RingSizes
  <2>4. QED
    BY <1>4, <2>2, <2>3
<1>7. ImageTypeOK' /\ Durable' /\ Memory'
  <2>1. CASE WriteSectors(start_sector, written, nr, rc) /\ UNCHANGED mem
    <3> HIDE DEF written, nr
    <3>1. CASE InImage(start_sector, nr)
      <4>1. written \in [0 .. nr - 1 -> Content] /\ start_sector \in Nat /\ nr \in Nat
        BY <1>3, <1>5, <3>1
      <4>2. ImageTypeOK' /\ Durable'
        BY <2>1, <4>1, WriteSectorsInImage DEF RingInv
      <4>3. QED
        BY <2>1, <4>2 DEF RingInv, Memory
    <3>2. CASE ~InImage(start_sector, nr)
      <4>1. UNCHANGED imageVars
        BY <2>1, <3>2 DEF WriteSectors
      <4>2. ImageTypeOK' /\ Durable'
        BY <4>1, ImageKept DEF RingInv
      <4>3. QED
        BY <2>1, <4>2 DEF RingInv, Memory
    <3>3. QED
      BY <3>1, <3>2
  <2>2. CASE /\ InImage(start_sector, nr) /\ Inside(start_sector, nr)
             /\ mem' = [mem EXCEPT ![frame] = read] /\ UNCHANGED imageVars
    <3>1. Memory'
      BY <1>4, <1>6, <2>2 DEF RingInv, Memory
    <3>2. QED
      BY <2>2, <3>1, ImageKept DEF RingInv
  <2>3. CASE UNCHANGED <<imageVars, mem>>
    BY <2>3, ImageKept DEF RingInv, Memory
  <2>4. QED
    BY <1>2, <2>1, <2>2, <2>3
<1>8. CASE Answer(rc)
  <2>1. CacheInv' /\ grants' = grants
    BY <1>1, CacheKept DEF RingInv, cacheVars
  <2>2. QED
    BY <1>1, <1>7, <1>8, <2>1, GivenUp DEF Answer
<1>9. CASE Advance
  BY <1>1, <1>7, <1>9, AdvanceStep
<1>10. QED
  BY <1>2, <1>8, <1>9

(* The response goes to the frontend, and the thread rests.                  *)
LEMMA SendResponseStep ==
  ASSUME RingInv, SendResponse
  PROVE  RingInv'
<1>1. /\ pc = "respond" /\ responses' = Append(responses, Response(req)) /\ ThreadRests
      /\ UNCHANGED <<cacheVars, imageVars, ring, outstanding, nextId, up, mem>>
  BY DEF SendResponse
<1>2. req # NoRequest /\ req \in outstanding /\ up /\ req.id = Oldest + Len(responses) /\ status \in Status
  BY <1>1 DEF RingInv, ThreadTypes, Waiting
<1>3. Fields(req)
  BY <1>2 DEF RingInv, Granted
<1>4. Response(req) \in [id : Nat, operation : STRING, status : Status] /\ Response(req).id = req.id
  BY <1>2, <1>3, FieldTypes DEF Response
<1>5. /\ responses' \in Seq([id : Nat, operation : STRING, status : Status])
      /\ Len(responses') = Len(responses) + 1
      /\ \A k \in 1 .. Len(responses) : responses'[k] = responses[k]
      /\ responses'[Len(responses) + 1] = Response(req)
  BY <1>1, <1>4, AppendProperties DEF RingInv, Waiting
<1>6. /\ Len(responses) \in Nat /\ Len(ring) \in Nat /\ nextId \in Nat /\ Cardinality(outstanding) \in Nat
  BY FS_CardinalityType, LenProperties DEF RingInv, Waiting
<1>7. ThreadIdle'
  BY <1>1 DEF ThreadRests, ThreadIdle
<1>8. Busy = 1 /\ Busy' = 0 /\ Oldest' = Oldest /\ Oldest \in Int /\ req' = NoRequest
  BY <1>1, <1>2, <1>6, <1>7 DEF Busy, Oldest, ThreadIdle
<1>9. Waiting'
  <2>1. ASSUME NEW k \in 1 .. Len(responses')
        PROVE  responses'[k].id = Oldest' + k - 1
    <3>1. CASE k = Len(responses) + 1
      BY <1>2, <1>4, <1>5, <1>6, <1>8, <3>1
    <3>2. CASE k # Len(responses) + 1
      <4>1. k \in 1 .. Len(responses) /\ responses'[k] = responses[k]
        BY <1>5, <1>6, <3>2
      <4>2. QED
        BY <1>8, <4>1 DEF RingInv, Waiting
    <3>3. QED
      BY <3>1, <3>2
  <2>2. ASSUME NEW k \in 1 .. Len(ring')
        PROVE  ring'[k] \in outstanding' /\ ring'[k].id = Oldest' + Len(responses') + Busy' + k - 1
    <3>1. k \in 1 .. Len(ring) /\ ring'[k] = ring[k] /\ ring[k] \in outstanding
          /\ ring[k].id = Oldest + Len(responses) + Busy + k - 1
      BY <1>1 DEF RingInv, Waiting
    <3>2. QED
      BY <1>1, <1>5, <1>6, <1>8, <3>1
  <2>3. Len(responses') + Busy' + Len(ring') = Cardinality(outstanding')
    BY <1>1, <1>5, <1>6, <1>8 DEF RingInv, Waiting
  <2>4. QED
    BY <1>1, <1>5, <1>8, <2>1, <2>2, <2>3 DEF RingInv, Waiting
<1>10. CacheInv' /\ Granted' /\ ImageTypeOK' /\ Durable' /\ Memory'
  BY <1>1, CacheKept, GrantedKept, ImageKept DEF RingInv, cacheVars, Memory
<1>11. ThreadTypes' /\ Working' /\ Pinned'
  BY <1>1, <1>2, <1>7, RestingThread
<1>12. QED
  BY <1>9, <1>10, <1>11 DEF RingInv

-----------------------------------------------------------------------------
(* An access that leaves the image or the page changes nothing else.         *)
LEMMA StrayAccessStep ==
  ASSUME RingInv, StrayAccess
  PROVE  RingInv'
<1>1. UNCHANGED <<cacheVars, contents, thread, frontend, up, mem>>
  BY DEF StrayAccess
<1>2. UNCHANGED <<image, medium, expected, disk_ok, mGntLru, mapped, grants, req, outstanding>>
  BY <1>1 DEF contents, cacheVars, thread, frontend
<1>3. stray' \in Seq(Nat)
  <2>1. CASE pc = "copy" /\ stray' = <<start_sector, NrSectors(Segment)>>
    BY <2>1, SegmentSectors
  <2>2. CASE ring # <<>> /\ stray' = <<Head(ring).sector_number, Head(ring).nr_sectors>>
    <3>1. Head(ring) \in RequestType
      BY <2>2, HeadTailProperties DEF RingInv, Waiting
    <3>2. Head(ring).sector_number \in Nat /\ Head(ring).nr_sectors \in Nat
      BY <3>1, ImageSize DEF RequestType
    <3>3. QED
      BY <2>2, <3>2
  <2>3. QED
    BY <2>1, <2>2 DEF StrayAccess
<1>4. ImageTypeOK' /\ Durable'
  BY <1>2, <1>3 DEF RingInv, ImageTypeOK, Durable
<1>5. CacheInv' /\ Granted' /\ Waiting'
  BY <1>1, <1>2, CacheKept, GrantedKept, WaitingKept DEF RingInv
<1>6. ThreadTypes' /\ Working' /\ Pinned'
  BY <1>1, <1>2, ThreadKept DEF RingInv, ThreadTypes
<1>7. QED
  BY <1>1, <1>4, <1>5, <1>6 DEF RingInv, Memory

(* Every step keeps the invariant, and uses the cache only through its       *)
(* operations.                                                               *)
LEMMA RingStep == RingInv /\ [RingNext]_vars => RingInv' /\ [CacheNext]_cacheVars
<1> SUFFICES ASSUME RingInv, [RingNext]_vars PROVE RingInv' /\ [CacheNext]_cacheVars
  OBVIOUS
<1>1. ASSUME NEW w \in Workload, Submit(w) PROVE RingInv' /\ UNCHANGED cacheVars
  BY <1>1, SubmitStep DEF Submit
<1>2. CASE TakeResponse
  BY <1>2, TakeResponseStep DEF TakeResponse
<1>3. CASE FrontendGrants
  BY <1>3, FrontendGrantsStep, Pages DEF FrontendGrants, CacheNext
<1>4. CASE AddIndirectPage \/ AddSegment
  BY <1>4, AddIndirectPageStep, AddSegmentStep DEF CacheNext
<1>5. CASE ProcessRequest
  BY <1>5, ProcessRequestStep DEF ProcessRequest
<1>6. CASE CopySegment
  BY <1>6, CopySegmentStep DEF CopySegment
<1>7. CASE SendResponse
  BY <1>7, SendResponseStep DEF SendResponse
<1>8. CASE DestroyRing \/ Crash
  BY <1>8, RingGoesSteps DEF CacheNext
<1>9. CASE CreateRing \/ Storage \/ UNCHANGED vars
  BY <1>9, RingStaysSteps DEF CreateRing, Storage, vars
<1>10. CASE StrayAccess
  BY <1>10, StrayAccessStep DEF StrayAccess
<1>11. QED
  BY <1>1, <1>2, <1>3, <1>4, <1>5, <1>6, <1>7, <1>8, <1>9, <1>10 DEF RingNext, Thread, Environment

(* The invariant of the ring, from which the properties below follow.        *)
THEOREM RingCorrect == RingSpec => []RingInv
<1>1. QED
  BY RingInitInv, RingStep, PTL DEF RingSpec

(* The ring uses the cache only through its operations, so that all that is  *)
(* proved of the cache holds of the ring's.                                  *)
THEOREM UsesCacheCorrect == RingSpec => UsesCache
<1>1. RingInit => CacheInit
  BY DEF RingInit
<1>2. QED
  BY <1>1, RingCorrect, RingStep, PTL DEF RingSpec, UsesCache, CacheSpec

(* The thread's variables have their types, and are at rest between two      *)
(* requests.                                                                 *)
THEOREM RingTypeCorrect == RingSpec => []RingTypeOK
<1>1. RingInv => RingTypeOK
  BY DEF RingInv, RingTypeOK, ThreadTypes, Memory, Waiting
<1>2. QED
  BY <1>1, RingCorrect, PTL

(* No eviction unmaps the page of the segments the thread is reading, nor    *)
(* the page it is about to copy to or from.                                  *)
THEOREM PinnedCorrect == RingSpec => []IndirectPagePinned
<1>1. RingInv => IndirectPagePinned
  <2> SUFFICES ASSUME RingInv PROVE IndirectPagePinned
    OBVIOUS
  <2>1. ASSUME pc \in {"segment", "copy"}, seg # nullptr
        PROVE  seg \in DOMAIN mapped /\ mapped[seg].gref = req.indirect_grefs[i + 1]
    BY <2>1, AtSegment DEF RingInv, Working
  <2>2. QED
    BY <2>1, AtCopy DEF IndirectPagePinned
<1>2. QED
  BY <1>1, RingCorrect, PTL

(* When the ring is gone, nothing of it stays mapped.                        *)
THEOREM NothingMappedCorrect == RingSpec => []NothingMappedAfterRing
<1>1. RingInv => NothingMappedAfterRing
  <2> SUFFICES ASSUME RingInv, ~up PROVE DOMAIN mapped = {}
    BY DEF NothingMappedAfterRing
  <2>1. Len(mGntLru) = 0
    BY EmptySeq DEF RingInv, ThreadTypes
  <2>2. DOMAIN mapped = {mGntLru[k].addr : k \in 1 .. Len(mGntLru)}
    BY DEF RingInv, CacheInv, Consistent, Mapped, Cache
  <2>3. QED
    BY <2>1, <2>2
<1>2. QED
  BY <1>1, RingCorrect, PTL

(* Whatever requests are served, refused or given up half way, and whenever  *)
(* the disk does not carry out a flush, a crash loses nothing that was       *)
(* written before the last flush that it did carry out.                      *)
THEOREM RingDurableCorrect == RingSpec => []Durable
<1>1. RingInv => Durable
  BY DEF RingInv
<1>2. QED
  BY <1>1, RingCorrect, PTL

-----------------------------------------------------------------------------
(* A segment that validSegment would accept is in its page.                  *)
LEMMA ValidIsInPage ==
  ASSUME NEW s \in SegmentType, ValidSegment(s)
  PROVE  InPage(s)
<1> DEFINE m == s.last_sect - s.first_sect + 1
<1>1. /\ s.first_sect \in Nat /\ s.last_sect \in Nat /\ m \in Nat
      /\ s.first_sect + m = s.last_sect + 1 /\ s.last_sect < SECTORS_PER_PAGE
      /\ SECTORS_PER_PAGE \in Nat /\ UINT32 \in Nat \ {0}
  BY RingSizes DEF SegmentType, ValidSegment
<1> HIDE DEF m
<1>2. m % UINT32 \in Nat /\ m % UINT32 <= m
  <2>1. CASE m < UINT32
    BY <1>1, <2>1
  <2>2. CASE ~(m < UINT32)
    BY <1>1, <2>2
  <2>3. QED
    BY <2>1, <2>2
<1>3. s.first_sect + (m % UINT32) <= SECTORS_PER_PAGE
  BY <1>1, <1>2
<1>4. NrSectors(s) = m % UINT32
  BY DEF NrSectors, m
<1>5. s.first_sect + NrSectors(s) <= SECTORS_PER_PAGE
  BY <1>1, <1>3, <1>4
<1>6. QED
  <2> HIDE DEF NrSectors
  <2>1. QED
    BY <1>5 DEF InPage

(* No other step strays.                                                     *)
LEMMA OnlyAccessStrays ==
  ASSUME [RingNext]_vars, ~StrayAccess
  PROVE  stray' = stray
<1>1. ASSUME UNCHANGED imageVars PROVE stray' = stray
  BY <1>1 DEF imageVars
<1>2. CASE ProcessRequest
  <2>1. CASE HandleFlush(req')
    BY <2>1 DEF HandleFlush, FlushBackingFile
  <2>2. CASE HandleDiscard(req')
    BY <1>1, <2>2 DEF HandleDiscard, Discard, Store
  <2>3. CASE HandleReadWrite(req') \/ HandleIndirect(req') \/ HandleOther(req')
    BY <1>1, <2>3 DEF HandleReadWrite, HandleIndirect, HandleOther
  <2>4. QED
    BY <1>2, <2>1, <2>2, <2>3 DEF ProcessRequest
<1>3. CASE AddIndirectPage \/ AddSegment \/ SendResponse
  BY <1>1, <1>3 DEF AddIndirectPage, AddSegment, SendResponse
<1>4. CASE CopySegment
  BY <1>1, <1>4 DEF CopySegment, WriteSectors, Store
<1>5. CASE (\E w \in Workload : Submit(w)) \/ FrontendGrants \/ TakeResponse \/ DestroyRing \/ CreateRing
  BY <1>1, <1>5 DEF Submit, FrontendGrants, TakeResponse, DestroyRing, CreateRing
<1>6. CASE Storage \/ Crash
  BY <1>6 DEF Storage, Writeback, DiskTurns, Crash, HostCrash
<1>7. CASE UNCHANGED vars
  BY <1>1, <1>7 DEF vars
<1>8. QED
  BY <1>2, <1>3, <1>4, <1>5, <1>6, <1>7 DEF RingNext, Thread, Environment

(* Whatever the frontend puts into requests and into its pages of segments,  *)
(* the thread leaves the image or a page only at the end of the word or for  *)
(* a segment that validSegment would refuse.                                 *)
LEMMA StrayStep ==
  RingInv /\ StraysOnlyUnvalidated /\ [RingNext]_vars => StraysOnlyUnvalidated'
<1> SUFFICES ASSUME RingInv, StraysOnlyUnvalidated, [RingNext]_vars PROVE StraysOnlyUnvalidated'
  OBVIOUS
<1>1. CASE stray # <<>>
  <2>1. TakeResponse \/ UNCHANGED vars
    BY <1>1 DEF RingNext, Thread, Environment
  <2>2. UNCHANGED <<stray, pc, req, seg, n, mapped>>
    BY <2>1 DEF TakeResponse, vars, imageVars, thread, cacheVars
  <2>3. QED
    BY <2>2 DEF StraysOnlyUnvalidated, Segment, ValidSegment
<1>2. CASE stray = <<>> /\ ~StrayAccess
  BY <1>2, OnlyAccessStrays DEF StraysOnlyUnvalidated
<1>3. CASE pc = "copy" /\ StrayAccess
  <2>1. /\ stray' = <<start_sector, NrSectors(Segment)>>
        /\ InImage(start_sector, NrSectors(Segment))
        /\ ~Inside(start_sector, NrSectors(Segment)) \/ ~InPage(Segment)
        /\ UNCHANGED <<pc, req, seg, n, mapped>>
    BY <1>3 DEF StrayAccess, thread, cacheVars
  <2>2. Segment' = Segment /\ Segment \in SegmentType
    BY <1>3, <2>1, AtSegment DEF Segment
  <2>3. start_sector \in Nat /\ NrSectors(Segment) \in Nat
    BY <1>3, SegmentSectors
  <2>4. CASE ~Inside(start_sector, NrSectors(Segment))
    <3>1. start_sector + NrSectors(Segment) >= WORD
      BY <2>1, <2>3, <2>4, InImageIsInside, ImageSize
    <3>2. QED
      BY <2>1, <2>3, <3>1 DEF StraysOnlyUnvalidated
  <2>5. CASE ~InPage(Segment)
    <3>1. ~ValidSegment(Segment)
      BY <2>2, <2>5, ValidIsInPage
    <3>2. QED
      BY <1>3, <2>1, <2>2, <3>1 DEF StraysOnlyUnvalidated, ValidSegment
  <2>6. QED
    BY <2>1, <2>4, <2>5
<1>4. CASE pc # "copy" /\ StrayAccess
  <2>1. /\ ring # <<>>
        /\ DiscardInImage(Head(ring).sector_number, Head(ring).nr_sectors)
        /\ ~Inside(Head(ring).sector_number, Head(ring).nr_sectors)
        /\ stray' = <<Head(ring).sector_number, Head(ring).nr_sectors>>
    BY <1>4 DEF StrayAccess
  <2>2. Head(ring) \in RequestType
    BY <2>1, HeadTailProperties DEF RingInv, Waiting
  <2>3. Head(ring).sector_number \in Nat /\ Head(ring).nr_sectors \in Nat
    BY <2>2, ImageSize DEF RequestType
  <2>4. Head(ring).sector_number + Head(ring).nr_sectors >= WORD
    BY <2>1, <2>3, DiscardedIsInside, ImageSize
  <2>5. QED
    BY <2>1, <2>3, <2>4 DEF StraysOnlyUnvalidated
<1>5. QED
  BY <1>1, <1>2, <1>3, <1>4

(* For every workload, requests and segments of any content included: what   *)
(* validSegment accepts and does not reach the end of the word stays in the  *)
(* image and in its page.                                                    *)
THEOREM StraysUnvalidatedCorrect == RingSpec => []StraysOnlyUnvalidated
<1>1. RingInit => StraysOnlyUnvalidated
  BY DEF RingInit, ImageInit, StraysOnlyUnvalidated
<1>2. QED
  BY <1>1, RingInitInv, RingStep, StrayStep, PTL DEF RingSpec

(* A run of m consecutive numbers from a on, and two of them one behind the  *)
(* other.                                                                    *)
IsRun(s, a, m) == s \in Seq(Int) /\ Len(s) = m /\ \A k \in 1 .. m : s[k] = a + k - 1

LEMMA RunOfFunction ==
  ASSUME NEW m \in Nat, NEW a \in Int, NEW f, DOMAIN f = 1 .. m, f = [k \in DOMAIN f |-> f[k]],
         \A k \in 1 .. m : f[k] = a + k - 1
  PROVE  IsRun(f, a, m)
<1>1. f \in [1 .. m -> Int]
  OBVIOUS
<1>2. f \in Seq(Int)
  BY <1>1, SeqDef
<1>3. Len(f) \in Nat /\ 1 .. Len(f) = 1 .. m
  BY <1>1, <1>2, LenProperties
<1>4. Len(f) = m
  BY <1>3
<1>5. QED
  BY <1>2, <1>4 DEF IsRun

LEMMA ConcatRuns ==
  ASSUME NEW s, NEW t, NEW a \in Int, NEW b \in Int, NEW l \in Nat, NEW m \in Nat,
         IsRun(s, a, l), IsRun(t, b, m), b = a + l
  PROVE  IsRun(s \o t, a, l + m)
<1>1. s \in Seq(Int) /\ Len(s) = l /\ t \in Seq(Int) /\ Len(t) = m
  BY DEF IsRun
<1>2. s \o t \in Seq(Int) /\ Len(s \o t) = l + m
  BY <1>1, ConcatProperties
<1>3. ASSUME NEW k \in 1 .. l + m
      PROVE  (s \o t)[k] = a + k - 1
  <2>1. (s \o t)[k] = IF k <= l THEN s[k] ELSE t[k - l]
    BY <1>1, ConcatProperties
  <2>2. CASE k <= l
    <3>1. k \in 1 .. l /\ (s \o t)[k] = s[k]
      BY <2>1, <2>2
    <3>2. QED
      BY <3>1 DEF IsRun
  <2>3. CASE ~(k <= l)
    <3>1. k - l \in 1 .. m /\ b + (k - l) - 1 = a + k - 1
      BY <2>3
    <3>2. (s \o t)[k] = t[k - l]
      BY <2>1, <2>3
    <3>3. QED
      BY <3>1, <3>2 DEF IsRun
  <2>4. QED
    BY <2>2, <2>3
<1>4. QED
  BY <1>2, <1>3 DEF IsRun

(* Every request is on the ring, in work, or answered, once and in order.    *)
THEOREM OnceInOrderCorrect == RingSpec => []OnceInOrder
<1>1. RingInv => OnceInOrder
  <2> SUFFICES ASSUME RingInv PROVE OnceInOrder
    OBVIOUS
  <2> DEFINE one == [k \in DOMAIN responses |-> Id(responses[k])]
             two == IF req = NoRequest THEN <<>> ELSE <<Id(req)>>
             three == [k \in DOMAIN ring |-> Id(ring[k])]
             all == [k \in 1 .. Cardinality(outstanding) |-> nextId - Cardinality(outstanding) + k - 1]
  <2>1. /\ nextId \in Nat /\ Cardinality(outstanding) \in Nat /\ Oldest = nextId - Cardinality(outstanding)
        /\ Len(responses) \in Nat /\ Len(ring) \in Nat /\ Busy \in {0, 1}
        /\ DOMAIN responses = 1 .. Len(responses) /\ DOMAIN ring = 1 .. Len(ring)
        /\ Len(responses) + Busy + Len(ring) = Cardinality(outstanding)
    BY FS_CardinalityType, LenProperties DEF RingInv, Waiting, Oldest, Busy
  <2>2. Oldest \in Int /\ Oldest + Len(responses) \in Int /\ Oldest + Len(responses) + Busy \in Int
        /\ Len(responses) + Busy \in Nat
    BY SMTT(30), <2>1
  <2>3. IsRun(one, Oldest, Len(responses))
    <3>1. \A k \in 1 .. Len(responses) : one[k] = Oldest + k - 1
      BY <2>1 DEF RingInv, Waiting, Id
    <3>2. QED
      BY <2>1, <2>2, <3>1, RunOfFunction
  <2>4. IsRun(two, Oldest + Len(responses), Busy)
    <3>1. CASE req = NoRequest
      <4>1. two = <<>> /\ Busy = 0
        BY <3>1 DEF Busy
      <4>2. QED
        BY <4>1, EmptySeq DEF IsRun
    <3>2. CASE req # NoRequest
      <4>1. two = <<Id(req)>> /\ Busy = 1 /\ Id(req) = Oldest + Len(responses)
        BY <3>2 DEF Busy, Id, RingInv, Waiting
      <4>2. Id(req) \in Int /\ Oldest + Len(responses) + 1 - 1 = Id(req)
        BY <2>1, <4>1
      <4>3. QED
        BY <4>1, <4>2 DEF IsRun
    <3>3. QED
      BY <3>1, <3>2
  <2>5. IsRun(three, Oldest + Len(responses) + Busy, Len(ring))
    <3>1. \A k \in 1 .. Len(ring) : three[k] = Oldest + Len(responses) + Busy + k - 1
      BY <2>1 DEF RingInv, Waiting, Id
    <3>2. QED
      BY <2>1, <2>2, <3>1, RunOfFunction
  <2> HIDE DEF one, two, three
  <2>6. IsRun(one \o two \o three, Oldest, Cardinality(outstanding))
    <3>1. IsRun(one \o two, Oldest, Len(responses) + Busy)
      BY <2>1, <2>2, <2>3, <2>4, ConcatRuns
    <3>2. Oldest + Len(responses) + Busy = Oldest + (Len(responses) + Busy)
      BY <2>1
    <3>3. IsRun(one \o two \o three, Oldest, (Len(responses) + Busy) + Len(ring))
      BY <2>1, <2>2, <2>5, <3>1, <3>2, ConcatRuns
    <3>4. QED
      BY <2>1, <3>3
  <2>7. one \o two \o three = all
    <3>1. IsRun(all, Oldest, Cardinality(outstanding))
      <4>1. ASSUME NEW k \in 1 .. Cardinality(outstanding)
            PROVE  all[k] = Oldest + k - 1
        <5>1. all[k] = nextId - Cardinality(outstanding) + k - 1
          OBVIOUS
        <5>2. QED
          BY <2>1, <5>1
      <4>2. QED
        BY <2>1, <2>2, <4>1, RunOfFunction
    <3>2. QED
      BY <2>6, <3>1, SeqEqual DEF IsRun
  <2>8. {Id(r) : r \in outstanding} = Range(one \o two \o three)
    <3>1. {Id(r) : r \in outstanding} = Oldest .. nextId - 1
      BY DEF Id, RingInv, Waiting
    <3>2. Range(all) = Oldest .. nextId - 1
      <4>1. ASSUME NEW x \in Oldest .. nextId - 1
            PROVE  \E k \in DOMAIN all : all[k] = x
        <5>0. /\ nextId \in Nat /\ Cardinality(outstanding) \in Nat /\ Oldest = nextId - Cardinality(outstanding)
              /\ Oldest \in Int /\ x \in Int /\ Oldest <= x /\ x <= nextId - 1
          BY <2>1, <2>2, <4>1
        <5>1. x - Oldest + 1 \in 1 .. Cardinality(outstanding) /\ Oldest + (x - Oldest + 1) - 1 = x
          BY <5>0
        <5>2. all[x - Oldest + 1] = Oldest + (x - Oldest + 1) - 1
          BY <2>1, <5>1
        <5>3. QED
          BY <5>1, <5>2
      <4>2. \A k \in DOMAIN all : all[k] \in Oldest .. nextId - 1
        BY <2>1
      <4>3. QED
        BY <4>1, <4>2 DEF Range
    <3>3. QED
      BY <2>7, <3>1, <3>2, Zenon
  <2>9. QED
    BY <2>7, <2>8 DEF OnceInOrder, one, two, three
<1>2. QED
  BY <1>1, RingCorrect, PTL
=============================================================================
