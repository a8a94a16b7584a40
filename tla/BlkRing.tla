-------------------------------- MODULE BlkRing --------------------------------
(***************************************************************************)
(* One BlkCmdRingBuffer at work (BlkBackend.cpp): the frontend puts block   *)
(* requests on the ring, the ring's event thread takes them one by one,     *)
(* maps the pages they name through the grant cache, copies between those   *)
(* pages and the disk image, and answers.                                   *)
(*                                                                          *)
(* The thread's steps are the points where another actor can be seen to act *)
(* in between: the frontend, the operating system's writeback, a crash.     *)
(* The ring itself and its thread belong to libxenbe (RingBufferInBase).    *)
(***************************************************************************)
EXTENDS GrantCache, DiskImage

CONSTANTS
  Workload,    \* the requests a frontend makes, whose ids it fills in
  Table,       \* indirect page -> the segments the frontend wrote there
  InitialImage,
  InitialMemory,
  InitialGrants,
  Regrants,    \* bound: grant reference -> the pages the frontend may grant anew under it
  NoRequest,
  SECTORS_PER_PAGE,                \* 8 in the code
  BLKIF_MAX_SEGMENTS_PER_REQUEST,  \* 11 in the code
  SEGMENTS_PER_INDIRECT_PAGE,      \* 512 in the code
  MAX_INDIRECT_SEGMENTS,           \* 256 in the code
  RING_SIZE,                       \* 32 in the code
  UINT32,                          \* 2^32: nr_sectors of a segment is of type uint32_t
  MaxRequests                      \* bound: requests in a behaviour

VARIABLES
  up,            \* whether the ring exists
  ring,          \* requests the thread has not taken
  req,           \* the request it works on, or NoRequest
  pc,            \* where it is
  seg,           \* handleIndirect's seg, or nullptr for segments in the request
  i,             \* the indirect page it is at
  segments_done, \* the segments on the indirect pages before it
  n,             \* the segment it is at
  start_sector,
  buffer,        \* processSegment's buffer
  status,        \* rsp.status
  responses,     \* responses the frontend has not taken
  mem,           \* frame -> sector of the page -> contents
  outstanding,   \* the requests the frontend waits for
  nextId

thread == <<req, pc, seg, i, segments_done, n, start_sector, buffer, status>>
frontend == <<ring, responses, outstanding, nextId>>
vars == <<cacheVars, imageVars, thread, frontend, up, mem>>

minimum(left, right) == IF left < right THEN left ELSE right
div_round_up(num, d) == (num + d - 1) \div d

IsIndirect(r) == r.operation = "INDIRECT"
NrIndirectGrefs(r) == div_round_up(r.nr_segments, SEGMENTS_PER_INDIRECT_PAGE)

SegmentType == [gref : Gref, first_sect : Nat, last_sect : Nat]
RequestType ==
  [id : Nat, operation : STRING, indirect_op : STRING, sector_number : 0 .. WORD - 1,
   nr_segments : Nat, seg : Seq(SegmentType), indirect_grefs : Seq(Gref),
   nr_sectors : 0 .. WORD - 1]

(* A request has the references its number of segments calls for.            *)
ASSUME Requests ==
  /\ Workload \subseteq RequestType
  /\ \A w \in Workload :
       /\ Len(w.seg) = IF IsIndirect(w) THEN 0 ELSE w.nr_segments
       /\ IsIndirect(w) => Len(w.indirect_grefs) = NrIndirectGrefs(w)
  /\ NoRequest \notin RequestType

ASSUME Pages ==
  /\ DOMAIN Table \subseteq Frame
  /\ \A t \in DOMAIN Table : Table[t] \in [1 .. SEGMENTS_PER_INDIRECT_PAGE -> SegmentType]
  /\ Regrants \in [Gref -> SUBSET Frame]
  /\ InitialGrants \in [Gref -> Frame \cup {NoFrame}]
  /\ InitialMemory \in [Frame -> [0 .. SECTORS_PER_PAGE - 1 -> Content]]
  /\ InitialImage \in [Sector -> Content]

(* 256 segments are fewer than the 972 pages that an eviction keeps, so a    *)
(* page of segments outlives the work on them; the code does not assert it.  *)
ASSUME RingSizes ==
  /\ {SECTORS_PER_PAGE, SEGMENTS_PER_INDIRECT_PAGE} \subseteq Nat \ {0}
  /\ {BLKIF_MAX_SEGMENTS_PER_REQUEST, MAX_INDIRECT_SEGMENTS, RING_SIZE, MaxRequests} \subseteq Nat
  /\ minimum(SEGMENTS_PER_INDIRECT_PAGE, MAX_INDIRECT_SEGMENTS) <= KeepSize
  /\ UINT32 \in Nat \ {0}

ThreadIdle ==
  /\ req = NoRequest /\ pc = "idle" /\ seg = nullptr /\ buffer = nullptr
  /\ i = 0 /\ segments_done = 0 /\ n = 0 /\ start_sector = 0 /\ status = "OKAY"

(* Mutant: the status of a response is kept for the next one. *)
ThreadRestsDirty ==
  /\ req' = NoRequest /\ pc' = "idle" /\ seg' = nullptr /\ buffer' = nullptr
  /\ i' = 0 /\ segments_done' = 0 /\ n' = 0 /\ start_sector' = 0 /\ UNCHANGED status

(* The thread's local variables end with the call. *)
ThreadRests ==
  /\ req' = NoRequest /\ pc' = "idle" /\ seg' = nullptr /\ buffer' = nullptr
  /\ i' = 0 /\ segments_done' = 0 /\ n' = 0 /\ start_sector' = 0 /\ status' = "OKAY"

RingInit ==
  /\ CacheInit /\ grants = InitialGrants
  /\ ImageInit /\ image = InitialImage
  /\ ThreadIdle
  /\ up = TRUE
  /\ ring = <<>> /\ responses = <<>> /\ outstanding = {} /\ nextId = 1
  /\ mem = InitialMemory

-----------------------------------------------------------------------------
(* The frontend.  It grants the pages of a request before it makes it, and   *)
(* leaves the grants in place until it has the response.                     *)
TableGrefs(r) ==
  IF IsIndirect(r) THEN {r.indirect_grefs[k] : k \in 1 .. NrIndirectGrefs(r)} ELSE {}

(* The segments of a request, through the grants the frontend made. *)
Segments(r) ==
  IF IsIndirect(r)
  THEN [k \in 1 .. r.nr_segments |->
          Table[grants[r.indirect_grefs[((k - 1) \div SEGMENTS_PER_INDIRECT_PAGE) + 1]]]
               [((k - 1) % SEGMENTS_PER_INDIRECT_PAGE) + 1]]
  ELSE r.seg

Grefs(r) == TableGrefs(r) \cup {Segments(r)[k].gref : k \in DOMAIN Segments(r)}

WellFormed(r) ==
  /\ \A g \in TableGrefs(r) : grants[g] \in DOMAIN Table
  /\ \A k \in DOMAIN Segments(r) : grants[Segments(r)[k].gref] \notin DOMAIN Table \cup {NoFrame}

Submit(w) ==
  /\ up
  /\ nextId <= MaxRequests
  /\ Cardinality(outstanding) < RING_SIZE
  /\ WellFormed(w)
  /\ LET r == [w EXCEPT !.id = nextId]
     IN  /\ ring' = Append(ring, r)
         /\ outstanding' = outstanding \cup {r}
  /\ nextId' = nextId + 1
  /\ UNCHANGED <<cacheVars, imageVars, thread, responses, up, mem>>

TakeResponse ==
  /\ responses # <<>>
  /\ responses' = Tail(responses)
  /\ outstanding' = {r \in outstanding : r.id # Head(responses).id}
  /\ UNCHANGED <<cacheVars, imageVars, thread, ring, nextId, up, mem>>

FrontendGrants ==
  /\ \/ \E g \in Gref : \E f \in Regrants[g] : GrantAccess(g, f)
     \/ \E g \in Gref : /\ Regrants[g] # {}
                        /\ \A r \in outstanding : g \notin Grefs(r)
                        /\ EndAccess(g)
  /\ UNCHANGED <<imageVars, thread, frontend, up, mem>>

-----------------------------------------------------------------------------
(* The ring's thread.  processRequest decides what to do with a request, and *)
(* does at once what takes no loop.                                          *)
Answer(rc) ==
  /\ pc' = "respond" /\ status' = rc
  /\ UNCHANGED <<seg, i, segments_done, n, start_sector, buffer>>

HandleReadWrite(r) ==
  /\ r.operation \in {"READ", "WRITE"}
  /\ \/ /\ r.nr_segments = 0 \/ r.nr_segments > BLKIF_MAX_SEGMENTS_PER_REQUEST
        /\ Answer("ERROR")
     \/ /\ r.nr_segments \in 1 .. BLKIF_MAX_SEGMENTS_PER_REQUEST
        /\ pc' = "segment" /\ start_sector' = r.sector_number
        /\ UNCHANGED <<seg, i, segments_done, n, buffer, status>>
  /\ UNCHANGED imageVars

HandleIndirect(r) ==
  /\ r.operation = "INDIRECT"
  /\ \/ /\ \/ r.indirect_op \notin {"READ", "WRITE"}
           \/ r.nr_segments = 0
           \/ r.nr_segments > MAX_INDIRECT_SEGMENTS
        /\ Answer("ERROR")
     \/ /\ r.indirect_op \in {"READ", "WRITE"}
        /\ r.nr_segments \in 1 .. MAX_INDIRECT_SEGMENTS
        /\ pc' = "page" /\ start_sector' = r.sector_number
        /\ UNCHANGED <<seg, i, segments_done, n, buffer, status>>
  /\ UNCHANGED imageVars

(* Mutant: the request is answered, and nothing is flushed. *)
HandleFlushNothing(r) ==
  /\ r.operation \in {"WRITE_BARRIER", "FLUSH_DISKCACHE"}
  /\ UNCHANGED <<image, medium, disk_ok, stray>>
  /\ Answer("OKAY")

HandleFlush(r) ==
  /\ r.operation \in {"WRITE_BARRIER", "FLUSH_DISKCACHE"}
  /\ FlushBackingFile
  /\ Answer("OKAY")

HandleDiscard(r) ==
  /\ r.operation = "DISCARD"
  /\ \E rc \in Status : Discard(r.sector_number, r.nr_sectors, rc) /\ Answer(rc)

(* Mutant: an operation that is not supported is dropped. *)
DropOther(r) ==
  /\ r.operation \notin {"READ", "WRITE", "INDIRECT", "WRITE_BARRIER", "FLUSH_DISKCACHE", "DISCARD"}
  /\ pc' = "idle"
  /\ UNCHANGED <<seg, i, segments_done, n, start_sector, buffer, status, imageVars>>

HandleOther(r) ==
  /\ r.operation \notin {"READ", "WRITE", "INDIRECT", "WRITE_BARRIER", "FLUSH_DISKCACHE", "DISCARD"}
  /\ Answer("EOPNOTSUPP")
  /\ UNCHANGED imageVars

ProcessRequest ==
  /\ up
  /\ pc = "idle" /\ ring # <<>>
  /\ ring' = Tail(ring)
  /\ req' = Head(ring)
  /\ \/ HandleReadWrite(req') \/ HandleIndirect(req') \/ HandleDiscard(req')
     \/ HandleFlush(req') /\ Settle
     \/ HandleOther(req')
  /\ UNCHANGED <<cacheVars, responses, outstanding, nextId, up, mem>>

(* The segments the inner loop has to do, and the one it is at, read through *)
(* seg: that page must still be mapped.                                      *)
NrSegs ==
  IF IsIndirect(req) THEN minimum(req.nr_segments - segments_done, SEGMENTS_PER_INDIRECT_PAGE)
  ELSE req.nr_segments

Segment ==
  IF seg = nullptr THEN req.seg[n + 1] ELSE Table[mapped[seg].frame][n + 1]

NrSectors(s) == (s.last_sect - s.first_sect + 1) % UINT32

(* What validSegment asks of a segment.  Nothing calls it. *)
ValidSegment(s) == s.first_sect \in 0 .. s.last_sect /\ s.last_sect < SECTORS_PER_PAGE

(* Whether the page has the sectors of the segment. *)
InPage(s) == NrSectors(s) = 0 \/ s.first_sect + NrSectors(s) <= SECTORS_PER_PAGE

IsWrite == (IF IsIndirect(req) THEN req.indirect_op ELSE req.operation) = "WRITE"

(* handleIndirect maps the next page of segments. *)
AddIndirectPage ==
  /\ pc = "page"
  /\ \E virt \in Addr \cup {nullptr} :
       /\ AddGrant(req.indirect_grefs[i + 1], virt)
       /\ \/ virt = nullptr /\ Answer("ERROR")
          \/ /\ virt # nullptr
             /\ seg' = virt /\ n' = 0 /\ pc' = "segment"
             /\ UNCHANGED <<i, segments_done, start_sector, buffer, status>>
  /\ UNCHANGED <<imageVars, frontend, req, up, mem>>

(* processSegment maps the page of the segment ... *)
AddSegment ==
  /\ pc = "segment"
  /\ \E virt \in Addr \cup {nullptr} :
       /\ AddGrant(Segment.gref, virt)
       /\ \/ virt = nullptr /\ Answer("ERROR")
          \/ /\ virt # nullptr
             /\ buffer' = virt /\ pc' = "copy"
             /\ UNCHANGED <<seg, i, segments_done, n, start_sector, status>>
  /\ UNCHANGED <<imageVars, frontend, req, up, mem>>

(* Mutant: a segment counts as one sector. *)
NextSectorByOne == start_sector + 1

NextSector == start_sector + NrSectors(Segment)

(* After a segment: the next one, the next indirect page, or the response. *)
Advance ==
  /\ start_sector' = NextSector
  /\ buffer' = nullptr
  /\ status' = "OKAY"
  /\ \/ /\ n + 1 < NrSegs
        /\ n' = n + 1 /\ pc' = "segment"
        /\ UNCHANGED <<seg, i, segments_done>>
     \/ /\ n + 1 = NrSegs
        /\ n' = 0 /\ seg' = nullptr
        /\ segments_done' = segments_done + NrSegs
        /\ i' = i + 1
        /\ pc' = IF IsIndirect(req) /\ i' < NrIndirectGrefs(req) THEN "page" ELSE "respond"

(* ... and copies between that page and the image. *)
CopySegment ==
  /\ pc = "copy"
  /\ InImage(start_sector, NrSectors(Segment)) => InPage(Segment)
  /\ LET s == Segment
         frame == mapped[buffer].frame
         page == mem[frame]
         nr == NrSectors(s)
     IN  \E rc \in Status :
           /\ \/ /\ IsWrite
                 /\ WriteSectors(start_sector, [o \in 0 .. nr - 1 |-> page[s.first_sect + o]], nr, rc)
                 /\ UNCHANGED mem
              \/ /\ ~IsWrite /\ InImage(start_sector, nr) /\ Inside(start_sector, nr)
                 /\ rc = "OKAY"
                 /\ mem' = [mem EXCEPT ![frame] = [o \in DOMAIN page |->
                      IF o \in s.first_sect .. s.first_sect + nr - 1
                      THEN ReadBuffer(start_sector, nr)[o - s.first_sect] ELSE page[o]]]
                 /\ UNCHANGED imageVars
              \/ /\ ~IsWrite /\ ~InImage(start_sector, nr)
                 /\ rc = "ERROR"
                 /\ UNCHANGED <<imageVars, mem>>
           /\ \/ rc # "OKAY" /\ Answer(rc)
              \/ rc = "OKAY" /\ Advance
  /\ UNCHANGED <<cacheVars, frontend, req, up>>

(* Nothing compares a segment with its page, and the tests of the image let  *)
(* pass sectors it does not have: the thread's next access leaves the page,  *)
(* or the image.  What it would read or overwrite is not modelled.           *)
StrayAccess ==
  /\ \/ /\ pc = "copy"
        /\ InImage(start_sector, NrSectors(Segment))
        /\ ~Inside(start_sector, NrSectors(Segment)) \/ ~InPage(Segment)
        /\ stray' = <<start_sector, NrSectors(Segment)>>
     \/ /\ up /\ pc = "idle" /\ ring # <<>>
        /\ Head(ring).operation = "DISCARD"
        /\ DiscardInImage(Head(ring).sector_number, Head(ring).nr_sectors)
        /\ ~Inside(Head(ring).sector_number, Head(ring).nr_sectors)
        /\ stray' = <<Head(ring).sector_number, Head(ring).nr_sectors>>
  /\ UNCHANGED <<cacheVars, contents, thread, frontend, up, mem>>

Response(r) ==
  [id        |-> r.id,
   operation |-> IF IsIndirect(r) THEN r.indirect_op ELSE r.operation,
   status    |-> status]

SendResponse ==
  /\ pc = "respond"
  /\ responses' = Append(responses, Response(req))
  /\ ThreadRests
  /\ UNCHANGED <<cacheVars, imageVars, ring, outstanding, nextId, up, mem>>

-----------------------------------------------------------------------------
(* Mutant: the ring goes without the destructor of the cache. *)
DestroyRingOnly ==
  /\ up /\ pc = "idle"
  /\ Becomes([lru |-> <<>>, map |-> [g \in {} |-> nullptr], mapped |-> mapped])
  /\ up' = FALSE
  /\ ring' = <<>> /\ responses' = <<>> /\ outstanding' = {}
  /\ UNCHANGED <<grants, imageVars, thread, nextId, mem>>

(* The ring goes: the library has stopped its thread, ~BlkCmdRingBuffer      *)
(* unmaps the pages, and the frontend forgets its requests.                  *)
DestroyRing ==
  /\ up /\ pc = "idle"
  /\ FreeGrants
  /\ up' = FALSE
  /\ ring' = <<>> /\ responses' = <<>> /\ outstanding' = {}
  /\ UNCHANGED <<imageVars, thread, nextId, mem>>

CreateRing ==
  /\ ~up
  /\ up' = TRUE
  /\ UNCHANGED <<cacheVars, imageVars, thread, frontend, mem>>

(* The host crashes with every domain on it. *)
Crash ==
  /\ HostCrash
  /\ up' = FALSE
  /\ ring' = <<>> /\ responses' = <<>> /\ outstanding' = {} /\ UNCHANGED nextId
  /\ ThreadRests
  /\ Becomes([lru |-> <<>>, map |-> [g \in {} |-> nullptr], mapped |-> [a \in {} |-> nullptr]])
  /\ UNCHANGED <<grants, mem>>

Thread ==
  /\ stray = <<>>
  /\ \/ ProcessRequest \/ AddIndirectPage \/ AddSegment \/ CopySegment \/ SendResponse
     \/ StrayAccess

(* The disk and the operating system. *)
Storage ==
  /\ (\E s \in Sector : Writeback(s)) \/ DiskTurns
  /\ UNCHANGED <<cacheVars, thread, frontend, up, mem>>

Environment ==
  /\ stray = <<>>
  /\ \/ \E w \in Workload : Submit(w)
     \/ FrontendGrants
     \/ Storage
     \/ DestroyRing
     \/ CreateRing
     \/ Crash

RingNext ==
  \/ Thread
  \/ Environment
  \/ TakeResponse
  \/ stray # <<>> /\ UNCHANGED vars

RingSpec == RingInit /\ [][RingNext]_vars

(* The ring's thread runs, and a frontend reads its responses. *)
FairRingSpec == RingSpec /\ WF_vars(Thread) /\ WF_vars(TakeResponse)

-----------------------------------------------------------------------------
(* The variables keep their types, and the thread's local variables are at   *)
(* rest between two requests.                                                *)
RingTypeOK ==
  /\ pc \in {"idle", "page", "segment", "copy", "respond"}
  /\ (pc = "idle") = (req = NoRequest)
  /\ pc = "idle" => ThreadIdle
  /\ seg \in Addr \cup {nullptr} /\ buffer \in Addr \cup {nullptr}
  /\ status \in Status
  /\ mem \in [Frame -> [0 .. SECTORS_PER_PAGE - 1 -> Content]]
  /\ Cardinality(outstanding) <= RING_SIZE

(* handleIndirect reads its segments through the address addGrant returned   *)
(* for the indirect page, while it adds a grant for each segment.  None of   *)
(* the evictions that may cause unmaps that page, nor the page a segment is  *)
(* about to be copied to or from: the addresses in use reach the page of the *)
(* reference they were obtained for.                                         *)
IndirectPagePinned ==
  /\ pc \in {"segment", "copy"} /\ seg # nullptr =>
       /\ seg \in DOMAIN mapped
       /\ mapped[seg].gref = req.indirect_grefs[i + 1]
  /\ pc = "copy" =>
       /\ buffer \in DOMAIN mapped
       /\ mapped[buffer].gref = Segment.gref

(* No request is lost and none is answered twice: the responses not yet      *)
(* taken, the request the thread works on and the requests on the ring are   *)
(* those the frontend waits for, each once and in the order it made them.    *)
Id(r) == r.id
OnceInOrder ==
  LET ids == [k \in DOMAIN responses |-> Id(responses[k])]
             \o (IF req = NoRequest THEN <<>> ELSE <<Id(req)>>)
             \o [k \in DOMAIN ring |-> Id(ring[k])]
  IN  /\ ids = [k \in 1 .. Cardinality(outstanding) |-> nextId - Cardinality(outstanding) + k - 1]
      /\ {Id(r) : r \in outstanding} = Range(ids)

(* When the ring is gone the backend holds no mapping of it: the frontend    *)
(* can take back every page it granted.                                      *)
NothingMappedAfterRing == ~up => DOMAIN mapped = {}

(* Every request a frontend waits for is answered, or its ring goes away; a  *)
(* thread that has left the image or a page is not followed.                 *)
EveryRequestAnswered ==
  \A k \in 1 .. MaxRequests :
    (\E r \in outstanding : Id(r) = k) ~> (stray # <<>> \/ \A r \in outstanding : Id(r) # k)

(* The thread leaves the image or a page only for a request whose sectors    *)
(* reach the end of the word, or a segment that validSegment would refuse:   *)
(* for every other request the tests the code does make are enough, whatever *)
(* came before it.                                                           *)
StraysOnlyUnvalidated ==
  stray # <<>> =>
    \/ stray[1] + stray[2] >= WORD
    \/ pc = "copy" /\ ~ValidSegment(Segment)

-----------------------------------------------------------------------------
(* The ring implements a block device whose requests name the pages that     *)
(* were granted when they were made.                                         *)
Operation(r) == IF IsIndirect(r) THEN r.indirect_op ELSE r.operation

Kind(r) ==
  IF Operation(r) = "READ" THEN "read"
  ELSE IF Operation(r) = "WRITE" THEN "write"
  ELSE IF r.operation \in {"WRITE_BARRIER", "FLUSH_DISKCACHE"} THEN "flush"
  ELSE IF r.operation = "DISCARD" THEN "discard" ELSE "other"

Piece(s) == [frame |-> grants[s.gref], first |-> s.first_sect, nr |-> NrSectors(s)]

Named(r) ==
  [id        |-> r.id,
   operation |-> Operation(r),
   kind      |-> Kind(r),
   sector    |-> r.sector_number,
   pieces    |-> [k \in DOMAIN Segments(r) |-> Piece(Segments(r)[k])],
   count     |-> r.nr_sectors]

(* The requests on the ring, the one in work, what is left of it, and the    *)
(* responses, in the device's terms.                                         *)
Nothing == [kind |-> "none"]
Queue == [k \in DOMAIN ring |-> Named(ring[k])]
Current == IF req = NoRequest THEN Nothing ELSE Named(req)
Remaining ==
  IF pc \in {"page", "segment", "copy"}
  THEN SubSeq(Named(req).pieces, segments_done + n + 1, Len(Named(req).pieces))
  ELSE <<>>
Replied(rsp) == [id |-> rsp.id, operation |-> rsp.operation, ok |-> rsp.status = "OKAY"]
Replies == [k \in DOMAIN responses |-> Replied(responses[k])]

Device == INSTANCE BlockDevice WITH
  Idle      <- Nothing,
  disk      <- image,
  settled   <- expected,
  memory    <- mem,
  queue     <- Queue,
  current   <- Current,
  remaining <- Remaining,
  at        <- start_sector,
  failed    <- status # "OKAY",
  replies   <- Replies

(* Through grant cache, page cache and mapping, every request does what a    *)
(* plain disk would do with the pages it names, and a crash loses nothing    *)
(* that a flush has made durable.                                            *)
ImplementsDevice == Device!DeviceSpec

(* The ring uses the cache only through its operations.                      *)
UsesCache == CacheSpec
=============================================================================
