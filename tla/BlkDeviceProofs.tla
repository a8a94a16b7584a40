----------------------------- MODULE BlkDeviceProofs -----------------------------
(* BlkRing implements BlockDevice: every step of the ring is a step of the   *)
(* device or changes nothing of it.                                          *)
EXTENDS BlkRingProofs

-----------------------------------------------------------------------------
(* A function on 1 .. m is a sequence.                                       *)
LEMMA SequenceOf == ASSUME NEW S, NEW m \in Nat, NEW f, f \in [1 .. m -> S] PROVE f \in Seq(S)
BY SeqDef

(* Sequences by their domain and elements: one that begins where another     *)
(* does and has one element more.                                            *)
LEMMA AppendOf ==
  ASSUME NEW f, NEW g, NEW m \in Nat, f = [k \in 1 .. m |-> f[k]], g = [k \in 1 .. m + 1 |-> g[k]],
         \A k \in 1 .. m : g[k] = f[k]
  PROVE  g = Append(f, g[m + 1]) /\ g # <<>> /\ SubSeq(g, 1, Len(g) - 1) = f
<1> DEFINE S == {g[k] : k \in 1 .. m + 1}
<1>1. f \in [1 .. m -> S] /\ g \in [1 .. m + 1 -> S] /\ g[m + 1] \in S
  <2>1. m + 1 \in 1 .. m + 1 /\ 1 .. m \subseteq 1 .. m + 1
    OBVIOUS
  <2>2. g \in [1 .. m + 1 -> S] /\ g[m + 1] \in S
    BY <2>1
  <2>3. \A k \in 1 .. m : f[k] \in S
    BY <2>1, <2>2
  <2>4. QED
    BY <2>2, <2>3
<1>2. f \in Seq(S) /\ g \in Seq(S) /\ m + 1 \in Nat
  <2>1. m + 1 \in Nat
    OBVIOUS
  <2>2. f \in Seq(S)
    BY <1>1, SequenceOf
  <2>3. g \in Seq(S)
    BY <1>1, <2>1, SequenceOf
  <2>4. QED
    BY <2>1, <2>2, <2>3
<1>3. Len(f) = m /\ Len(g) = m + 1
  <2>1. Len(f) \in Nat /\ 1 .. Len(f) = 1 .. m /\ Len(g) \in Nat /\ 1 .. Len(g) = 1 .. m + 1
    BY <1>1, <1>2, LenProperties
  <2>2. QED
    BY <2>1
<1> HIDE DEF S
<1>4. g = Append(f, g[m + 1])
  <2>1. /\ Append(f, g[m + 1]) \in Seq(S) /\ Len(Append(f, g[m + 1])) = m + 1
        /\ \A k \in 1 .. m : Append(f, g[m + 1])[k] = f[k]
        /\ Append(f, g[m + 1])[m + 1] = g[m + 1]
    BY <1>1, <1>2, <1>3, AppendProperties
  <2>2. ASSUME NEW k \in 1 .. Len(g) PROVE g[k] = Append(f, g[m + 1])[k]
    <3>1. k \in 1 .. m \/ k = m + 1
      BY <1>3
    <3>2. QED
      BY <2>1, <3>1
  <2>3. QED
    BY <1>2, <1>3, <2>1, <2>2, SeqEqual
<1>5. SubSeq(g, 1, m) = f
  <2>1. /\ SubSeq(g, 1, m) \in Seq(S) /\ Len(SubSeq(g, 1, m)) = m
        /\ \A k \in 1 .. m : SubSeq(g, 1, m)[k] = g[k]
    <3>1. \A k \in 1 .. m : g[k] \in S
      BY <1>2, <1>3, ElementOfSeq
    <3>2. /\ SubSeq(g, 1, m) \in Seq(S) /\ Len(SubSeq(g, 1, m)) = IF 1 <= m THEN m - 1 + 1 ELSE 0
          /\ \A k \in 1 .. m - 1 + 1 : SubSeq(g, 1, m)[k] = g[1 + k - 1]
      BY <3>1, SubSeqProperties
    <3>3. Len(SubSeq(g, 1, m)) = m
      BY <3>2
    <3>4. ASSUME NEW k \in 1 .. m PROVE SubSeq(g, 1, m)[k] = g[k]
      <4>1. k \in 1 .. m - 1 + 1 /\ 1 + k - 1 = k
        OBVIOUS
      <4>2. SubSeq(g, 1, m)[k] = g[1 + k - 1]
        BY <3>2, <4>1
      <4>3. QED
        BY <4>1, <4>2, Zenon
    <3>5. QED
      BY <3>2, <3>3, <3>4
  <2>2. QED
    BY <1>2, <1>3, <2>1, SeqEqual
<1>6. QED
  <2>1. Len(g) - 1 = m /\ Len(g) # Len(<<>>)
    BY <1>3, EmptySeq
  <2>2. QED
    BY <1>4, <1>5, <2>1

(* One that is another without its first element.                            *)
LEMMA TailOf ==
  ASSUME NEW f, NEW g, NEW m \in Nat, m > 0, f = [k \in 1 .. m |-> f[k]], g = [k \in 1 .. m - 1 |-> g[k]],
         \A k \in 1 .. m - 1 : g[k] = f[k + 1]
  PROVE  f # <<>> /\ g = Tail(f) /\ Head(f) = f[1]
<1> DEFINE S == {f[k] : k \in 1 .. m}
<1>1. f \in [1 .. m -> S] /\ g \in [1 .. m - 1 -> S] /\ m - 1 \in Nat
  <2>1. \A k \in 1 .. m - 1 : k + 1 \in 1 .. m
    OBVIOUS
  <2>2. f \in [1 .. m -> S]
    OBVIOUS
  <2>3. \A k \in 1 .. m - 1 : g[k] \in S
    BY <2>1, <2>2
  <2>4. QED
    BY <2>2, <2>3
<1>2. f \in Seq(S) /\ g \in Seq(S)
  BY <1>1, SequenceOf
<1>3. Len(f) = m /\ Len(g) = m - 1
  <2>1. Len(f) \in Nat /\ 1 .. Len(f) = 1 .. m /\ Len(g) \in Nat /\ 1 .. Len(g) = 1 .. m - 1
    BY <1>1, <1>2, LenProperties
  <2>2. QED
    BY <2>1
<1> HIDE DEF S
<1>4. f # <<>>
  <2>1. Len(<<>>) = 0
    BY EmptySeq
  <2>2. QED
    BY <1>3, <2>1
<1>5. Tail(f) \in Seq(S) /\ Len(Tail(f)) = m - 1 /\ \A k \in 1 .. m - 1 : Tail(f)[k] = f[k + 1]
  BY <1>2, <1>3, <1>4, HeadTailProperties
<1>6. g = Tail(f)
  <2>1. /\ Len(g) = Len(Tail(f))
        /\ \A k \in 1 .. Len(g) : g[k] = Tail(f)[k]
    BY <1>3, <1>5
  <2>2. QED
    BY <1>2, <1>5, <2>1, SeqEqual
<1>7. Head(f) = f[1]
  BY <1>2, <1>4, HeadTailProperties
<1>8. QED
  BY <1>4, <1>6, <1>7

-----------------------------------------------------------------------------
(* While a request is moved piece by piece, none of it has failed, and it is *)
(* a read or a write.                                                        *)
Serving ==
  pc \in {"page", "segment", "copy"} => status = "OKAY" /\ Operation(req) \in {"READ", "WRITE"}

LEMMA ServingStep == RingInv /\ Serving /\ [RingNext]_vars => Serving'
<1> SUFFICES ASSUME RingInv, Serving, [RingNext]_vars PROVE Serving'
  OBVIOUS
<1> USE DEF Serving
<1>1. CASE UNCHANGED thread
  BY <1>1 DEF thread, Operation, IsIndirect
<1>2. CASE ProcessRequest
  <2>1. pc = "idle" /\ status = "OKAY"
    BY <1>2 DEF ProcessRequest, RingInv, ThreadTypes, ThreadIdle
  <2>2. CASE HandleReadWrite(req') \/ HandleIndirect(req')
    BY <2>1, <2>2 DEF HandleReadWrite, HandleIndirect, Answer, Operation, IsIndirect
  <2>3. CASE HandleFlush(req') \/ HandleDiscard(req') \/ HandleOther(req')
    BY <2>3 DEF HandleFlush, HandleDiscard, HandleOther, Answer
  <2>4. QED
    BY <1>2, <2>2, <2>3 DEF ProcessRequest
<1>3. CASE AddIndirectPage \/ AddSegment
  BY <1>3 DEF AddIndirectPage, AddSegment, Answer, Operation, IsIndirect
<1>4. CASE CopySegment
  BY <1>4 DEF CopySegment, Answer, Advance, Operation, IsIndirect
<1>5. CASE SendResponse \/ Crash
  BY <1>5 DEF SendResponse, Crash, ThreadRests
<1>6. QED
  BY <1>1, <1>2, <1>3, <1>4, <1>5
     DEF RingNext, Thread, Environment, Storage, StrayAccess, vars, Submit, TakeResponse,
         FrontendGrants, DestroyRing, CreateRing

-----------------------------------------------------------------------------
(* A request in the device's terms.                                          *)
PieceType == [frame : Frame, first : Nat, nr : Nat]

LEMMA PieceTypes ==
  ASSUME NEW s \in SegmentType, grants[s.gref] # NoFrame, grants \in [Gref -> Frame \cup {NoFrame}]
  PROVE  Piece(s) \in PieceType
<1>1. s.gref \in Gref /\ s.first_sect \in Nat /\ s.last_sect \in Nat
  BY DEF SegmentType
<1>2. NrSectors(s) \in Nat
  <2>1. s.last_sect - s.first_sect + 1 \in Int /\ UINT32 \in Nat \ {0}
    BY <1>1, RingSizes
  <2>2. QED
    BY <2>1 DEF NrSectors
<1>3. grants[s.gref] \in Frame
  BY <1>1
<1>4. QED
  BY <1>1, <1>2, <1>3 DEF Piece, PieceType

LEMMA NamedTypes ==
  ASSUME RingInv, NEW r \in outstanding
  PROVE  /\ Named(r) # Nothing /\ r # NoRequest
         /\ Named(r).id = r.id /\ Named(r).operation = Operation(r) /\ Named(r).kind = Kind(r)
         /\ Named(r).sector = r.sector_number /\ Named(r).count = r.nr_sectors
         /\ Named(r).pieces \in Seq(PieceType) /\ Len(Named(r).pieces) = r.nr_segments
         /\ \A k \in 1 .. r.nr_segments : Named(r).pieces[k] = Piece(Segments(r)[k])
<1>1. Fields(r) /\ WellFormed(r) /\ grants \in [Gref -> Frame \cup {NoFrame}]
  BY DEF RingInv, Granted, CacheInv
<1>2. /\ r.nr_segments \in Nat /\ r # NoRequest /\ DOMAIN Segments(r) = 1 .. r.nr_segments
      /\ \A k \in 1 .. r.nr_segments :
           Segments(r)[k] \in SegmentType /\ grants[Segments(r)[k].gref] # NoFrame
  BY <1>1, FieldTypes, SegmentTypes DEF WellFormed
<1>3. /\ Named(r).id = r.id /\ Named(r).operation = Operation(r) /\ Named(r).kind = Kind(r)
      /\ Named(r).sector = r.sector_number /\ Named(r).count = r.nr_sectors
      /\ Named(r).pieces = [k \in 1 .. r.nr_segments |-> Piece(Segments(r)[k])]
  BY <1>2 DEF Named
<1>4. Named(r) # Nothing
  BY <1>3 DEF Nothing, Kind
<1>5. Named(r).pieces \in [1 .. r.nr_segments -> PieceType]
  BY <1>1, <1>2, <1>3, PieceTypes
<1>6. Named(r).pieces \in Seq(PieceType)
  BY <1>2, <1>5, SeqDef
<1>7. Len(Named(r).pieces) = r.nr_segments
  <2>1. Len(Named(r).pieces) \in Nat /\ 1 .. Len(Named(r).pieces) = 1 .. r.nr_segments
    BY <1>5, <1>6, LenProperties
  <2>2. QED
    BY <1>2, <2>1
<1>8. QED
  BY <1>2, <1>3, <1>4, <1>6, <1>7

(* It stays what it is as long as its grants do.                             *)
LEMMA NamedStays ==
  ASSUME RingInv, NEW r \in outstanding, \A g \in Grefs(r) : grants'[g] = grants[g]
  PROVE  Named(r)' = Named(r)
<1>1. Segments(r)' = Segments(r)
  BY SegmentsStay DEF RingInv, Granted, CacheInv
<1>2. \A k \in DOMAIN Segments(r) : grants'[Segments(r)[k].gref] = grants[Segments(r)[k].gref]
  BY DEF Grefs
<1>3. [k \in DOMAIN Segments(r) |-> Piece(Segments(r)[k])]' = [k \in DOMAIN Segments(r) |-> Piece(Segments(r)[k])]
  BY <1>1, <1>2 DEF Piece, NrSectors
<1>4. QED
  BY <1>3 DEF Named, Operation, Kind, IsIndirect

(* The grants of the requests a frontend waits for.                          *)
GrantsStay == \A r \in outstanding : \A g \in Grefs(r) : grants'[g] = grants[g]

LEMMA MappingKept ==
  ASSUME RingInv, GrantsStay
  PROVE  /\ ring' = ring => Queue' = Queue
         /\ req' = req => Current' = Current
         /\ req' = req /\ req # NoRequest => Named(req)' = Named(req)
         /\ responses' = responses => Replies' = Replies
<1>1. \A r \in outstanding : Named(r)' = Named(r)
  BY NamedStays DEF GrantsStay
<1>2. ASSUME ring' = ring PROVE Queue' = Queue
  <2>1. ASSUME NEW k \in DOMAIN ring PROVE Named(ring[k])' = Named(ring[k])
    <3>1. PICK r \in outstanding : r = ring[k]
      BY LenProperties DEF RingInv, Waiting
    <3>2. QED
      BY <1>1, <1>2, <3>1
  <2>2. QED
    BY <1>2, <2>1 DEF Queue
<1>3. ASSUME req' = req, req # NoRequest PROVE Named(req)' = Named(req)
  <2>1. PICK r \in outstanding : r = req
    BY <1>3 DEF RingInv, Waiting
  <2>2. QED
    BY <1>1, <1>3, <2>1
<1>4. req' = req => Current' = Current
  BY <1>3 DEF Current, Nothing
<1>5. responses' = responses => Replies' = Replies
  BY DEF Replies, Replied
<1>6. QED
  BY <1>2, <1>3, <1>4, <1>5

(* What is left of a request in work begins with the segment the thread is   *)
(* at.                                                                       *)
LEMMA LeftToDo ==
  ASSUME RingInv, pc \in {"page", "segment", "copy"}
  PROVE  /\ req \in outstanding /\ req # NoRequest /\ Current = Named(req) /\ Current # Nothing
         /\ Remaining # <<>>
         /\ Head(Remaining) = Piece(Segments(req)[segments_done + n + 1])
         /\ segments_done + n + 1 < req.nr_segments =>
              Tail(Remaining) = SubSeq(Named(req).pieces, segments_done + n + 2, Len(Named(req).pieces))
         /\ segments_done + n + 1 = req.nr_segments => Tail(Remaining) = <<>>
<1>1. req \in outstanding /\ req # NoRequest
  BY DEF RingInv, ThreadTypes, Waiting
<1>2. Current = Named(req) /\ Current # Nothing
  BY <1>1, NamedTypes DEF Current
<1>3. /\ Named(req).pieces \in Seq(PieceType) /\ Len(Named(req).pieces) = req.nr_segments
      /\ \A k \in 1 .. req.nr_segments : Named(req).pieces[k] = Piece(Segments(req)[k])
  BY <1>1, NamedTypes
<1>4. /\ segments_done \in Nat /\ n \in Nat /\ req.nr_segments \in Nat /\ segments_done + n < req.nr_segments
  BY <1>1, FieldTypes DEF RingInv, ThreadTypes, Working, Granted
<1>5. PICK m \in 1 .. req.nr_segments : m = segments_done + n + 1
  BY <1>4
<1>6. Remaining = SubSeq(Named(req).pieces, m, req.nr_segments)
  BY <1>3, <1>5 DEF Remaining
<1>7. m \in 1 .. Len(Named(req).pieces) /\ req.nr_segments \in m .. Len(Named(req).pieces)
  BY <1>3, <1>4, <1>5
<1>8. /\ Head(Remaining) = Named(req).pieces[m]
      /\ Tail(Remaining) = SubSeq(Named(req).pieces, m + 1, req.nr_segments)
  BY <1>3, <1>6, <1>7, HeadTailOfSubSeq
<1>9. Remaining # <<>>
  <2>1. \A k \in m .. req.nr_segments : Named(req).pieces[k] \in PieceType
    BY <1>3, <1>4, <1>5, ElementOfSeq
  <2>2. Len(Remaining) = IF m <= req.nr_segments THEN req.nr_segments - m + 1 ELSE 0
    BY <1>4, <1>5, <1>6, <2>1, SubSeqProperties
  <2>3. Len(Remaining) > 0
    BY <1>4, <1>5, <2>2
  <2>4. Len(<<>>) = 0
    BY EmptySeq
  <2>5. QED
    BY <2>3, <2>4
<1>10. ASSUME m = req.nr_segments PROVE Tail(Remaining) = <<>>
  <2>1. m + 1 \in Int /\ req.nr_segments \in Int /\ req.nr_segments < m + 1
    BY <1>4, <1>10
  <2>2. QED
    BY <1>8, <2>1, SubSeqEmpty
<1>11. m + 1 = segments_done + n + 2
  BY <1>4, <1>5
<1>12. QED
  BY <1>1, <1>2, <1>3, <1>5, <1>8, <1>9, <1>10, <1>11

(* Nothing of it changes while the thread stays at its segment.              *)
LEMMA RemainingKept ==
  ASSUME RingInv, GrantsStay, req' = req,
         (pc \in {"page", "segment", "copy"}) = (pc' \in {"page", "segment", "copy"}),
         pc \in {"page", "segment", "copy"} => segments_done' + n' = segments_done + n
  PROVE  Remaining' = Remaining
<1>1. CASE pc \in {"page", "segment", "copy"}
  <2>1. Named(req)' = Named(req)
    BY <1>1, MappingKept DEF RingInv, ThreadTypes
  <2>2. pc' \in {"page", "segment", "copy"} /\ segments_done' + n' + 1 = segments_done + n + 1
    BY <1>1
  <2>3. QED
    BY <1>1, <2>1, <2>2 DEF Remaining
<1>2. CASE pc \notin {"page", "segment", "copy"}
  BY <1>2 DEF Remaining
<1>3. QED
  BY <1>1, <1>2

-----------------------------------------------------------------------------
(* Steps of the ring that change nothing of the device.                      *)
LEMMA DeviceStutters ==
  ASSUME RingInv, GrantsStay, UNCHANGED <<image, expected, mem, ring, req, start_sector, status, responses>>,
         (pc \in {"page", "segment", "copy"}) = (pc' \in {"page", "segment", "copy"}),
         pc \in {"page", "segment", "copy"} => segments_done' + n' = segments_done + n
  PROVE  UNCHANGED Device!device
<1>1. Queue' = Queue /\ Current' = Current /\ Replies' = Replies /\ Remaining' = Remaining
  BY MappingKept, RemainingKept
<1>2. QED
  BY <1>1 DEF Device!device

(* The frontend grants other pages, a sector of the image is written back,   *)
(* the disk stops or starts to carry out flushes, or the thread strays.      *)
LEMMA OthersStutter ==
  ASSUME RingInv,
         FrontendGrants \/ CreateRing \/ Storage \/ StrayAccess \/ UNCHANGED vars
  PROVE  UNCHANGED Device!device
<1>1. GrantsStay
  <2>1. CASE FrontendGrants
    BY <2>1, FrontendKeeps DEF GrantsStay
  <2>2. CASE grants' = grants
    BY <2>2 DEF GrantsStay
  <2>3. QED
    BY <2>1, <2>2 DEF CreateRing, Storage, StrayAccess, vars, cacheVars
<1>2. UNCHANGED <<image, expected, mem, ring, req, start_sector, status, responses, pc, segments_done, n>>
  BY DEF FrontendGrants, CreateRing, Storage, StrayAccess, vars, Writeback, DiskTurns,
         imageVars, contents, thread, frontend
<1>3. QED
  BY <1>1, <1>2, DeviceStutters

(* A page is mapped: the thread is at the same segment as before.            *)
LEMMA MapsOrGivesUp ==
  ASSUME RingInv, Serving, AddIndirectPage \/ AddSegment
  PROVE  Device!GiveUp \/ UNCHANGED Device!device
<1>1. /\ pc \in {"page", "segment"} /\ UNCHANGED <<image, expected, ring, responses, req, mem>>
      /\ GrantsStay
  BY DEF AddIndirectPage, AddSegment, imageVars, contents, frontend, AddGrant, GrantsStay
<1>2. Queue' = Queue /\ Current' = Current /\ Replies' = Replies
  BY <1>1, MappingKept
<1>3. CASE Answer("ERROR")
  <2>1. Remaining' = <<>> /\ start_sector' = start_sector /\ status' # "OKAY"
    BY <1>3 DEF Answer, Remaining
  <2>2. Current # Nothing /\ Remaining # <<>>
    BY <1>1, LeftToDo
  <2>3. Device!GiveUp
    BY <1>1, <1>2, <2>1, <2>2 DEF Device!GiveUp
  <2>4. QED
    BY <2>3
<1>4. CASE /\ pc' \in {"segment", "copy"} /\ segments_done' = segments_done /\ n' = n
           /\ UNCHANGED <<start_sector, status>>
  BY <1>1, <1>4, DeviceStutters
<1>5. pc = "page" => n = 0
  BY DEF RingInv, Working
<1>6. QED
  BY <1>3, <1>4, <1>5 DEF AddIndirectPage, AddSegment

-----------------------------------------------------------------------------
(* The frontend makes a request.                                             *)
LEMMA SubmitsToDevice ==
  ASSUME RingInv, NEW w \in Workload, Submit(w)
  PROVE  Device!Submit
<1>1. /\ UNCHANGED <<image, expected, grants, req, pc, segments_done, n, start_sector, status, responses, mem>>
      /\ ring' = Append(ring, [w EXCEPT !.id = nextId])
  BY DEF Submit, cacheVars, imageVars, contents, thread
<1>2. GrantsStay
  BY <1>1 DEF GrantsStay
<1>3. Current' = Current /\ Replies' = Replies /\ Remaining' = Remaining
  BY <1>1, <1>2, MappingKept, RemainingKept
<1>4. /\ ring \in Seq(RequestType) /\ Len(ring) \in Nat /\ DOMAIN ring = 1 .. Len(ring)
      /\ \A k \in 1 .. Len(ring) : ring[k] \in outstanding
  BY LenProperties DEF RingInv, Waiting
<1>5. [w EXCEPT !.id = nextId] \in RequestType
  <2>1. w \in RequestType /\ nextId \in Nat
    BY Requests DEF RingInv, Waiting
  <2>2. QED
    BY <2>1 DEF RequestType
<1>6. /\ DOMAIN ring' = 1 .. Len(ring) + 1
      /\ \A k \in 1 .. Len(ring) : ring'[k] = ring[k]
  <2>1. /\ ring' \in Seq(RequestType) /\ Len(ring') = Len(ring) + 1
        /\ \A k \in 1 .. Len(ring) : ring'[k] = ring[k]
    BY <1>1, <1>4, <1>5, AppendProperties
  <2>2. QED
    BY <2>1, LenProperties
<1>7. ASSUME NEW k \in 1 .. Len(ring)
      PROVE  Queue'[k] = Queue[k]
  <2>1. PICK r \in outstanding : r = ring[k]
    BY <1>4
  <2>2. k \in DOMAIN ring' /\ ring'[k] = r
    BY <1>6, <2>1
  <2>3. Queue'[k] = Named(r)'
    BY <2>2 DEF Queue
  <2>4. Named(r)' = Named(r)
    BY <1>2, NamedStays DEF GrantsStay
  <2>5. Queue[k] = Named(r)
    BY <1>4, <2>1 DEF Queue
  <2>6. QED
    BY <2>3, <2>4, <2>5
<1>8. /\ Queue = [k \in 1 .. Len(ring) |-> Queue[k]]
      /\ Queue' = [k \in 1 .. Len(ring) + 1 |-> Queue'[k]]
  BY <1>4, <1>6 DEF Queue
<1>9. Queue' # <<>> /\ SubSeq(Queue', 1, Len(Queue') - 1) = Queue
  BY <1>4, <1>7, <1>8, AppendOf
<1>10. QED
  BY <1>1, <1>3, <1>9 DEF Device!Submit, Device!work, Device!Front

(* It takes a response.                                                      *)
LEMMA TakesReply ==
  ASSUME RingInv, TakeResponse
  PROVE  Device!TakeReply
<1>1. /\ UNCHANGED <<image, expected, grants, ring, req, pc, segments_done, n, start_sector, status, mem>>
      /\ responses # <<>> /\ responses' = Tail(responses)
  BY DEF TakeResponse, cacheVars, imageVars, contents, thread
<1>2. GrantsStay
  BY <1>1 DEF GrantsStay
<1>3. Current' = Current /\ Queue' = Queue /\ Remaining' = Remaining
  BY <1>1, <1>2, MappingKept, RemainingKept
<1>4. /\ Len(responses) \in Nat /\ Len(responses) > 0 /\ DOMAIN responses = 1 .. Len(responses)
      /\ DOMAIN responses' = 1 .. Len(responses) - 1
      /\ \A k \in 1 .. Len(responses) - 1 : responses'[k] = responses[k + 1]
  <2>1. responses \in Seq([id : Nat, operation : STRING, status : Status])
    BY DEF RingInv, Waiting
  <2>2. /\ responses' \in Seq([id : Nat, operation : STRING, status : Status])
        /\ Len(responses') = Len(responses) - 1
        /\ \A k \in 1 .. Len(responses) - 1 : responses'[k] = responses[k + 1]
    BY <1>1, <2>1, HeadTailProperties
  <2>3. QED
    BY <1>1, <2>1, <2>2, EmptySeq, LenProperties
<1>5. /\ Replies = [k \in 1 .. Len(responses) |-> Replies[k]]
      /\ Replies' = [k \in 1 .. Len(responses) - 1 |-> Replies'[k]]
      /\ \A k \in 1 .. Len(responses) - 1 : Replies'[k] = Replies[k + 1]
  BY <1>4 DEF Replies, Replied
<1>6. Replies # <<>> /\ Replies' = Tail(Replies)
  BY <1>4, <1>5, TailOf
<1>7. QED
  BY <1>1, <1>3, <1>6 DEF Device!TakeReply, Device!work

(* The ring goes between two requests, or with the host.                     *)
LEMMA Disconnects ==
  ASSUME RingInv, DestroyRing \/ Crash
  PROVE  Device!Disconnect
<1>1. ThreadIdle' /\ ring' = <<>> /\ responses' = <<>> /\ mem' = mem
  BY DEF DestroyRing, Crash, ThreadRests, ThreadIdle, RingInv, ThreadTypes, thread
<1>2. /\ Queue' = <<>> /\ Replies' = <<>> /\ Current' = Nothing /\ Remaining' = <<>>
      /\ start_sector' = 0 /\ status' = "OKAY"
  BY <1>1 DEF ThreadIdle, Queue, Replies, Current, Remaining
<1>3. CASE DestroyRing
  <2>1. UNCHANGED <<image, expected>> /\ Current = Nothing
    BY <1>3 DEF DestroyRing, imageVars, contents, Current, RingInv, ThreadTypes
  <2>2. QED
    BY <1>1, <1>2, <2>1 DEF Device!Disconnect
<1>4. CASE Crash
  <2>1. \A s \in Sector : image'[s] \in expected[s]
    BY <1>4 DEF Crash, HostCrash, RingInv, Durable
  <2>2. expected' = [s \in Sector |-> {image'[s]}]
    BY <1>4 DEF Crash, HostCrash
  <2>3. QED
    BY <1>1, <1>2, <2>1, <2>2 DEF Device!Disconnect
<1>5. QED
  BY <1>3, <1>4

(* The response is sent when nothing is left to do.                          *)
LEMMA Replying ==
  ASSUME RingInv, SendResponse
  PROVE  Device!Reply
<1>1. /\ pc = "respond" /\ responses' = Append(responses, Response(req)) /\ ThreadIdle'
      /\ UNCHANGED <<image, expected, grants, ring, mem>>
  BY DEF SendResponse, ThreadRests, ThreadIdle, imageVars, contents, cacheVars
<1>2. GrantsStay
  BY <1>1 DEF GrantsStay
<1>3. req \in outstanding /\ req # NoRequest /\ Fields(req)
  BY <1>1 DEF RingInv, ThreadTypes, Waiting, Granted
<1>4. /\ Current = Named(req) /\ Current # Nothing
      /\ Current.id = req.id /\ Current.operation = Operation(req)
  BY <1>3, NamedTypes DEF Current
<1>5. /\ Queue' = Queue /\ Current' = Nothing /\ Remaining = <<>> /\ Remaining' = <<>>
      /\ start_sector' = 0 /\ status' = "OKAY"
  BY <1>1, <1>2, MappingKept DEF ThreadIdle, Current, Remaining
<1>6. /\ Len(responses) \in Nat /\ DOMAIN responses = 1 .. Len(responses)
      /\ DOMAIN responses' = 1 .. Len(responses) + 1
      /\ \A k \in 1 .. Len(responses) : responses'[k] = responses[k]
      /\ responses'[Len(responses) + 1] = Response(req)
  <2>1. responses \in Seq([id : Nat, operation : STRING, status : Status])
    BY DEF RingInv, Waiting
  <2>2. Response(req) \in [id : Nat, operation : STRING, status : Status]
    BY <1>3, FieldTypes DEF Response, RingInv, ThreadTypes
  <2>3. /\ responses' \in Seq([id : Nat, operation : STRING, status : Status])
        /\ Len(responses') = Len(responses) + 1
        /\ \A k \in 1 .. Len(responses) : responses'[k] = responses[k]
        /\ responses'[Len(responses) + 1] = Response(req)
    BY <1>1, <2>1, <2>2, AppendProperties
  <2>4. QED
    BY <2>1, <2>3, LenProperties
<1>7. /\ Replies = [k \in 1 .. Len(responses) |-> Replies[k]]
      /\ Replies' = [k \in 1 .. Len(responses) + 1 |-> Replies'[k]]
      /\ \A k \in 1 .. Len(responses) : Replies'[k] = Replies[k]
  BY <1>6 DEF Replies, Replied
<1>8. Replies' = Append(Replies, Replies'[Len(responses) + 1])
  BY <1>6, <1>7, AppendOf
<1>9. Replies'[Len(responses) + 1]
      = [id |-> Current.id, operation |-> Current.operation, ok |-> ~(status # "OKAY")]
  <2>1. Len(responses) + 1 \in DOMAIN responses'
    BY <1>6
  <2>2. Replies'[Len(responses) + 1] = Replied(Response(req))
    BY <1>6, <2>1 DEF Replies, Replied
  <2>3. Replied(Response(req)) = [id |-> req.id, operation |-> Operation(req), ok |-> status = "OKAY"]
    BY DEF Replied, Response, Operation
  <2>4. QED
    BY <1>4, <2>2, <2>3
<1>10. QED
  BY <1>1, <1>4, <1>5, <1>8, <1>9 DEF Device!Reply

-----------------------------------------------------------------------------
(* A write to the mapping is one to the disk.                                *)
LEMMA StorePuts ==
  ASSUME NEW first, NEW buf, Store(first, buf)
  PROVE  Device!Put(first, buf)
  BY DEF Store, Filled, Device!Put

(* The thread takes the next request: a read or a write begins, the rest is  *)
(* done at once or refused.                                                  *)
LEMMA Starts ==
  ASSUME RingInv, ProcessRequest
  PROVE  Device!Start
<1>1. /\ pc = "idle" /\ ring # <<>> /\ ring' = Tail(ring) /\ req' = Head(ring)
      /\ UNCHANGED <<grants, responses, mem>>
  BY DEF ProcessRequest, cacheVars
<1>2. ThreadIdle
  BY <1>1 DEF RingInv, ThreadTypes
<1>3. GrantsStay
  BY <1>1 DEF GrantsStay
<1>4. /\ Len(ring) \in Nat /\ Len(ring) > 0 /\ DOMAIN ring = 1 .. Len(ring)
      /\ DOMAIN ring' = 1 .. Len(ring) - 1 /\ Head(ring) = ring[1]
      /\ \A k \in 1 .. Len(ring) - 1 : ring'[k] = ring[k + 1]
      /\ \A k \in 1 .. Len(ring) : ring[k] \in outstanding
  <2>1. ring \in Seq(RequestType) /\ \A k \in 1 .. Len(ring) : ring[k] \in outstanding
    BY DEF RingInv, Waiting
  <2>2. /\ ring' \in Seq(RequestType) /\ Len(ring') = Len(ring) - 1
        /\ \A k \in 1 .. Len(ring) - 1 : ring'[k] = ring[k + 1]
    BY <1>1, <2>1, HeadTailProperties
  <2>3. Head(ring) = ring[1]
    BY <1>1, <2>1
  <2>4. QED
    BY <1>1, <2>1, <2>2, <2>3, EmptySeq, LenProperties
<1>5. PICK r \in outstanding : r = ring[1]
  BY <1>4
<1>6. \A q \in outstanding : Named(q)' = Named(q)
  BY <1>3, NamedStays DEF GrantsStay
<1>7. ASSUME NEW k \in 1 .. Len(ring) - 1
      PROVE  Queue'[k] = Queue[k + 1]
  <2>1. k + 1 \in 1 .. Len(ring)
    BY <1>4
  <2>2. PICK q \in outstanding : q = ring[k + 1]
    BY <1>4, <2>1
  <2>3. k \in DOMAIN ring' /\ ring'[k] = q
    BY <1>4, <2>2
  <2>4. Queue'[k] = Named(q)'
    BY <2>3 DEF Queue
  <2>5. Queue[k + 1] = Named(q)
    BY <1>4, <2>1, <2>2 DEF Queue
  <2>6. QED
    BY <1>6, <2>4, <2>5
<1>8. /\ Queue = [k \in 1 .. Len(ring) |-> Queue[k]]
      /\ Queue' = [k \in 1 .. Len(ring) - 1 |-> Queue'[k]]
  BY <1>4 DEF Queue
<1>9. Queue # <<>> /\ Queue' = Tail(Queue) /\ Head(Queue) = Queue[1]
  BY <1>4, <1>7, <1>8, TailOf
<1>10. Queue[1] = Named(r)
  <2>1. 1 \in DOMAIN ring
    BY <1>4
  <2>2. QED
    BY <1>5, <2>1 DEF Queue
<1>11. /\ r # NoRequest /\ Fields(r) /\ Named(r).kind = Kind(r) /\ Named(r).sector = r.sector_number
       /\ Named(r).count = r.nr_sectors /\ Named(r).pieces \in Seq(PieceType)
       /\ r.sector_number \in Nat /\ r.nr_sectors \in Nat
  BY NamedTypes, FieldTypes DEF RingInv, Granted, Fields
<1>12. req' = r /\ Named(req)' = Named(r)
  <2>1. req' = r
    BY <1>1, <1>4, <1>5
  <2>2. QED
    BY <1>6, <2>1
<1>13. Current' = Named(r) /\ Current = Nothing /\ Replies' = Replies
  BY <1>2, <1>3, <1>1, <1>11, <1>12, MappingKept DEF Current, ThreadIdle
<1>14. CASE /\ r.operation \in {"READ", "WRITE"} \/ (IsIndirect(r) /\ r.indirect_op \in {"READ", "WRITE"})
            /\ pc' \in {"page", "segment"} /\ start_sector' = r.sector_number
            /\ UNCHANGED <<segments_done, n, status, image, expected>>
  <2>1. Named(r).kind \in {"read", "write"}
    BY <1>11, <1>14 DEF Kind, Operation, IsIndirect
  <2>2. Remaining' = SubSeq(Named(r).pieces, 1, Len(Named(r).pieces))
    <3>1. segments_done' + n' + 1 = 1
      BY <1>2, <1>14 DEF ThreadIdle
    <3>2. QED
      BY <1>12, <1>14, <3>1 DEF Remaining
  <2>3. Remaining' = Named(r).pieces
    BY <1>11, <2>2, SubSeqFull
  <2>4. status' = "OKAY"
    BY <1>2, <1>14 DEF ThreadIdle
  <2>5. QED
    BY <1>1, <1>9, <1>10, <1>11, <1>13, <1>14, <2>1, <2>3, <2>4 DEF Device!Start
<1>15. ASSUME NEW rc \in Status, Answer(rc)
       PROVE  Remaining' = <<>> /\ start_sector' = 0 /\ status' = rc
  BY <1>2, <1>15 DEF Answer, Remaining, ThreadIdle
<1>16. ASSUME NEW rc \in Status, Answer(rc), rc # "OKAY", UNCHANGED <<image, expected>>
       PROVE  Device!Start
  BY <1>1, <1>9, <1>10, <1>13, <1>15, <1>16 DEF Device!Start
<1>17. CASE HandleFlush(r) /\ Settle
  <2>1. /\ Answer("OKAY") /\ image' = image /\ "OKAY" \in Status
        /\ expected' = IF disk_ok THEN [s \in Sector |-> {image[s]}] ELSE expected
    BY <1>17 DEF HandleFlush, FlushBackingFile, Settle, Status
  <2>2. Named(r).kind = "flush"
    BY <1>11, <1>17 DEF HandleFlush, Kind, Operation, IsIndirect
  <2>3. Remaining' = <<>> /\ start_sector' = 0 /\ status' = "OKAY"
    BY <1>15, <2>1
  <2>4. QED
    BY <1>1, <1>9, <1>10, <1>13, <2>1, <2>2, <2>3 DEF Device!Start
<1>18. CASE HandleDiscard(r)
  <2>1. PICK rc \in Status : Discard(r.sector_number, r.nr_sectors, rc) /\ Answer(rc)
    BY <1>18 DEF HandleDiscard
  <2>2. CASE rc = "OKAY"
    <3> DEFINE zeros == [o \in 0 .. r.nr_sectors - 1 |-> Zero]
    <3>1. Store(r.sector_number, zeros) /\ Inside(r.sector_number, r.nr_sectors)
      BY <2>1, <2>2 DEF Discard
    <3>2. \A o \in 0 .. r.nr_sectors - 1 : r.sector_number + o \in Sector
      BY <1>11, <3>1, InsideSectors
    <3>3. Device!Put(r.sector_number, zeros)
      BY <3>1, StorePuts
    <3>4. r.sector_number + r.nr_sectors - 1 \in Sector \cup {r.sector_number - 1}
      <4>1. CASE r.nr_sectors = 0
        BY <1>11, <4>1
      <4>2. CASE r.nr_sectors # 0
        <5>1. r.nr_sectors - 1 \in 0 .. r.nr_sectors - 1
          BY <1>11, <4>2
        <5>2. r.sector_number + (r.nr_sectors - 1) \in Sector
          BY <3>2, <5>1
        <5>3. r.sector_number + (r.nr_sectors - 1) = r.sector_number + r.nr_sectors - 1
          BY <1>11
        <5>4. QED
          BY <5>2, <5>3
      <4>3. QED
        BY <4>1, <4>2
    <3>5. Named(r).kind = "discard"
      BY <1>11, <1>18 DEF HandleDiscard, Kind, Operation, IsIndirect
    <3>6. Remaining' = <<>> /\ start_sector' = 0 /\ status' = "OKAY"
      BY <1>15, <2>1, <2>2
    <3> HIDE DEF zeros
    <3>7. Device!Put(Current'.sector, [o \in 0 .. Current'.count - 1 |-> Zero])
      BY <1>11, <1>13, <3>3 DEF zeros
    <3>8. QED
      BY <1>1, <1>9, <1>10, <1>11, <1>13, <3>4, <3>5, <3>6, <3>7 DEF Device!Start
  <2>3. CASE rc # "OKAY"
    BY <1>16, <2>1, <2>3 DEF Discard, imageVars, contents
  <2>4. QED
    BY <2>2, <2>3
<1>19. CASE HandleReadWrite(r) \/ HandleIndirect(r)
  BY <1>14, <1>16, <1>19 DEF HandleReadWrite, HandleIndirect, IsIndirect, Status, imageVars, contents
<1>20. CASE HandleOther(r)
  BY <1>16, <1>20 DEF HandleOther, Status, imageVars, contents
<1>21. QED
  <2>1. \/ HandleReadWrite(req') \/ HandleIndirect(req')
        \/ (HandleFlush(req') /\ Settle) \/ HandleDiscard(req') \/ HandleOther(req')
    BY DEF ProcessRequest
  <2>2. QED
    BY <1>12, <1>17, <1>18, <1>19, <1>20, <2>1

-----------------------------------------------------------------------------
(* After the last segment of the last page none is left.                     *)
LEMMA LastSegment ==
  ASSUME RingInv, pc = "copy", n + 1 = NrSegs, IsIndirect(req) => ~(i + 1 < NrIndirectGrefs(req))
  PROVE  segments_done + n + 1 = req.nr_segments
<1>1. /\ Fields(req) /\ req.nr_segments \in Nat /\ i \in Nat /\ segments_done \in Nat /\ n \in Nat
      /\ segments_done + n < req.nr_segments
  BY AtSegment, FieldTypes DEF RingInv, ThreadTypes, Working
<1>2. CASE IsIndirect(req)
  <2>1. /\ segments_done = i * SEGMENTS_PER_INDIRECT_PAGE /\ i < NrIndirectGrefs(req)
        /\ NrIndirectGrefs(req) \in Nat /\ SEGMENTS_PER_INDIRECT_PAGE \in Nat \ {0}
    BY <1>1, <1>2, FieldTypes, RingSizes DEF RingInv, Working
  <2>2. NrIndirectGrefs(req) = i + 1
    BY <1>1, <1>2, <2>1
  <2>3. req.nr_segments <= (i + 1) * SEGMENTS_PER_INDIRECT_PAGE
    BY <1>1, <2>1, <2>2, PagesHoldSegments DEF NrIndirectGrefs
  <2>4. (i + 1) * SEGMENTS_PER_INDIRECT_PAGE = segments_done + SEGMENTS_PER_INDIRECT_PAGE
    BY <1>1, <2>1, Products
  <2>5. NrSegs = req.nr_segments - segments_done
    BY <1>1, <1>2, <2>1, <2>3, <2>4 DEF NrSegs, minimum
  <2>6. QED
    BY <1>1, <2>5
<1>3. CASE ~IsIndirect(req)
  BY <1>1, <1>3 DEF NrSegs, RingInv, Working
<1>4. QED
  BY <1>2, <1>3

(* The thread goes on: one piece less is left.                               *)
LEMMA AdvancesOnePiece ==
  ASSUME RingInv, RingInv', pc = "copy", Advance, UNCHANGED <<cacheVars, req>>
  PROVE  Remaining' = Tail(Remaining)
<1>1. GrantsStay
  BY DEF GrantsStay, cacheVars
<1>2. /\ segments_done \in Nat /\ n \in Nat /\ req.nr_segments \in Nat /\ req # NoRequest
  BY AtSegment, FieldTypes DEF RingInv, ThreadTypes
<1>3. Named(req)' = Named(req)
  BY <1>1, <1>2, MappingKept
<1>4. segments_done' + n' = segments_done + n + 1
  BY <1>2 DEF Advance
<1>5. CASE pc' \in {"page", "segment"}
  <2>1. segments_done' + n' < req'.nr_segments
    BY <1>5 DEF RingInv, Working
  <2>2. segments_done + n + 1 < req.nr_segments /\ segments_done' + n' + 1 = segments_done + n + 2
    BY <1>2, <1>4, <2>1
  <2>3. Remaining' = SubSeq(Named(req).pieces, segments_done + n + 2, Len(Named(req).pieces))
    BY <1>3, <1>5, <2>2 DEF Remaining
  <2>4. QED
    BY <2>2, <2>3, LeftToDo
<1>6. CASE pc' = "respond"
  <2>1. n + 1 = NrSegs /\ (IsIndirect(req) => ~(i + 1 < NrIndirectGrefs(req)))
    BY <1>6 DEF Advance, NrIndirectGrefs
  <2>2. Tail(Remaining) = <<>>
    BY <2>1, LastSegment, LeftToDo
  <2>3. QED
    BY <1>6, <2>2 DEF Remaining
<1>7. QED
  BY <1>5, <1>6 DEF Advance

(* The segment moves between page and image as its piece does between page   *)
(* and disk.                                                                 *)
LEMMA MovesOrGivesUp ==
  ASSUME RingInv, RingInv', Serving, CopySegment
  PROVE  Device!Move \/ Device!GiveUp
<1> DEFINE frame == mapped[buffer].frame
           page == mem[frame]
           nr == NrSectors(Segment)
           written == [o \in 0 .. nr - 1 |-> page[Segment.first_sect + o]]
           read == [o \in DOMAIN page |->
                      IF o \in Segment.first_sect .. Segment.first_sect + nr - 1
                      THEN ReadBuffer(start_sector, nr)[o - Segment.first_sect] ELSE page[o]]
<1>1. /\ pc = "copy" /\ UNCHANGED <<cacheVars, ring, responses, req>>
      /\ InImage(start_sector, nr) => InPage(Segment)
  BY DEF CopySegment, frontend
<1>2. PICK rc \in Status :
        /\ \/ IsWrite /\ WriteSectors(start_sector, written, nr, rc) /\ UNCHANGED mem
           \/ /\ ~IsWrite /\ InImage(start_sector, nr) /\ Inside(start_sector, nr) /\ rc = "OKAY"
              /\ mem' = [mem EXCEPT ![frame] = read] /\ UNCHANGED imageVars
           \/ ~IsWrite /\ rc = "ERROR" /\ UNCHANGED <<imageVars, mem>>
        /\ \/ rc # "OKAY" /\ Answer(rc)
           \/ rc = "OKAY" /\ Advance
  BY DEF CopySegment
<1>3. /\ Segment.first_sect \in Nat /\ nr \in Nat /\ start_sector \in Nat
      /\ InImage(start_sector, nr) => \A o \in 0 .. nr - 1 : Segment.first_sect + o \in 0 .. SECTORS_PER_PAGE - 1
  BY <1>1, SegmentSectors
<1>4. /\ req \in outstanding /\ req # NoRequest /\ Current = Named(req) /\ Current # Nothing
      /\ Remaining # <<>> /\ Head(Remaining) = Piece(Segment)
  BY <1>1, LeftToDo, AtSegment
<1>5. /\ Head(Remaining).frame = frame /\ Head(Remaining).first = Segment.first_sect /\ Head(Remaining).nr = nr
  BY <1>1, <1>4, AtCopy DEF Piece
<1>6. Current.kind = IF IsWrite THEN "write" ELSE "read"
  <2>1. Operation(req) \in {"READ", "WRITE"} /\ Current.kind = Kind(req)
    BY <1>1, <1>4, NamedTypes DEF Serving
  <2>2. QED
    BY <2>1 DEF Kind, IsWrite, Operation
<1>7. GrantsStay
  BY <1>1 DEF GrantsStay, cacheVars
<1>8. Queue' = Queue /\ Current' = Current /\ Replies' = Replies
  BY <1>1, <1>7, MappingKept
<1>9. CASE rc # "OKAY"
  <2>1. Remaining' = <<>> /\ start_sector' = start_sector /\ status' # "OKAY"
    BY <1>2, <1>9 DEF Answer, Remaining
  <2>2. UNCHANGED <<image, expected, mem>>
    BY <1>2, <1>9 DEF WriteSectors, imageVars, contents
  <2>3. Device!GiveUp
    BY <1>4, <1>8, <2>1, <2>2 DEF Device!GiveUp
  <2>4. QED
    BY <2>3
<1>10. CASE rc = "OKAY"
  <2>1. Remaining' = Tail(Remaining) /\ start_sector' = start_sector + nr /\ status' = "OKAY" /\ status = "OKAY"
    BY <1>1, <1>2, <1>10, AdvancesOnePiece DEF Advance, NextSector, Serving
  <2>2. InImage(start_sector, nr) /\ Inside(start_sector, nr)
    BY <1>2, <1>10 DEF WriteSectors
  <2>3. \A o \in 0 .. nr - 1 : start_sector + o \in Sector
    BY <1>3, <2>2, InsideSectors
  <2>4. start_sector .. start_sector + nr - 1 \subseteq Sector
    <3>1. ASSUME NEW x \in start_sector .. start_sector + nr - 1 PROVE x \in Sector
      <4>1. x - start_sector \in 0 .. nr - 1 /\ start_sector + (x - start_sector) = x
        BY <1>3
      <4>2. QED
        BY <2>3, <4>1
    <3>2. QED
      BY <3>1
  <2>5. page \in [0 .. SECTORS_PER_PAGE - 1 -> Content]
    BY <1>1, AtCopy DEF RingInv, Memory
  <2>6. Segment.first_sect .. Segment.first_sect + nr - 1 \subseteq DOMAIN page
    <3>1. ASSUME NEW x \in Segment.first_sect .. Segment.first_sect + nr - 1
          PROVE  x \in 0 .. SECTORS_PER_PAGE - 1
      <4>1. x - Segment.first_sect \in 0 .. nr - 1 /\ Segment.first_sect + (x - Segment.first_sect) = x
        BY <1>3
      <4>2. QED
        BY <1>3, <2>2, <4>1
    <3>2. QED
      BY <2>5, <3>1
  <2>7. CASE IsWrite
    <3>1. Store(start_sector, written) /\ mem' = mem
      BY <1>2, <1>10, <2>7 DEF WriteSectors
    <3>2. Device!Put(start_sector, written)
      BY <3>1, StorePuts
    <3>3. written = [o \in 0 .. Head(Remaining).nr - 1 |-> mem[Head(Remaining).frame][Head(Remaining).first + o]]
      BY <1>5
    <3> HIDE DEF written
    <3>4. Device!Put(start_sector, [o \in 0 .. Head(Remaining).nr - 1 |-> mem[Head(Remaining).frame][Head(Remaining).first + o]])
      BY <3>2, <3>3
    <3>5. Device!Move
      BY <1>4, <1>5, <1>6, <1>8, <2>1, <2>4, <2>7, <2>6, <3>1, <3>4 DEF Device!Move
    <3>6. QED
      BY <3>5
  <2>8. CASE ~IsWrite
    <3>1. mem' = [mem EXCEPT ![frame] = read] /\ image' = image /\ expected' = expected
      BY <1>2, <1>10, <2>8 DEF imageVars, contents
    <3>2. read = [o \in DOMAIN page |->
                    IF o \in Segment.first_sect .. Segment.first_sect + nr - 1
                    THEN image[start_sector + o - Segment.first_sect] ELSE page[o]]
      <4>1. ASSUME NEW o \in 0 .. SECTORS_PER_PAGE - 1, o \in Segment.first_sect .. Segment.first_sect + nr - 1
            PROVE  ReadBuffer(start_sector, nr)[o - Segment.first_sect] = image[start_sector + o - Segment.first_sect]
        <5>1. o - Segment.first_sect \in 0 .. nr - 1
          BY <1>3, <4>1, RingSizes
        <5>2. start_sector + (o - Segment.first_sect) = start_sector + o - Segment.first_sect
          BY <1>3, RingSizes
        <5>3. QED
          BY <5>1, <5>2 DEF ReadBuffer
      <4>2. QED
        BY <2>5, <4>1
    <3> HIDE DEF read
    <3>3. Device!Move
      BY <1>4, <1>5, <1>6, <1>8, <2>1, <2>4, <2>8, <2>6, <3>1, <3>2 DEF Device!Move
    <3>4. QED
      BY <3>3
  <2>9. QED
    BY <2>7, <2>8
<1>11. QED
  BY <1>9, <1>10

-----------------------------------------------------------------------------
(* Every step of the ring is one of the device, or none.                     *)
LEMMA DeviceStep ==
  RingInv /\ RingInv' /\ Serving /\ [RingNext]_vars => [Device!DeviceNext]_(Device!device)
<1> SUFFICES ASSUME RingInv, RingInv', Serving, [RingNext]_vars
             PROVE  Device!DeviceNext \/ UNCHANGED Device!device
  OBVIOUS
<1> USE DEF Device!DeviceNext
<1>1. ASSUME NEW w \in Workload, Submit(w) PROVE Device!DeviceNext
  BY <1>1, SubmitsToDevice
<1>2. CASE TakeResponse
  BY <1>2, TakesReply
<1>3. CASE ProcessRequest
  BY <1>3, Starts
<1>4. CASE AddIndirectPage \/ AddSegment
  BY <1>4, MapsOrGivesUp
<1>5. CASE CopySegment
  BY <1>5, MovesOrGivesUp
<1>6. CASE SendResponse
  BY <1>6, Replying
<1>7. CASE DestroyRing \/ Crash
  BY <1>7, Disconnects
<1>8. CASE FrontendGrants \/ CreateRing \/ Storage \/ StrayAccess \/ UNCHANGED vars
  BY <1>8, OthersStutter
<1>9. QED
  BY <1>1, <1>2, <1>3, <1>4, <1>5, <1>6, <1>7, <1>8 DEF RingNext, Thread, Environment

(* A ring without requests is a device without requests.                     *)
LEMMA DeviceInitially == RingInit => Device!DeviceInit
<1> SUFFICES ASSUME RingInit PROVE Device!DeviceInit
  OBVIOUS
<1>1. ThreadIdle /\ ring = <<>> /\ responses = <<>> /\ expected = [s \in Sector |-> {image[s]}]
  BY DEF RingInit, ImageInit
<1>2. Queue = <<>> /\ Replies = <<>> /\ Current = Nothing /\ Remaining = <<>>
  BY <1>1 DEF ThreadIdle, Queue, Replies, Current, Remaining
<1>3. QED
  BY <1>1, <1>2 DEF ThreadIdle, Device!DeviceInit

(* The ring is a block device: with its cached and evicted addresses, its    *)
(* pages of segments, its failures half way and the writeback under it,      *)
(* every request moves the pieces it names, in order, up to one that fails,  *)
(* and a crash undoes nothing that a flush has settled.                      *)
THEOREM DeviceCorrect == RingSpec => ImplementsDevice
<1>1. RingInit => Serving
  BY DEF RingInit, ThreadIdle, Serving
<1>2. RingSpec => []Serving
  BY <1>1, ServingStep, RingCorrect, PTL DEF RingSpec
<1>3. QED
  BY <1>2, RingCorrect, DeviceInitially, DeviceStep, PTL DEF RingSpec, ImplementsDevice, Device!DeviceSpec
=============================================================================
