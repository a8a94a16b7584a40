--------------------------- MODULE BlkBackendProofs ----------------------------
(* The safety properties of BlkBackend, proved for every set of frontends,    *)
(* every assignment of files to them and every limit.                         *)
EXTENDS BlkBackend, FiniteSetTheorems, TLAPS

-----------------------------------------------------------------------------
Position ==
  {"none", "idle", "open", "publish", "ring", "add", "bound", "closing", "released", "closed"}

Types ==
  /\ handler \in [Frontend -> Position]
  /\ mImage \in [Frontend -> Nat] /\ mCmdRingBuffer \in [Frontend -> Nat]
  /\ mRingBuffers \in [Frontend -> SUBSET Nat]
  /\ binds \in [Frontend -> 0 .. MaxBinds]

(* What a handler owns where it is: rings of its last bind only, none before *)
(* a bind has made one, and none after both onClosing and the library have   *)
(* let go of it.                                                             *)
Owned ==
  \A f \in Frontend :
    /\ mCmdRingBuffer[f] \in {0, binds[f]} /\ mRingBuffers[f] \subseteq {binds[f]}
    /\ handler[f] \in {"none", "idle", "open", "publish", "ring", "closed"} => mCmdRingBuffer[f] = 0
    /\ handler[f] \in {"none", "idle", "open", "publish", "ring", "add", "released"} => mRingBuffers[f] = {}
    /\ handler[f] = "add" => mCmdRingBuffer[f] = binds[f]
    /\ handler[f] = "open" => binds[f] < MaxBinds

(* Before the backend is started there are no frontends.                     *)
Begun ==
  main \in {"args", "affinity", "starting"} =>
    frontendCount = 0 /\ unflushed = {} /\ \A f \in Frontend : handler[f] = "none"

(* Every handler was counted.                                                *)
Counted == IsFiniteSet(Handlers) /\ Cardinality(Handlers) <= frontendCount

BackendInv == TypeOK /\ UnflushedStaysOpen /\ Types /\ Owned /\ Begun /\ Counted

-----------------------------------------------------------------------------
(* The parts of the invariant about objects: rings have pages within their   *)
(* limit, and a file with unflushed writes is open.                          *)
Accounted ==
  /\ DOMAIN pages = Rings /\ \A r \in Rings : pages[r] \in 0 .. MAX_PGRANTS_PER_FRONTEND
  /\ \A path \in unflushed : Open(path)

(* However the owners change: the rings that are left keep their pages, and  *)
(* a file that is closed was flushed.                                        *)
LEMMA OwnersProperties ==
  ASSUME TypeOK, UnflushedStaysOpen, NEW image, NEW ring, NEW rings, Owners(image, ring, rings)
  PROVE  Accounted' /\ unflushed' \subseteq unflushed
<1>1. Rings' = RingsOf(ring, rings) /\ Images' = ImagesOf(image, ring, rings)
  BY DEF Owners, Rings, Images, RingsOf, ImagesOf
<1>2. pages' = [r \in Rings' |-> IF r \in DOMAIN pages THEN pages[r] ELSE 0]
  BY <1>1 DEF Owners
<1>3. \A r \in Rings' : pages'[r] \in 0 .. MAX_PGRANTS_PER_FRONTEND
  BY <1>2, Limits DEF TypeOK
<1>4. ASSUME NEW path \in unflushed'
      PROVE  path \in unflushed /\ Open(path)'
  <2>1. path \in unflushed /\ path \notin {params[o[1]] : o \in Images \ Images'}
    BY <1>1, <1>4 DEF Owners
  <2>2. PICK o \in Images : params[o[1]] = path
    BY <2>1 DEF UnflushedStaysOpen, Open
  <2>3. o \in Images'
    BY <2>1, <2>2
  <2>4. QED
    BY <2>1, <2>2, <2>3 DEF Open
<1>5. QED
  BY <1>2, <1>3, <1>4 DEF Accounted

(* A handler that is not new keeps the count of handlers within bounds.      *)
LEMMA CountedKept ==
  ASSUME Counted, Handlers' \subseteq Handlers, frontendCount' = frontendCount, frontendCount \in Nat
  PROVE  Counted'
<1>1. IsFiniteSet(Handlers') /\ Cardinality(Handlers') <= Cardinality(Handlers)
  BY FS_Subset DEF Counted
<1>2. Cardinality(Handlers') \in Nat /\ Cardinality(Handlers) \in Nat
  BY <1>1, FS_CardinalityType DEF Counted
<1>3. QED
  BY <1>1, <1>2 DEF Counted

(* The invariant holds before main does anything.                            *)
LEMMA BackendInit == Init => BackendInv
<1> SUFFICES ASSUME Init PROVE BackendInv
  OBVIOUS
<1>1. Rings = {}
  BY DEF Init, Rings, RingsOf
<1>2. TypeOK /\ UnflushedStaysOpen
  BY <1>1, Limits DEF Init, TypeOK, UnflushedStaysOpen
<1>3. Handlers = {}
  BY DEF Init, Handlers
<1>4. Counted
  BY <1>3, FS_EmptySet DEF Init, Counted
<1>5. QED
  BY <1>2, <1>4, Limits DEF Init, BackendInv, Types, Owned, Begun, Position

-----------------------------------------------------------------------------
(* Nothing changes owners.                                                   *)
LEMMA ObjectsKept ==
  ASSUME TypeOK, UnflushedStaysOpen, UNCHANGED objects
  PROVE  Accounted'
<1>1. Rings' = Rings /\ Images' = Images
  BY DEF objects, Rings, Images, RingsOf, ImagesOf
<1>2. QED
  BY <1>1 DEF objects, Accounted, TypeOK, UnflushedStaysOpen, Open

(* main's steps and the signal.                                              *)
LEMMA MainSteps ==
  ASSUME BackendInv, Main \/ Signal
  PROVE  BackendInv'
<1>1. ASSUME NEW here, NEW there, Goes(here, there), there \subseteq {"affinity", "terminated", "starting",
               "started", "blocked", "waiting", "stopping", "stopped", "killed", "returned"},
             "returned" \in there => here \in {"args", "affinity", "starting"},
             "starting" \in there => here = "affinity",
             "affinity" \in there => here = "args"
      PROVE  BackendInv'
  <2>1. Accounted'
    BY <1>1, ObjectsKept DEF Goes, BackendInv
  <2>2. Counted'
    BY <1>1, CountedKept, Limits DEF Goes, BackendInv, TypeOK, Handlers, Counted
  <2>3. main' \in there /\ main = here /\ UNCHANGED <<frontendCount, handler, mImage, mCmdRingBuffer, mRingBuffers, pages, unflushed, binds, refused>>
    BY <1>1 DEF Goes, objects
  <2>4. TypeOK' /\ UnflushedStaysOpen'
    BY <1>1, <2>1, <2>3 DEF BackendInv, TypeOK, UnflushedStaysOpen, Accounted, Ended, Begun
  <2>5. Types' /\ Owned' /\ Begun'
    BY <1>1, <2>3 DEF BackendInv, Types, Owned, Begun
  <2>6. QED
    BY <2>2, <2>4, <2>5 DEF BackendInv
<1>2. CASE ParseArgs \/ SetAffinity \/ Start \/ WaitSignals \/ Signal \/ Stop
  BY <1>1, <1>2 DEF ParseArgs, SetAffinity, Start, WaitSignals, Signal, Stop
<1>3. CASE Return
  <2> DEFINE zero == [f \in Frontend |-> 0]
             none == [f \in Frontend |-> {}]
  <2>1. main' = "returned" /\ handler' = [f \in Frontend |-> "none"]
        /\ Owners(zero, zero, none) /\ UNCHANGED <<frontendCount, binds, refused>>
    BY <1>3 DEF Return
  <2>2. Accounted'
    BY <2>1, OwnersProperties DEF Accounted, BackendInv
  <2>3. mImage' = zero /\ mCmdRingBuffer' = zero /\ mRingBuffers' = none
    BY <2>1 DEF Owners
  <2>4. Images' = {}
    BY <2>3 DEF Images, ImagesOf, RingsOf
  <2>5. unflushed' = {}
    BY <2>2, <2>4 DEF Accounted, Open
  <2>6. Counted'
    <3>1. Handlers' = {}
      BY <2>1 DEF Handlers
    <3>2. QED
      BY <2>1, <3>1, CountedKept, Limits DEF BackendInv, TypeOK
  <2>7. TypeOK' /\ UnflushedStaysOpen'
    BY <2>1, <2>2, <2>3, <2>5 DEF BackendInv, TypeOK, Types, UnflushedStaysOpen, Accounted, Ended
  <2>8. Types' /\ Owned' /\ Begun'
    BY <2>1, <2>3 DEF BackendInv, Types, Owned, Begun, Position
  <2>9. QED
    BY <2>6, <2>7, <2>8 DEF BackendInv
<1>4. QED
  BY <1>2, <1>3 DEF Main

(* A handler goes on without changing what it owns.                          *)
LEMMA MovesSteps ==
  ASSUME BackendInv, NEW f \in Frontend, NEW here \in Position, NEW there \in Position, Moves(f, here, there),
         \/ here = "idle" /\ there = "open" /\ binds[f] < MaxBinds
         \/ here = "open" /\ there = "publish"
         \/ here = "publish" /\ there = "ring"
         \/ here \in {"idle", "publish", "ring", "bound"} /\ there = "closing"
  PROVE  BackendInv'
<1>1. /\ handler[f] = here /\ handler' = [handler EXCEPT ![f] = there]
      /\ UNCHANGED <<main, frontendCount, mImage, mCmdRingBuffer, mRingBuffers, pages, unflushed, binds, refused>>
      /\ main \in {"started", "blocked", "waiting", "stopping"}
  BY DEF Moves, Go, Live, Serving, objects
<1>2. Accounted'
  BY <1>1, ObjectsKept DEF BackendInv, objects
<1>3. Counted'
  <2>1. Handlers' \subseteq Handlers
    BY <1>1 DEF Handlers, BackendInv, Types
  <2>2. QED
    BY <1>1, <2>1, CountedKept, Limits DEF BackendInv, TypeOK
<1>4. TypeOK' /\ UnflushedStaysOpen'
  BY <1>1, <1>2 DEF BackendInv, TypeOK, Types, UnflushedStaysOpen, Accounted
<1>5. Types' /\ Owned' /\ Begun'
  BY <1>1 DEF BackendInv, Types, Owned, Begun
<1>6. QED
  BY <1>3, <1>4, <1>5 DEF BackendInv

(* A handler goes on and changes what it owns: OwnsNext is what that may be.  *)
OwnsNext(f, there, image, ring, rings) ==
  /\ image \in 0 .. binds'[f] /\ (there = "none" => image = 0)
  /\ ring \in {0, binds'[f]} /\ rings \subseteq {binds'[f]}
  /\ there \in {"none", "idle", "open", "publish", "ring", "closed"} => ring = 0
  /\ there \in {"none", "idle", "open", "publish", "ring", "add", "released"} => rings = {}
  /\ there = "add" => ring = binds'[f]
  /\ there # "open"

LEMMA OwnersSteps ==
  ASSUME BackendInv, NEW f \in Frontend, NEW there \in Position, NEW image \in Nat, NEW ring \in Nat, NEW rings \in SUBSET Nat,
         Live, handler[f] # "none", Go(f, there),
         Owners([mImage EXCEPT ![f] = image], [mCmdRingBuffer EXCEPT ![f] = ring], [mRingBuffers EXCEPT ![f] = rings]),
         OwnsNext(f, there, image, ring, rings),
         \/ binds' = binds
         \/ binds[f] < MaxBinds /\ binds' = [binds EXCEPT ![f] = @ + 1],
         UNCHANGED <<main, frontendCount, refused>>
  PROVE  BackendInv'
<1>1. /\ handler' = [handler EXCEPT ![f] = there]
      /\ main \in {"started", "blocked", "waiting", "stopping"}
  BY DEF Go, Live, Serving
<1>2. Accounted' /\ unflushed' \subseteq unflushed
  BY OwnersProperties DEF BackendInv
<1>3. /\ mImage' = [mImage EXCEPT ![f] = image]
      /\ mCmdRingBuffer' = [mCmdRingBuffer EXCEPT ![f] = ring]
      /\ mRingBuffers' = [mRingBuffers EXCEPT ![f] = rings]
  BY DEF Owners
<1>4. Types'
  <2>1. binds' \in [Frontend -> 0 .. MaxBinds] /\ \A g \in Frontend : binds[g] <= binds'[g] /\ (g # f => binds'[g] = binds[g])
    BY Limits DEF BackendInv, Types
  <2>2. QED
    BY <1>1, <1>3, <2>1 DEF BackendInv, Types
<1>5. ASSUME NEW g \in Frontend, g # f
      PROVE  /\ handler'[g] = handler[g] /\ mImage'[g] = mImage[g] /\ mCmdRingBuffer'[g] = mCmdRingBuffer[g]
             /\ mRingBuffers'[g] = mRingBuffers[g] /\ binds'[g] = binds[g]
  BY <1>1, <1>3, <1>5 DEF BackendInv, Types
<1>6. handler'[f] = there /\ mImage'[f] = image /\ mCmdRingBuffer'[f] = ring /\ mRingBuffers'[f] = rings
  BY <1>1, <1>3 DEF BackendInv, Types
<1>7. Owned'
  BY ZenonT(40), <1>5, <1>6 DEF BackendInv, Owned, OwnsNext
<1>8. TypeOK'
  <2>1. ASSUME NEW g \in Frontend
        PROVE  /\ {mImage'[g], mCmdRingBuffer'[g]} \cup mRingBuffers'[g] \subseteq 0 .. binds'[g]
               /\ handler'[g] = "none" => mImage'[g] = 0
    <3>1. CASE g = f
      <4>1. binds'[f] \in Nat
        BY <1>4, Limits DEF Types
      <4>2. 0 \in 0 .. binds'[f] /\ binds'[f] \in 0 .. binds'[f]
        BY <4>1
      <4>3. {image, ring} \cup rings \subseteq 0 .. binds'[f] /\ (there = "none" => image = 0)
        BY <4>2 DEF OwnsNext
      <4>4. QED
        BY <1>6, <3>1, <4>3
    <3>2. CASE g # f
      BY <1>5, <3>2 DEF BackendInv, TypeOK
    <3>3. QED
      BY <3>1, <3>2
  <2>2. QED
    BY <1>1, <1>2, <2>1 DEF BackendInv, TypeOK, Accounted
<1>9. Counted'
  <2>1. Handlers' \subseteq Handlers
    BY <1>1 DEF Handlers, BackendInv, Types
  <2>2. QED
    BY <2>1, CountedKept, Limits DEF BackendInv, TypeOK
<1>10. UnflushedStaysOpen' /\ Begun'
  BY <1>1, <1>2 DEF Accounted, UnflushedStaysOpen, Begun
<1>11. QED
  BY <1>4, <1>7, <1>8, <1>9, <1>10 DEF BackendInv

(* A new frontend is counted, or refused.                                    *)
LEMMA NewFrontendStep ==
  ASSUME BackendInv, NEW f \in Frontend, OnNewFrontend(f)
  PROVE  BackendInv'
<1>1. /\ main \in {"started", "blocked", "waiting"} /\ handler[f] = "none"
      /\ UNCHANGED <<main, mImage, mCmdRingBuffer, mRingBuffers, pages, unflushed, binds>>
  BY DEF OnNewFrontend, Serving, objects
<1>2. Accounted'
  BY <1>1, ObjectsKept DEF BackendInv, objects
<1>3. CASE UNCHANGED <<frontendCount, handler>>
  <2>1. Counted'
    BY <1>3 DEF BackendInv, Counted, Handlers
  <2>2. QED
    BY <1>1, <1>2, <1>3, <2>1 DEF BackendInv, TypeOK, UnflushedStaysOpen, Accounted, Types, Owned, Begun
<1>4. CASE /\ ~FrontendsFull
           /\ frontendCount' = frontendCount + 1
           /\ (Go(f, "idle") \/ UNCHANGED handler)
  <2>1. frontendCount \in Nat /\ frontendCount' \in 0 .. MAX_FRONTENDS
    BY <1>4, Limits DEF BackendInv, TypeOK, FrontendsFull
  <2>2. Handlers' \subseteq Handlers \cup {f}
    BY <1>4 DEF Go, Handlers, BackendInv, Types
  <2>3. Counted'
    <3>1. /\ IsFiniteSet(Handlers \cup {f})
          /\ Cardinality(Handlers \cup {f}) <= Cardinality(Handlers) + 1
      <4>1. IsFiniteSet(Handlers) /\ Cardinality(Handlers) \in Nat
        BY FS_CardinalityType DEF BackendInv, Counted
      <4>2. f \notin Handlers
        BY <1>1 DEF Handlers
      <4>3. IsFiniteSet(Handlers \cup {f}) /\ Cardinality(Handlers \cup {f}) = Cardinality(Handlers) + 1
        BY <4>1, <4>2, FS_AddElement
      <4>4. QED
        BY <4>1, <4>3
    <3>2. IsFiniteSet(Handlers') /\ Cardinality(Handlers') <= Cardinality(Handlers \cup {f})
      BY <2>2, <3>1, FS_Subset
    <3>3. Cardinality(Handlers') \in Nat /\ Cardinality(Handlers \cup {f}) \in Nat /\ Cardinality(Handlers) \in Nat
      BY <3>1, <3>2, FS_CardinalityType DEF BackendInv, Counted
    <3>4. QED
      BY <1>4, <2>1, <3>1, <3>2, <3>3 DEF BackendInv, Counted
  <2>4. handler' \in [Frontend -> Position] /\ \A g \in Frontend : handler'[g] = handler[g] \/ (g = f /\ handler'[g] = "idle")
    BY <1>4 DEF Go, BackendInv, Types, Position
  <2>5. QED
    BY <1>1, <1>2, <1>4, <2>1, <2>3, <2>4 DEF BackendInv, TypeOK, UnflushedStaysOpen, Accounted, Types, Owned, Begun
<1>5. QED
  BY <1>3, <1>4 DEF OnNewFrontend

(* A request changes the pages of its ring and its image's file only.        *)
LEMMA RequestStep ==
  ASSUME BackendInv, NEW r \in Rings, ProcessRequest(r)
  PROVE  BackendInv'
<1>1. /\ UNCHANGED <<main, frontendCount, handler, mImage, mCmdRingBuffer, mRingBuffers, binds, refused>>
      /\ main \in {"started", "blocked", "waiting", "stopping"}
  BY DEF ProcessRequest, Live, Serving
<1>2. Rings' = Rings /\ Images' = Images /\ r \in Images
  BY <1>1 DEF Rings, Images, RingsOf, ImagesOf
<1>3. Accounted'
  <2>1. DOMAIN pages' = Rings' /\ \A q \in Rings' : pages'[q] \in 0 .. MAX_PGRANTS_PER_FRONTEND
    BY <1>2 DEF ProcessRequest, BackendInv, TypeOK
  <2>2. \A path \in unflushed' : path \in unflushed \/ path = params[r[1]]
    BY DEF ProcessRequest
  <2>3. \A path \in unflushed' : Open(path)'
    BY <1>2, <2>2 DEF BackendInv, UnflushedStaysOpen, Open
  <2>4. QED
    BY <2>1, <2>3 DEF Accounted
<1>4. Counted'
  BY <1>1 DEF BackendInv, Counted, Handlers
<1>5. QED
  BY <1>1, <1>3, <1>4 DEF BackendInv, TypeOK, UnflushedStaysOpen, Accounted, Types, Owned, Begun

(* An image that cannot be used ends the process.                            *)
LEMMA TerminateStep ==
  ASSUME BackendInv, Live, main' = "terminated", UNCHANGED <<frontendCount, handler, objects, binds, refused>>
  PROVE  BackendInv'
<1>1. /\ UNCHANGED <<frontendCount, handler, mImage, mCmdRingBuffer, mRingBuffers, pages, unflushed, binds, refused>>
      /\ main \in {"started", "blocked", "waiting", "stopping"}
  BY DEF Live, Serving, objects
<1>2. Accounted'
  BY ObjectsKept DEF BackendInv
<1>3. Counted'
  BY <1>1 DEF BackendInv, Counted, Handlers
<1>4. QED
  BY <1>1, <1>2, <1>3 DEF BackendInv, TypeOK, UnflushedStaysOpen, Accounted, Types, Owned, Begun, Ended

(* The callbacks of a handler.                                               *)
LEMMA HandlerSteps ==
  ASSUME BackendInv, NEW f \in Frontend,
         ReadParams(f) \/ Callback(f) \/ Close(f) \/ RemoveHandler(f)
  PROVE  BackendInv'
<1>1. /\ mImage[f] \in Nat /\ mCmdRingBuffer[f] \in Nat /\ mRingBuffers[f] \in SUBSET Nat
      /\ binds[f] \in Nat /\ binds[f] + 1 \in Nat /\ 0 \in Nat /\ {} \in SUBSET Nat
      /\ mImage[f] \in 0 .. binds[f]
      /\ mImage = [mImage EXCEPT ![f] = mImage[f]]
      /\ mCmdRingBuffer = [mCmdRingBuffer EXCEPT ![f] = mCmdRingBuffer[f]]
      /\ mRingBuffers = [mRingBuffers EXCEPT ![f] = mRingBuffers[f]]
  BY Limits DEF BackendInv, TypeOK, Types
<1>2. /\ mCmdRingBuffer[f] \in {0, binds[f]} /\ mRingBuffers[f] \subseteq {binds[f]}
      /\ handler[f] \in {"open", "publish", "ring", "closed"} => mCmdRingBuffer[f] = 0
      /\ handler[f] \in {"open", "publish", "ring", "add", "released"} => mRingBuffers[f] = {}
      /\ handler[f] = "add" => mCmdRingBuffer[f] = binds[f]
      /\ handler[f] = "open" => binds[f] < MaxBinds
  BY DEF BackendInv, Owned
<1>3. /\ "idle" \in Position /\ "open" \in Position /\ "publish" \in Position /\ "ring" \in Position
      /\ "add" \in Position /\ "bound" \in Position /\ "closing" \in Position /\ "released" \in Position
      /\ "closed" \in Position /\ "none" \in Position
  BY DEF Position
<1>4. CASE ReadParams(f) \/ Publish(f) \/ Close(f)
  BY <1>3, <1>4, MovesSteps DEF ReadParams, Publish, Close, Proceed
<1>5. CASE OpenImage(f)
  <2>1. CASE Owners([mImage EXCEPT ![f] = binds[f] + 1], mCmdRingBuffer, mRingBuffers) /\ Go(f, "publish") /\ UNCHANGED main
             /\ binds' = [binds EXCEPT ![f] = @ + 1]
    <3>1. Live /\ handler[f] = "open" /\ UNCHANGED <<main, frontendCount, refused>>
      BY <1>5, <2>1 DEF OpenImage
    <3>2. Owners([mImage EXCEPT ![f] = binds[f] + 1], [mCmdRingBuffer EXCEPT ![f] = 0], [mRingBuffers EXCEPT ![f] = {}])
      BY <1>1, <1>2, <2>1, <3>1
    <3>3. binds'[f] = binds[f] + 1
      BY <2>1 DEF BackendInv, Types
    <3>4. OwnsNext(f, "publish", binds[f] + 1, 0, {})
      BY <1>1, <3>3 DEF OwnsNext
    <3>5. QED
      BY <1>1, <1>2, <1>3, <2>1, <3>1, <3>2, <3>4, OwnersSteps
  <2>2. CASE main' = "terminated" /\ UNCHANGED <<handler, objects, binds>>
    BY <1>5, <2>2, TerminateStep DEF OpenImage
  <2>3. QED
    BY <1>5, <2>1, <2>2 DEF OpenImage
<1>6. CASE CreateRing(f)
  <2>1. CASE Owners(mImage, [mCmdRingBuffer EXCEPT ![f] = binds[f]], mRingBuffers) /\ Go(f, "add")
    <3>1. Live /\ handler[f] = "ring" /\ UNCHANGED <<main, frontendCount, binds, refused>>
      BY <1>6, <2>1 DEF CreateRing
    <3>2. OwnsNext(f, "add", mImage[f], binds[f], {})
      BY <1>1, <3>1 DEF OwnsNext
    <3>3. Owners([mImage EXCEPT ![f] = mImage[f]], [mCmdRingBuffer EXCEPT ![f] = binds[f]], [mRingBuffers EXCEPT ![f] = {}])
      BY <1>1, <1>2, <2>1, <3>1
    <3>4. QED
      BY <1>1, <1>3, <2>1, <3>1, <3>2, <3>3, OwnersSteps
  <2>2. CASE UNCHANGED objects /\ Go(f, "closing")
    <3>1. Moves(f, "ring", "closing")
      BY <1>6, <2>2 DEF CreateRing, Moves
    <3>2. QED
      BY <1>3, <3>1, MovesSteps
  <2>3. QED
    BY <1>6, <2>1, <2>2 DEF CreateRing
<1>7. CASE AddRingBuffer(f)
  <2>1. /\ Live /\ handler[f] = "add" /\ UNCHANGED <<main, frontendCount, binds, refused>>
        /\ Go(f, "bound") \/ Go(f, "closing")
    BY <1>7 DEF AddRingBuffer
  <2>2. Owners([mImage EXCEPT ![f] = mImage[f]], [mCmdRingBuffer EXCEPT ![f] = mCmdRingBuffer[f]],
               [mRingBuffers EXCEPT ![f] = {binds[f]}])
    <3>1. mRingBuffers[f] \cup {mCmdRingBuffer[f]} = {binds[f]}
      BY <1>2, <2>1
    <3>2. QED
      BY <1>1, <1>7, <3>1 DEF AddRingBuffer
  <2>3. ASSUME NEW there \in {"bound", "closing"}
        PROVE  OwnsNext(f, there, mImage[f], mCmdRingBuffer[f], {binds[f]})
    BY <1>1, <1>2, <2>1 DEF OwnsNext
  <2>4. {binds[f]} \in SUBSET Nat
    BY <1>1
  <2>5. QED
    BY <1>1, <1>3, <2>1, <2>2, <2>3, <2>4, OwnersSteps
<1>8. CASE OnClosing(f)
  <2>1. /\ Live /\ handler[f] \in {"closing", "released"} /\ UNCHANGED <<main, frontendCount, binds, refused>>
        /\ Go(f, IF handler[f] = "closing" THEN "closed" ELSE "idle")
    BY <1>8 DEF OnClosing, After
  <2>2. Owners([mImage EXCEPT ![f] = mImage[f]], [mCmdRingBuffer EXCEPT ![f] = 0],
               [mRingBuffers EXCEPT ![f] = mRingBuffers[f]])
    BY <1>1, <1>8 DEF OnClosing
  <2>3. OwnsNext(f, IF handler[f] = "closing" THEN "closed" ELSE "idle", mImage[f], 0, mRingBuffers[f])
    BY <1>1, <1>2, <2>1 DEF OwnsNext
  <2>4. (IF handler[f] = "closing" THEN "closed" ELSE "idle") \in Position
    BY <1>3
  <2>5. QED
    BY <1>1, <2>1, <2>2, <2>3, <2>4, OwnersSteps
<1>9. CASE ReleaseRings(f)
  <2>1. /\ Live /\ handler[f] \in {"closing", "closed"} /\ UNCHANGED <<main, frontendCount, binds, refused>>
        /\ Go(f, IF handler[f] = "closing" THEN "released" ELSE "idle")
    BY <1>9 DEF ReleaseRings, After
  <2>2. Owners([mImage EXCEPT ![f] = mImage[f]], [mCmdRingBuffer EXCEPT ![f] = mCmdRingBuffer[f]],
               [mRingBuffers EXCEPT ![f] = {}])
    BY <1>1, <1>9 DEF ReleaseRings
  <2>3. OwnsNext(f, IF handler[f] = "closing" THEN "released" ELSE "idle", mImage[f], mCmdRingBuffer[f], {})
    BY <1>1, <1>2, <2>1 DEF OwnsNext
  <2>4. (IF handler[f] = "closing" THEN "released" ELSE "idle") \in Position
    BY <1>3
  <2>5. QED
    BY <1>1, <2>1, <2>2, <2>3, <2>4, OwnersSteps
<1>10. CASE RemoveHandler(f)
  <2>1. /\ Live /\ handler[f] = "idle" /\ UNCHANGED <<main, frontendCount, binds, refused>> /\ Go(f, "none")
        /\ Owners([mImage EXCEPT ![f] = 0], [mCmdRingBuffer EXCEPT ![f] = 0], [mRingBuffers EXCEPT ![f] = {}])
    BY <1>10 DEF RemoveHandler, Live
  <2>2. OwnsNext(f, "none", 0, 0, {})
    BY <1>1, <2>1 DEF OwnsNext
  <2>3. QED
    BY <1>1, <1>3, <2>1, <2>2, OwnersSteps
<1>11. QED
  BY <1>4, <1>5, <1>6, <1>7, <1>8, <1>9, <1>10 DEF Callback

(* Every step keeps the invariant.                                           *)
LEMMA BackendStep == BackendInv /\ [Next]_vars => BackendInv'
<1> SUFFICES ASSUME BackendInv, [Next]_vars PROVE BackendInv'
  OBVIOUS
<1>1. CASE Main \/ Signal
  BY <1>1, MainSteps
<1>2. ASSUME NEW f \in Frontend, OnNewFrontend(f) PROVE BackendInv'
  BY <1>2, NewFrontendStep
<1>3. ASSUME NEW f \in Frontend, ReadParams(f) \/ Callback(f) \/ Close(f) \/ RemoveHandler(f)
      PROVE  BackendInv'
  BY <1>3, HandlerSteps
<1>4. ASSUME NEW r \in Rings, ProcessRequest(r) PROVE BackendInv'
  BY <1>4, RequestStep
<1>5. CASE UNCHANGED vars
  <2>1. UNCHANGED <<main, frontendCount, handler, mImage, mCmdRingBuffer, mRingBuffers, pages, unflushed, binds, refused>>
    BY <1>5 DEF vars, objects
  <2>2. Rings' = Rings /\ Images' = Images
    BY <2>1 DEF Rings, Images, RingsOf, ImagesOf
  <2>3. QED
    BY <2>1, <2>2 DEF BackendInv, TypeOK, UnflushedStaysOpen, Open, Types, Owned, Begun, Counted, Handlers, Ended
<1>6. QED
  BY <1>1, <1>2, <1>3, <1>4, <1>5 DEF Next

(* The invariant of the backend, from which the properties below follow.     *)
THEOREM BackendCorrect == Spec => []BackendInv
<1>1. QED
  BY BackendInit, BackendStep, PTL DEF Spec

(* The variables keep their types, and every ring and image that exists was  *)
(* made by a bind that happened.                                             *)
THEOREM BackendTypeCorrect == Spec => []TypeOK
<1>1. BackendInv => TypeOK
  BY DEF BackendInv
<1>2. QED
  BY <1>1, BackendCorrect, PTL

(* When a frontend has been closed, no ring of it keeps its pages mapped,    *)
(* in whichever order onClosing and the library let go of it.                *)
THEOREM ClosedCorrect == Spec => []ClosedLeavesNoRing
<1>1. BackendInv => ClosedLeavesNoRing
  <2> SUFFICES ASSUME BackendInv, NEW f \in Frontend, handler[f] \in {"none", "idle"},
                      NEW r \in Rings, r[1] = f
               PROVE  FALSE
    BY DEF ClosedLeavesNoRing
  <2>1. mCmdRingBuffer[f] = 0 /\ mRingBuffers[f] = {}
    BY DEF BackendInv, Owned
  <2>2. r[2] \in 1 .. MaxBinds
    BY DEF Rings, RingsOf
  <2>3. QED
    BY <2>1, <2>2, Limits DEF Rings, RingsOf
<1>2. QED
  BY <1>1, BackendCorrect, PTL

(* No file is closed with writes that no flush has followed, and a main that *)
(* returns has flushed them all.                                             *)
THEOREM FlushedCorrect == Spec => []UnflushedStaysOpen
<1>1. BackendInv => UnflushedStaysOpen
  BY DEF BackendInv
<1>2. QED
  BY <1>1, BackendCorrect, PTL

-----------------------------------------------------------------------------
(* The two factors of MAX_PGRANTS bound what is mapped: there are at most    *)
(* MAX_FRONTENDS rings, and none has more than MAX_PGRANTS_PER_FRONTEND      *)
(* pages.                                                                    *)
RingsBounded ==
  /\ IsFiniteSet(Rings) /\ Cardinality(Rings) <= MAX_FRONTENDS
  /\ \A r \in Rings : pages[r] \in 0 .. MAX_PGRANTS_PER_FRONTEND

(* Never are there more rings than frontends may be accepted, although a     *)
(* ring may outlive onClosing and a frontend may bind again and again.       *)
LEMMA RingsCounted == BackendInv => RingsBounded
<1> SUFFICES ASSUME BackendInv PROVE RingsBounded
  OBVIOUS
<1> DEFINE owner == [r \in Rings |-> r[1]]
<1>1. ASSUME NEW r \in Rings
      PROVE  r[1] \in Handlers /\ r = <<r[1], binds[r[1]]>>
  <2>1. r \in Frontend \X (1 .. MaxBinds) /\ (mCmdRingBuffer[r[1]] = r[2] \/ r[2] \in mRingBuffers[r[1]])
    BY DEF Rings, RingsOf
  <2>2. r[2] # 0 /\ r = <<r[1], r[2]>>
    BY <2>1, Limits
  <2>3. r[2] = binds[r[1]] /\ handler[r[1]] # "none"
    BY <2>1, <2>2 DEF BackendInv, Owned
  <2>4. QED
    BY <2>1, <2>2, <2>3 DEF Handlers
<1>2. owner \in Injection(Rings, Handlers)
  BY <1>1 DEF Injection, IsInjective
<1>3. IsFiniteSet(Rings) /\ Cardinality(Rings) <= Cardinality(Handlers)
  BY <1>2, FS_Injection DEF BackendInv, Counted
<1>4. Cardinality(Rings) \in Nat /\ Cardinality(Handlers) \in Nat
  BY <1>3, FS_CardinalityType DEF BackendInv, Counted
<1>5. QED
  BY <1>3, <1>4, Limits DEF BackendInv, TypeOK, Counted, RingsBounded

(* The pages all rings have mapped are within what MAX_PGRANTS promises.     *)
THEOREM GrantsCorrect == Spec => []GrantsBounded
<1>1. RingsBounded => GrantsBounded
  <2> SUFFICES ASSUME RingsBounded PROVE GrantsBounded
    OBVIOUS
  <2> DEFINE Shares == Rings \X (1 .. MAX_PGRANTS_PER_FRONTEND)
  <2>1. MAX_FRONTENDS \in Nat /\ MAX_PGRANTS_PER_FRONTEND \in Nat
    BY Limits
  <2>2. IsFiniteSet(1 .. MAX_PGRANTS_PER_FRONTEND)
        /\ Cardinality(1 .. MAX_PGRANTS_PER_FRONTEND) = MAX_PGRANTS_PER_FRONTEND
    BY <2>1, FS_Interval
  <2>3. IsFiniteSet(Rings) /\ Cardinality(Rings) \in Nat /\ Cardinality(Rings) <= MAX_FRONTENDS
    BY FS_CardinalityType DEF RingsBounded
  <2>4. IsFiniteSet(Shares) /\ Cardinality(Shares) = Cardinality(Rings) * MAX_PGRANTS_PER_FRONTEND
    BY <2>2, <2>3, FS_Product
  <2>5. MappedPages \subseteq Shares
    <3>1. ASSUME NEW r \in Rings PROVE {r} \X (1 .. pages[r]) \subseteq Shares
      <4>1. 1 .. pages[r] \subseteq 1 .. MAX_PGRANTS_PER_FRONTEND
        BY <2>1 DEF RingsBounded
      <4>2. QED
        BY <4>1
    <3>2. QED
      BY <3>1 DEF MappedPages
  <2>6. Cardinality(MappedPages) <= Cardinality(Shares)
    BY <2>4, <2>5, FS_Subset
  <2>7. Cardinality(MappedPages) \in Nat /\ Cardinality(Shares) \in Nat
    BY <2>4, <2>5, FS_Subset, FS_CardinalityType
  <2>8. Cardinality(Rings) * MAX_PGRANTS_PER_FRONTEND <= MAX_FRONTENDS * MAX_PGRANTS_PER_FRONTEND
    BY <2>1, <2>3
  <2>9. QED
    BY <2>1, <2>4, <2>6, <2>7, <2>8 DEF GrantsBounded, MAX_PGRANTS
<1>2. QED
  BY <1>1, RingsCounted, BackendCorrect, PTL
=============================================================================
