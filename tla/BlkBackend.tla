------------------------------ MODULE BlkBackend ------------------------------
(***************************************************************************)
(* The backend's frontends and what they own (BlkBackend.cpp): handlers     *)
(* come and go, each binds an image and a ring and closes again, while the  *)
(* rings' threads serve requests and main waits for the signal that stops   *)
(* it all.  Rings and images are shared objects: a ring belongs to its      *)
(* handler and to libxenbe, an image to the handler and to the ring, and    *)
(* the destructor runs when the last owner lets go.                         *)
(*                                                                          *)
(* libxenbe calls onNewFrontend from one thread and the callbacks of each   *)
(* handler from another.  An exception in a callback closes the frontend;   *)
(* a throw with no exception to throw again ends the process.               *)
(***************************************************************************)
EXTENDS Integers, FiniteSets

CONSTANTS
  Frontend,
  Path,
  params,       \* frontend -> the image file XenStore names for it
  Unreliable,   \* files that may be missing, or refused, when they are opened
  EXCLUSIVE,    \* whether an open file cannot be opened again (Windows, share mode 0)
  MAX_FRONTENDS,             \* 8 in the code
  MAX_PGRANTS_PER_FRONTEND,  \* 1024 in the code
  MaxBinds      \* bound: how often a frontend binds

ASSUME Params == params \in [Frontend -> Path] /\ Unreliable \subseteq Path /\ EXCLUSIVE \in BOOLEAN
ASSUME Limits == {MAX_FRONTENDS, MAX_PGRANTS_PER_FRONTEND, MaxBinds} \subseteq Nat

VARIABLES
  main,            \* where main is
  frontendCount,
  handler,         \* where each frontend's handler is, or "none"
  mImage,          \* handler -> the bind that opened its image, or 0
  mCmdRingBuffer,  \* handler -> the bind that made its ring, or 0
  mRingBuffers,    \* libxenbe: handler -> the rings it was given
  binds,           \* names objects: how often a frontend has bound
  pages,           \* ring -> how many pages it has mapped
  unflushed,       \* files with writes that no flush has followed
  refused          \* history: frontends the last call for which was refused

objects == <<mImage, mCmdRingBuffer, mRingBuffers, pages, unflushed>>
vars == <<main, frontendCount, handler, objects, binds, refused>>

(* Rings and images are named <<f, b>>: made by the b-th bind of f.  A ring  *)
(* made by a bind uses the image opened by it.                               *)
RingsOf(ring, rings) ==
  {r \in Frontend \X (1 .. MaxBinds) : ring[r[1]] = r[2] \/ r[2] \in rings[r[1]]}
ImagesOf(image, ring, rings) ==
  {o \in Frontend \X (1 .. MaxBinds) : image[o[1]] = o[2]} \cup RingsOf(ring, rings)

Rings == RingsOf(mCmdRingBuffer, mRingBuffers)
Images == ImagesOf(mImage, mCmdRingBuffer, mRingBuffers)
Open(path) == \E o \in Images : params[o[1]] = path

(* Mutant: the image is closed without a flush. *)
OwnersForgetful(image, ring, rings) ==
  /\ mImage' = image /\ mCmdRingBuffer' = ring /\ mRingBuffers' = rings
  /\ pages' = [r \in RingsOf(ring, rings) |-> IF r \in DOMAIN pages THEN pages[r] ELSE 0]
  /\ UNCHANGED unflushed

(* The owners change.  A ring without an owner unmaps its pages and lets go  *)
(* of its image; an image without an owner is flushed and closed.            *)
Owners(image, ring, rings) ==
  /\ mImage' = image /\ mCmdRingBuffer' = ring /\ mRingBuffers' = rings
  /\ pages' = [r \in RingsOf(ring, rings) |-> IF r \in DOMAIN pages THEN pages[r] ELSE 0]
  /\ unflushed' = unflushed \ {params[o[1]] : o \in Images \ ImagesOf(image, ring, rings)}

Init ==
  /\ main = "args"
  /\ frontendCount = 0
  /\ handler = [f \in Frontend |-> "none"]
  /\ mImage = [f \in Frontend |-> 0]
  /\ mCmdRingBuffer = [f \in Frontend |-> 0]
  /\ mRingBuffers = [f \in Frontend |-> {}]
  /\ binds = [f \in Frontend |-> 0]
  /\ pages = [r \in {} |-> 0]
  /\ unflushed = {}
  /\ refused = {}

-----------------------------------------------------------------------------
(* The steps of main, or from Start on the worker of the Windows service. *)
Ended == main \in {"returned", "killed", "terminated"}
Serving == main \in {"started", "blocked", "waiting"}

Goes(here, there) ==
  /\ main = here /\ main' \in there
  /\ UNCHANGED <<frontendCount, handler, objects, binds, refused>>

(* Help was asked for, or the options are wrong: the process is done. *)
ParseArgs == Goes("args", {"affinity", "returned"})

(* A processor that is not there ends the process with a throw. *)
SetAffinity == Goes("affinity", {"starting", "terminated"})

(* Creating and starting the backend; an exception ends main at once. *)
Start == Goes("starting", {"started", "returned"})

(* waitSignals blocks the signals and waits for one.  *)
WaitSignals == Goes("started", {"blocked"}) \/ Goes("blocked", {"waiting"})

(* A signal that comes earlier kills the process: it is not blocked yet, or  *)
(* not in the threads of the library, which are older.                       *)
Signal ==
  \/ Goes("started", {"killed"}) \/ Goes("blocked", {"killed"})
  \/ Goes("waiting", {"stopping"})

AtRest(f) == handler[f] \in {"none", "idle", "bound"}

(* stop waits for the library's threads. *)
Stop ==
  /\ \A f \in Frontend : AtRest(f)
  /\ Goes("stopping", {"stopped"})

(* The destructor of blkBackend. *)
Return ==
  /\ main = "stopped"
  /\ main' = "returned"
  /\ handler' = [f \in Frontend |-> "none"]
  /\ Owners([f \in Frontend |-> 0], [f \in Frontend |-> 0], [f \in Frontend |-> {}])
  /\ UNCHANGED <<frontendCount, binds, refused>>

Main == ParseArgs \/ SetAffinity \/ Start \/ WaitSignals \/ Stop \/ Return

-----------------------------------------------------------------------------
Live == Serving \/ main = "stopping"
Go(f, there) == handler' = [handler EXCEPT ![f] = there]

(* A step of f's handler that only goes on, or throws an exception. *)
Moves(f, here, there) ==
  /\ Live
  /\ handler[f] = here /\ Go(f, there)
  /\ UNCHANGED <<main, frontendCount, objects, binds, refused>>

Proceed(f, here, there) == Moves(f, here, there) \/ Moves(f, here, "closing")

(* Mutant: one frontend too many. *)
FrontendsFullLate == frontendCount > MAX_FRONTENDS

FrontendsFull == frontendCount >= MAX_FRONTENDS

(* The handler's constructor may throw, after the frontend was counted. *)
OnNewFrontend(f) ==
  /\ Serving /\ handler[f] = "none"
  /\ \/ /\ FrontendsFull
        /\ refused' = refused \cup {f}
        /\ UNCHANGED <<frontendCount, handler>>
     \/ /\ ~FrontendsFull
        /\ frontendCount' = frontendCount + 1
        /\ refused' = refused \ {f}
        /\ Go(f, "idle") \/ UNCHANGED handler
  /\ UNCHANGED <<main, objects, binds>>

(* onBind: ring reference, event channel and path are read ... *)
ReadParams(f) ==
  /\ Serving /\ binds[f] < MaxBinds
  /\ Proceed(f, "idle", "open")

(* Whether a sound file can be opened. *)
Opens(path) == EXCLUSIVE => ~Open(path)

(* ... the image is opened, and only then replaces the one mImage holds ... *)
OpenImage(f) ==
  /\ Live
  /\ handler[f] = "open"
  /\ \/ /\ Opens(params[f])
        /\ binds' = [binds EXCEPT ![f] = @ + 1]
        /\ Owners([mImage EXCEPT ![f] = binds[f] + 1], mCmdRingBuffer, mRingBuffers)
        /\ Go(f, "publish")
        /\ UNCHANGED main
     \/ /\ params[f] \in Unreliable \/ ~Opens(params[f])
        /\ main' = "terminated"
        /\ UNCHANGED <<handler, objects, binds>>
  /\ UNCHANGED <<frontendCount, refused>>

(* ... features and size are written ... *)
Publish(f) == Proceed(f, "publish", "ring")

(* Mutant: a ring waits until no other ring uses its image. *)
CreateRingAlone(f) ==
  /\ Live
  /\ handler[f] = "ring"
  /\ \A r \in Rings : params[r[1]] # params[f]
  /\ Owners(mImage, [mCmdRingBuffer EXCEPT ![f] = binds[f]], mRingBuffers)
  /\ Go(f, "add")
  /\ UNCHANGED <<main, frontendCount, binds, refused>>

(* ... the ring is created, which may throw, and replaces an older one ... *)
CreateRing(f) ==
  /\ Live
  /\ handler[f] = "ring"
  /\ \/ /\ Owners(mImage, [mCmdRingBuffer EXCEPT ![f] = binds[f]], mRingBuffers)
        /\ Go(f, "add")
     \/ /\ UNCHANGED objects
        /\ Go(f, "closing")
  /\ UNCHANGED <<main, frontendCount, binds, refused>>

(* ... and given to the library, which starts its thread. *)
AddRingBuffer(f) ==
  /\ Live
  /\ handler[f] = "add"
  /\ Owners(mImage, mCmdRingBuffer, [mRingBuffers EXCEPT ![f] = @ \cup {mCmdRingBuffer[f]}])
  /\ Go(f, "bound") \/ Go(f, "closing")
  /\ UNCHANGED <<main, frontendCount, binds, refused>>

(* The frontend closes. *)
Close(f) == Serving /\ Moves(f, "bound", "closing")

(* The library calls onClosing and lets go of its rings, in either order;    *)
(* then the handler can bind again.                                          *)
After(f, done) == IF handler[f] = "closing" THEN done ELSE "idle"

(* Mutant: the ring stays. *)
OnClosingNothing(f) ==
  \E here \in {"closing", "released"} : Moves(f, here, After(f, "closed"))

OnClosing(f) ==
  /\ Live
  /\ handler[f] \in {"closing", "released"}
  /\ Owners(mImage, [mCmdRingBuffer EXCEPT ![f] = 0], mRingBuffers)
  /\ Go(f, After(f, "closed"))
  /\ UNCHANGED <<main, frontendCount, binds, refused>>

ReleaseRings(f) ==
  /\ Live
  /\ handler[f] \in {"closing", "closed"}
  /\ Owners(mImage, mCmdRingBuffer, [mRingBuffers EXCEPT ![f] = {}])
  /\ Go(f, After(f, "released"))
  /\ UNCHANGED <<main, frontendCount, binds, refused>>

(* The frontend is gone for good, and its handler with it. *)
RemoveHandler(f) ==
  /\ Serving /\ handler[f] = "idle"
  /\ Go(f, "none")
  /\ Owners([mImage EXCEPT ![f] = 0], [mCmdRingBuffer EXCEPT ![f] = 0],
            [mRingBuffers EXCEPT ![f] = {}])
  /\ UNCHANGED <<main, frontendCount, binds, refused>>

Callback(f) ==
  \/ OpenImage(f) \/ Publish(f) \/ CreateRing(f) \/ AddRingBuffer(f)
  \/ OnClosing(f) \/ ReleaseRings(f)

-----------------------------------------------------------------------------
(* A request on a ring whose thread runs: it maps pages within the limit of  *)
(* the cache, writes, or flushes.                                            *)
ProcessRequest(r) ==
  /\ Live
  /\ r[2] \in mRingBuffers[r[1]]
  /\ \E n \in 0 .. MAX_PGRANTS_PER_FRONTEND : pages' = [pages EXCEPT ![r] = n]
  /\ unflushed' \in {unflushed, unflushed \cup {params[r[1]]}, unflushed \ {params[r[1]]}}
  /\ UNCHANGED <<main, frontendCount, handler, mImage, mCmdRingBuffer, mRingBuffers, binds, refused>>

Next ==
  \/ Main \/ Signal
  \/ \E f \in Frontend :
       OnNewFrontend(f) \/ ReadParams(f) \/ Callback(f) \/ Close(f) \/ RemoveHandler(f)
  \/ \E r \in Rings : ProcessRequest(r)

Spec == Init /\ [][Next]_vars

(* main, once it is woken, and the callbacks that have begun are scheduled. *)
FairSpec == Spec /\ WF_vars(Stop \/ Return) /\ \A f \in Frontend : WF_vars(Callback(f))

-----------------------------------------------------------------------------
(* The variables have their types; every object was made by a bind.          *)
TypeOK ==
  /\ main \in {"args", "affinity", "starting", "started", "blocked", "waiting", "stopping", "stopped"} \/ Ended
  /\ frontendCount \in 0 .. MAX_FRONTENDS
  /\ \A f \in Frontend : {mImage[f], mCmdRingBuffer[f]} \cup mRingBuffers[f] \subseteq 0 .. binds[f]
  /\ \A f \in Frontend : handler[f] = "none" => mImage[f] = 0
  /\ DOMAIN pages = Rings /\ \A r \in Rings : pages[r] \in 0 .. MAX_PGRANTS_PER_FRONTEND

(* No more grants are mapped at any time than MAX_PGRANTS, for all frontends *)
(* together, whatever handlers were created, removed, bound and closed, and  *)
(* although a ring may outlive onClosing.                                    *)
MAX_PGRANTS == MAX_FRONTENDS * MAX_PGRANTS_PER_FRONTEND
MappedPages == UNION {{r} \X (1 .. pages[r]) : r \in Rings}
GrantsBounded == Cardinality(MappedPages) <= MAX_PGRANTS

(* When a frontend has been closed, or its bind has failed, no ring of it is *)
(* left that would keep its pages mapped.                                    *)
ClosedLeavesNoRing ==
  \A f \in Frontend : handler[f] \in {"none", "idle"} => \A r \in Rings : r[1] # f

(* A file with writes that were not flushed is still open, so that its       *)
(* destructor will flush it: none is dropped on any path by which rings,     *)
(* images and handlers go away.  Hence a main that returns has flushed all.  *)
UnflushedStaysOpen ==
  /\ \A path \in unflushed : Open(path)
  /\ main = "returned" => unflushed = {}

(* Once a frontend was accepted, the process ends by a throw only for an     *)
(* image that cannot be used, in the bind that asks for it: with a sound     *)
(* file a frontend may bind, close and bind again.  Where an open file       *)
(* cannot be opened again, the image that onClosing left open prevents it.   *)
RebindingSurvives ==
  main = "terminated" /\ frontendCount > 0 =>
    \E f \in Frontend : handler[f] = "open" /\ params[f] \in Unreliable

(* MAX_FRONTENDS is chosen for the grants mapped at any given time           *)
(* (BlkBackend.cpp, lines 41 to 49): a frontend is refused only while that   *)
(* many handlers exist.                                                      *)
Handlers == {f \in Frontend : handler[f] # "none"}
RefusedOnlyWhenFull ==
  [][\A f \in refused' \ refused : Cardinality(Handlers) >= MAX_FRONTENDS]_vars

(* Once the signal has reached main, the process ends, whatever callbacks    *)
(* are under way.                                                            *)
StopEndsMain == main = "stopping" ~> Ended
=============================================================================
