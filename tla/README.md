# A TLA+ model of us-blkback

us-blkback is a user-space block backend for Xen: it serves a disk image to
guests that run a blkfront driver. This directory holds TLA+ modules of its
core and its surroundings, the TLC configurations that check them on small
instances, and TLAPS proofs of their safety properties and of a refinement for all
instances. Paths and line numbers refer to the repository's `src/`.

## The system

| component | state | operations | talks to |
|---|---|---|---|
| grant cache (`BlkCmdRingBuffer`, BlkBackend.cpp 97-154) | `mGntLru`, `mGntMap`, the mapped pages | `addGrant`, `mapGrant`, `evictGrants`, `freeGrants` | Xen's grant tables |
| request processing (BlkBackend.cpp 156-302) | the locals of `processRequest` and its handlers | read/write, indirect, flush, discard, others | grant cache, disk image, ring (libxenbe) |
| disk image (DiskImage.cpp) over a mapped file (MemoryMappedFile.h) | `mFile`, `mSectorCount`; the mapping and the medium under it | constructor, destructor, `readSectors`, `writeSectors`, `readSector`, `writeSector`, `discard`, `flushBackingFile` | the operating system's writeback |
| frontend lifecycle (BlkBackend.cpp 305-372) | `mCmdRingBuffer`, `mImage`, `frontendCount` | `onNewFrontend`, `onBind`, `onClosing` | XenStore, libxenbe |
| Windows service (Service.cpp) | `service_status`, `service_stop_event`, `stop_event_ready`, `blkback_thread` | `service_main`, `service_ctrl_handler`, `blkback_worker` | the service control manager (SCM) |
| arguments (Args.hpp) | `orig_argc`, `orig_argv` | `copyArgs`, `parseOrigArgs`, `freeArgs` | main and the worker |
| main, `waitSignals`, `set_affinity` | - | start and stop | all of the above |
| disk-image-util with `createBackingFile` | an ofstream and its buffer | writes an image file | the file system |
| disk-image-test, catch.hpp, build files | - | - | - |

A frontend puts requests on a ring in shared memory and notifies the backend.
libxenbe's thread for that ring calls `processRequest` for each. A request names
pages of the frontend by *grant references*; the backend maps a page when it
meets its reference for the first time and keeps it mapped (persistent grants).
Each segment of a request is a run of sectors of one page, copied to or from the
mapping of the image; the segments of an indirect request are themselves read
from pages of the frontend. A response goes back when all is done.

What is hard here:

* *The cache.* Three structures (list, index, mappings) change together over long
  sequences of hits, misses and evictions, and addresses taken from it are used
  while it changes. `handleIndirect` reads segments through a cached address while
  each segment may evict pages.
* *Failure half way.* Mapping can fail at any time, a range may lie outside the
  image; a request may be given up after part of it was done.
* *Crashes.* The image is a shared mapping: the operating system writes it back
  in any order, and only a flush makes writes durable, if the disk carries it out.
* *Bounds.* Sector numbers and lengths have 64 bits and come from the ring as they
  are; their sums wrap.
* *The service.* Four threads (main with the control handler on it,
  `service_main`, the worker, and the SCM outside) start, stop, wait for each
  other with timeouts and report to the SCM under a mutex.
* *Lifecycle.* Handlers, rings and images come and go in libxenbe's threads, have
  more than one owner, and an exception may leave them half made.
* *Files.* A stream holds bytes back until its destructor; a file may be created
  anew while it is mapped; some failures of the operating system are noticed one
  call late.

What makes each component correct:

* cache: index, list and mappings agree; a cached address reaches the page that
  its reference grants; never more pages than the limit; recently used pages stay.
* request processing: it is a block device (`BlockDevice`); every request is
  answered once and in order; nothing stays mapped when the ring goes.
* image: requests stay inside the file, as far as the sums do not wrap; a flush the
  disk carries out makes what was written durable.
* service: a stop control is accepted only when it can be served, is not lost, is
  answered, and nothing waits for ever.
* lifecycle: the rings of all frontends stay within the grants there are; no ring
  survives its frontend's end; what was written is flushed on every path; a
  frontend can come back; the process ends when it is told to.
* image file: an image that is served is whole and open, and a creation that
  reports success has written the file.

`PROJECT.json` lists the hazards one by one, with the line each bites at.

## Modules

| module | models |
|---|---|
| `GrantCache` | the cache, with the frontend's and Xen's side of the grants |
| `DiskImage` | the image, its mapping and its medium |
| `BlkRing` | extends both with the ring, its thread, and the frontend |
| `BlockDevice` | the abstract device `BlkRing` implements |
| `Service` | the Windows service with main, arguments, worker and SCM |
| `BlkBackend` | frontends, their handlers, rings and images, libxenbe's callbacks, and the console branch of main |
| `BackingFile` | an image file from its creation to the constructors and destructors that open and close it |
| `GrantCacheProofs`, `DiskImageProofs`, `BlkRingProofs`, `ServiceProofs`, `BlkBackendProofs`, `BackingFileProofs` | the theorems about each |
| `BlkDeviceProofs` | the proof that `BlkRing` implements `BlockDevice` |
| `MCGrantCache`, `MCDiskImage`, `MCBlkRing`, `MCService`, `MCBlkBackend`, `MCBackingFile` | the instances for TLC |

How they fit together: `BlkRing` is one ring in full, `BlkBackend` all of them from
outside. What `BlkBackend` takes a ring to be, a number of mapped pages that never
exceeds the limit and that is gone with the ring, is what `MappedBounded`
and `NothingMappedAfterRing` say of `GrantCache` and `BlkRing`; what it takes an
image to be, a file that is usable or not and whose flush leaves nothing unwritten,
is what `BackingFile` and `DiskImage` are about. `StopBackend` of `Service` is `Stop`
and `Return` of `BlkBackend`.

### GrantCache

`mGntLru` is the list, most recently used first; `mGntMap` maps a reference to
the node an iterator points to (list nodes do not move, and two nodes never have
the same address, so a node is the page it holds); `mapped` is what Xen has mapped
for the backend, `grants` what the frontend has granted. `AddGrant` is one call of
`addGrant`: a hit splices the node to the front; a miss evicts if the list has
`MAX_PGRANTS_PER_FRONTEND` pages, then maps, which may fail. `EvictGrants` is the
loop of `evictGrants` in one step: one ring has one thread, so nobody sees its
iterations. The branch of `mapGrant` for a reference that is already in the index
is kept in `MapGrant`; `addGrant` never reaches it.

External: a frontend may end a grant only while nobody has it mapped (that is how
the persistent-grant protocol, offered as `feature-persistent`, is used), and may
grant another page under the same reference after that. The code keeps grants for
every frontend, whether or not it announced persistent grants; a frontend that
ends grants which are in use is outside the model.

### DiskImage

`image` is the mapping, `medium` the file on disk. A sector holds one value.
`Writeback(s)` is the operating system, at any moment; `HostCrash` leaves the
medium. `expected` is a history variable: for each sector, the contents a user may
find after a crash, which is what it held at the last flush and everything written
since, if the disk carried that flush out. Whether it does is `disk_ok`, which changes
at any time (`DiskTurns`): the code looks at no result of `msync` and
`FlushViewOfFile`, and under Windows, where `FlushViewOfFile` does not wait for the
disk, `disk_ok` is whether the data happens to get there. `FlushFile` then leaves the
medium as it is and the caller is answered OKAY all the same. `Settle` is what the
user counts on afterwards; it is not part of `FlushFile`, so a caller that claims a
flush without making one breaks `Durable`.

The sums of sector numbers are taken modulo `WORD`, and callers pass any start and
length below it. The tests (`InImage`, `DiscardInImage`) therefore let pass some
requests that are not `Inside` the file. What the copy then touches is not part of
the image, and the model says nothing of it: `Strays` records start and length in
`stray`, and the behaviour ends there. `StraysOnlyWrapped` says which requests these
are, `Bounded` that reads and writes have none.

### BlkRing

One step of the thread is one of: `ProcessRequest` (take a request, the early
returns of its handler, and all of a flush, a discard and an unknown operation),
`AddIndirectPage`, `AddSegment` (the call of `addGrant` in `processSegment`),
`CopySegment` (the copy and the loops' bookkeeping), `SendResponse`. Between any
two the frontend, writeback, or a crash may act. `seg` and `buffer` are the
addresses kept across calls of the cache; `Segment` reads through `seg` as the code
does, so a page unmapped too early shows as an error of the evaluation as well as a
violation of `IndirectPagePinned`.

`Submit` takes any request of `Workload`, gives it the next id, and puts it on the
ring if its pages are granted. Sector numbers and segments are whatever the frontend
wrote: nothing compares a segment with its page (`validSegment` is never called) and
its length is an `uint32_t` that wraps (`NrSectors`). `StrayAccess` is the thread's
step when the image's test lets a segment or a discard pass that the image or the page
does not have; it sets `stray`, and from then on only responses already sent are
taken. `StraysOnlyUnvalidated` says when that can happen, with `ValidSegment`, a
translation of `validSegment`, as the measure of a segment. `Table` gives the segments
on the frontend's indirect pages, which do not change; a frontend changes them by
granting another page (`Regrants`). What the module assumes of its constants is in
`Requests` (a request has the references its number of segments calls for), `Pages`
and `RingSizes`. `DestroyRing` is `~BlkCmdRingBuffer` after libxenbe has stopped
the ring's thread between two requests; `Crash` takes the host and everything on it.

`BlockDevice` is what remains when cache, addresses, indirect pages and writeback
are taken away. The refinement maps each request to the *pages* its references
granted when it was made (`Named`): the ring to `Queue`, the request in work to
`Current`, the segments still to do to `Remaining`, the responses to `Replies`, and
`expected` to `settled`. `ImplementsDevice` therefore says that cached and evicted
addresses lead to the right pages, that segments are done in order at the right
sectors, that a failed request did exactly a prefix, that reads see the writes
before them, that a response is OKAY only when all was done, and that a crash undoes nothing that
a flush had settled. `disk_ok` is an input of both: a flush settles what was written
if the disk carries it out. An OKAY alone settles nothing, since the code does not look
at the result. The refinement covers a behaviour up to a stray access.

### Service

`at[t]` is where each thread is; each critical section of `service_mutex` and each
operation on the event is a step. `reported` is what the SCM saw last; it sends
`SERVICE_CONTROL_STOP` or `PRESHUTDOWN` (treated alike by the code) while the last
report accepts it. `SetServiceStatus` may fail `MaxFailures` times. A wait for the
worker may time out at any moment, since the backend takes as long as it takes;
`waited` counts waits of 200 ms from the start of each wait, and `longest_wait`
remembers the longest, for a handler that is called again starts anew. `orig_argv` follows copy and free. The dispatcher
returns when `STOPPED` was reported; main then frees the arguments and exits, which
ends every thread. `Terminate` is the other end: while there is a backend, the library
may have it open an image, and where that fails (DiskImage.cpp 15, 22 and 30,
MemoryMappedFile.h 36) `throw;` has no exception to throw again and the process is
gone, whatever was reported. `Gone` covers both. Both threads' handles may be closed while the handler still
waits; the wait then fails and returns, as `WaitForSingleObject` does.

### BlkBackend

`handler[f]` is where the handler of a frontend is: `none`, `idle`, in `onBind`
(`open`, `publish`, `ring`, `add`, each the next call that can fail), `bound`, or on
its way out (`closing`, `released`, `closed`). Rings and images are named by the bind
that made them. `mImage`, `mCmdRingBuffer` and libxenbe's `mRingBuffers` are the
shared pointers; `Owners` assigns them and runs the destructors of what has no owner
left: a ring unmaps its pages and lets go of its image, an image is flushed and its
file closed. `ProcessRequest` is a request seen from outside: it may map pages within
the limit, write, or flush. `unflushed` are files with writes no flush has followed
(mappings of one file share its pages, so a flush of one flushes all).

`OpenImage` constructs the new `DiskImage` before the assignment drops the old one;
if the constructor refuses, its `throw` has no exception to throw again and ends the
process (`terminated`). `EXCLUSIVE` says whether a file that is open can be opened
again: not under Windows (share mode 0), freely under Linux. Files in `Unreliable` may
be missing, or not what `DiskImage` accepts, each time they are opened. With every file
unreliable, as in the run `backend`, an open may be refused or succeed whatever else is
open, so what holds there holds of both systems.

External, as libxenbe is used: `onNewFrontend` comes from one thread; the callbacks
of a handler from another, one at a time; an exception in a callback closes the
frontend; closing calls `onClosing` and lets go of the library's rings in either
order; a frontend that goes for good takes its handler with it. `stop` joins these
threads. A signal is blocked only in main and only from `waitSignals` on: earlier it
ends the process (`killed`).

### BackingFile

One run of disk-image-util after another (`num_sectors`, `sector_size`, and `i`,
`buffered`, `rc` of `createBackingFile`), and a process that opens the file, uses
and closes it. A write fills the buffer, or pushes it, all or part; `CloseStream` is
the destructor's push. The constructors go call by call, because a creation may come
in between: `OpenFile`, `GetFileSize`, `MapFile` (where a size of 0 fails on both
systems, so that the first test of `DiskImage`'s constructor never does), `OpenImage`.
Under Linux a failed `open` goes on to `fstat`, as `m_fd < -1` never holds. Under
Windows a file that is open is opened by nobody else.

## What TLC checks

| run | instance | shows |
|---|---|---|
| `cache` | 4 pages, evicting 2; 5 references, 5 addresses, 3 frames; symmetry over frames and addresses | `CacheTypeOK`, `IndexExact`, `MappingsCached`, `Coherent`, `MappedBounded`, `RecentStayMapped` |
| `image` | 3 sectors, 3 contents, a word of 8; every start and length in a word (buffers up to one sector more than the file); a disk that may fail; symmetry over the contents that are not zero | `StraysOnlyWrapped` |
| `image_wrap` | as `image` | a finding below |
| `ring` | 2 requests of 6 kinds, an indirect page the frontend may exchange, writebacks, failing flushes and crashes anywhere | `IndirectPagePinned`, `NothingMappedAfterRing`, `Durable`, `ImplementsDevice`, `UsesCache` |
| `ring_errors` | 3 requests of 15 kinds that are refused, fail or stray, fair | `RingTypeOK`, `OnceInOrder`, `StraysOnlyUnvalidated`, `EveryRequestAnswered` |
| `service` | one failing report, worker may hang, fair | `TypeOK`, `AcceptingMeansStoppable`, `StopsOnlyAfterWait`, `ExitIsReported`, `NeverRunsAgain`, `StopIsReported`, `StopReachesWorker` |
| `service_grace`, `service_checkpoint` | as `service` | two findings below |
| `backend` | 3 frontends, 2 of them with one image; any file may be refused at any bind; a limit of 2 frontends, two binds each; fair | `TypeOK`, `GrantsBounded`, `ClosedLeavesNoRing`, `UnflushedStaysOpen`, `StopEndsMain` |
| `backend_exclusive` | 1 frontend, a sound image; Windows | a finding below |
| `backend_count` | as `backend` | a finding below |
| `file` | up to 4 sectors of 0 to 2 bytes, a buffer of 3, sectors of 2, 4 of them too many; both systems | `TypeOK`, `LossBounded`, `MappedIsUsable`, `MappedStaysWhole` |

**Bounds, and why they are enough.** In the ring runs the cache has three pages and
evicts one, against five references (three for data, two for indirect pages), so a
request of three segments on two indirect pages evicts in the middle, and so does
the next request. Pages have two sectors and the image four, so segments start in
the middle of a page, span a page, and run over the end of the image. Words of 8 or 16
for 2^64 and of 8 for 2^32 are larger than any sum of a file's sectors and small enough
that every start near the end of the word is tried. `DiskStates` has both values except
in `ring_errors`, whose properties do not look at the medium. An indirect
page holds two segments and a request three at most, so the second page is partly
filled: the code's numbers (256 segments, 512 to a page) need one page, but its
loop is written for more, and `MAX_INDIRECT_SEGMENTS` is meant to be tuned. What
the argument of `IndirectPagePinned` needs of the numbers is that the segments of a
page are fewer than the pages an eviction keeps (2 or fewer against 2 here, 256
against 972 in the code). Two or three requests suffice, because the thread works
on one at a time and carries nothing from one to the next but the cache and the
image, whose own runs and proofs do not bound the number of steps. `MaxRequests`
is the only bound on behaviours of the ring and `MaxFailures` the only one of the
service. `WAIT_LIMIT` is two waits instead of 50, `PRESHUTDOWN_WAITS` five instead
of 900: what matters is their order.

In the backend, three frontends against a limit of two are the fewest that reach the
limit with one left over, and two with one image the fewest that share one; a ring
maps no page or one, which is enough to tell a sum within the limit from one beyond
it. `MaxBinds` is two, because a second bind meets everything a first one left
behind and replaces it, so a third meets nothing new. Handlers may go and come back
as often as the count of frontends lets them. In the image file, the sizes give
files with no sector, with a rest, of the right kind and with too many sectors; the
buffer holds one sector and half of one, so a creation of four pushes in the middle
and holds bytes back at the end.

**Fairness.** `FairRingSpec`: the ring's event thread is scheduled, and the frontend
takes its responses; nothing is assumed of writeback, crashes or new requests.
`FairSpec` of the service: the operating system schedules main, the handler and
`service_main`. The worker is not assumed to get on there, because creating the
backend with `--wait` spins until the Xen interface appears and stopping it joins
libxenbe's threads; `StopReachesWorker`, the one property that needs it, assumes it.
The SCM is never forced to send a control. `FairSpec` of the backend: the callbacks
that have begun go on (libxenbe's threads are scheduled, and XenStore answers), and
main does once the signal has woken it; starting, binding, requests and the signal
are not forced. The service and backend runs switch off TLC's
deadlock check because the process exits.

**Findings.**

* `Bounded` does not hold: the tests ask that a sector the file does not have is refused
  ("Sector Read/Write is Bounded Correctly", disk-image-test.cpp 63 and 57-59), but the
  last sector is computed modulo 2^64 (DiskImage.cpp 100, 120, and the end of a discard
  in 138), so a request that ends past 2^64 passes. The tests try numbers whose sums do
  not wrap; `StraysOnlyWrapped` says that for those they are right.
* `WorkerHasThreeMinutes` (Service.cpp 267-273) does not hold: the handler gives up
  after `SERVICE_WAIT_HINT`, ten seconds, and reports `SERVICE_STOPPED`; main then
  returns from the dispatcher and exits, with the worker wherever it is.
* `CheckpointsWhilePending` does not hold: when reporting `RUNNING` fails,
  `service_status` keeps it, and the checkpoint in the wait that follows reports
  `RUNNING` with its stop controls while the service is being stopped. The code
  itself calls a checkpoint in such a state invalid (lines 170-185).
* `RebindingSurvives` does not hold under Windows: `onClosing` is to free what
  `onBind` allocated (BlkBackend.cpp 353) but keeps `mImage`; the next `onBind` opens
  the file while the old mapping still has it, exclusively, and the process ends.
  There the service is gone without a report (`Terminate` of `Service`).
* `RefusedOnlyWhenFull` does not hold: `frontendCount` counts the frontends there
  ever were, while `MAX_FRONTENDS` is chosen for the grants mapped at any given time.

Three things the runs bound rather than refute. A flush is answered OKAY although
nobody looked at its result: `Durable` and `ImplementsDevice` say what the flushes the
disk carried out have settled, and that an OKAY alone settles anything is not true.
`createBackingFile` returns 0 with bytes
left in the stream, whose last push may fail unseen: `LossBounded` says how much of the
file can be missing then, and that all of it is there is not true. `MappedStaysWhole`
is claimed of Windows only: under Linux nothing keeps a creation from truncating a
file that is mapped, and nothing in the repository says it does.

## What is proved

The theorems hold for every value of the constants that the modules' named
assumptions admit; TLC evaluates every assumption on some run. Each component has an
inductive invariant, `Init => Inv` and `Inv /\ [Next]_vars => Inv'` with one step per
action, and a theorem per property. TLC has checked each of these invariants on the
component's own runs before it was proved.

| theorem | says |
|---|---|
| `CacheCorrect`, and from it `CacheTypeCorrect`, `IndexCorrect`, `MappingsCorrect`, `CoherenceCorrect`, `BoundCorrect`, `EvictionCorrect` | `CacheInv`; the six properties of the cache |
| `ImageCorrect`: `StraysCorrect` | `ImageInv` (types, durability, bounds); which requests pass the bounds |
| `RingCorrect`: `RingTypeCorrect`, `PinnedCorrect`, `NothingMappedCorrect`, `RingDurableCorrect`, `StraysUnvalidatedCorrect`, `OnceInOrderCorrect` | `RingInv`; the safety properties of the ring |
| `UsesCacheCorrect` | the ring implements `CacheSpec` |
| `DeviceCorrect` | the ring implements `BlockDevice` |
| `ServiceCorrect`: `ServiceTypeCorrect`, `StopControlCorrect`, `WaitCorrect`, `ExitCorrect`, `StoppingCorrect` | `ServiceInv`; the safety properties of the service |
| `BackendCorrect`: `BackendTypeCorrect`, `GrantsCorrect`, `ClosedCorrect`, `FlushedCorrect` | `BackendInv`; the safety properties of the frontends |
| `FileCorrect`: `FileTypeCorrect`, `LossCorrect`, `UsableCorrect`, `WholeCorrect` | `FileInv`; the properties of an image file |

### The cache

For every set of references, frames and addresses, every `MAX_PGRANTS_PER_FRONTEND`
and every eviction size from 1 to that number less one (the source's
`static_assert`, line 72). `CacheInv` rests on `Consistent(c)`, a predicate on
the record `[lru, map, mapped]` the operations hand on, so that the eviction inside
`addGrant` and the mapping after it compose: `EvictConsistent`, `MapConsistent` and
`SpliceConsistent` each take a consistent record to a consistent one. None of the
checked properties is inductive alone: `Coherent` needs that an address is mapped
for one page only, that needs the addresses of the list to be distinct, and that the
index holds every page of the list is what lets a miss map without a second entry.
The bound holds with a test for *equality* because the length grows by one per step
and an eviction leaves room. `RecentStayMapped` follows from `EvictKeeps` and
`MapKeeps` (what the first `KeepSize` pages of a list lose: nothing).
`AddGrantProperties` states what a caller gets: the address returned is mapped for
the reference asked for and is at the front of the list.

### The image

`ImageInv` is `ImageTypeOK /\ Durable /\ StraysOnlyWrapped`. The lemmas take each helper
of the model (`StoreInImage`, `FlushInImage`, `WritebackInImage`, ...) from any image for
which types and durability hold to another, so that the ring, which calls the same
helpers, uses them too; `InImageIsInside` and `DiscardedIsInside` are the arithmetic of
the two bounds: a sum that passes and does not wrap is a request inside the file. Nothing is assumed of starts and
lengths but their 64 bits. Why the model halts at a stray access: the sectors it names
are not in the image, so there is no next image to state anything about, and the theorems
are about the behaviour up to that access and about which requests lead to it.

### The ring

`RingInv` is the cache's and the image's invariants and

* `Granted`: the references of every outstanding request stay granted, which is what
  lets a page named by a request be mapped and read at any time before the answer;
* `Waiting`: the ids the frontend waits for are consecutive, laid over the responses,
  the request in work and the ring, in this order; `OnceInOrder` is read off it;
* `ThreadTypes` and `Working`: how far the thread is, and that what it is at is part
  of the request: `segments_done` is whole pages of segments, `start_sector` at most
  what all segments before it can span;
* `Pinned`, the heart of `IndirectPagePinned`: the page of the segments is among the
  first `n + 1` of the list, `n + 2` once the current segment's page has been added,
  because its own `addGrant` put it first and every segment moves it back by one at
  most. An eviction keeps `KeepSize` pages, so it is kept as long as the segments of
  a page do not outnumber those. That is the assumption
  `minimum(SEGMENTS_PER_INDIRECT_PAGE, MAX_INDIRECT_SEGMENTS) <= KeepSize` in
  `RingSizes`: true of the code's numbers, 256 against 972, and asserted nowhere in
  the code, where both may be tuned.

`UsesCacheCorrect` shows the step of the cache in every step of the ring, so
everything proved of `CacheSpec` is true of the ring's cache.

### The refinement

`DeviceCorrect` is `RingSpec => ImplementsDevice`. `RingInv` and one more invariant,
`Serving` (what is moved piece by piece is a read or a write and has not failed), give:

| step of the ring | step of the device |
|---|---|
| `Submit` | `Submit`: the request's pages are those granted now |
| `ProcessRequest` | `Start`, of a flush, a discard and a refusal in full |
| `AddIndirectPage`, `AddSegment` | none, or `GiveUp` when mapping fails |
| `CopySegment` | `Move` of one piece, or `GiveUp` when it lies outside the image |
| `SendResponse` | `Reply` |
| `TakeResponse` | `TakeReply` |
| `DestroyRing`, `Crash` | `Disconnect` |
| writeback, a disk that turns, grants that come and go, `CreateRing`, `StrayAccess` | none |

The step that needs most is `CopySegment`: the device moves the first of `Remaining`,
from the page that the reference granted *when the request was made*, while the ring
follows `seg` to an indirect page and `buffer` to a data page, both taken from the
cache before. `Pinned` and `Coherent` say that both still lead to the pages their
references grant now, `Granted` with `NamedStays` that those are the pages named;
`PlaceOfSegment` (segment `j * s + k` is the `k`-th of page `j`), that the two loops of
`handleIndirect` visit the segments in order. Because the abstract
device's queue, `Remaining` and replies are sequences built from the ring's, `AppendOf`
and `TailOf` say when one is another with an element more at the end or less in front.

### The service

`ServiceInv` is `Positions` (where each thread can be), `Lifetimes` (who exists while
whom), `Created` (what `service_main` has made by then), `Reported` (what can have been
reported where it is) and `Waited` (STOPPED is about to be reported only after a full
wait or when the worker is done). `NeverRunsAgain` is an action property: it needs that
a report of a stop leaves `service_status` itself at a stop, since a later checkpoint
repeats whatever that record holds. Proved for every `WAIT_LIMIT` and every number of
failing reports.

### The frontends

`BackendInv` adds to the properties `Types`, `Owned` (a handler and libxenbe own rings
of its last bind only, none before one is made and none after both let go), `Begun` and
`Counted` (every handler was counted in `frontendCount`). `OwnersProperties` says what any
change of owners does to rings and files: the destructors that run flush what they
close. `GrantsBounded` follows because a ring's frontend has a handler and one ring at
most, so there are no more rings than `MAX_FRONTENDS`. All of this holds with and
without `EXCLUSIVE`.

### The image file

`FileInv` adds `Written` (what a creation that goes on has pushed or holds) and `Opened`
(a file an image is made of is open, and under Windows has no creation at work and keeps
its size). `WholeSectors` is the arithmetic: a length that is a multiple of the sector
size is its sectors, whole.

### What the proofs changed in the model

* Whether a stop waited long enough was once read off `waited`, which a handler that
  is called again resets: the invariant was not inductive, and `longest_wait` is what
  the property means.
* A discard that ends at 2^64 exactly wraps to 0 and passes, so `StraysOnlyWrapped` has
  `>=` where a reading of "past the end" suggests `>`.
* `INT_MAX > 0` and the bound on the segments of an indirect page are assumptions the
  code relies on without saying so; both are now named.
* `GrantsBounded` counts the mapped pages as a set instead of folding a sum, which
  only induction could reason about.

### What is only model-checked

Liveness: `EveryRequestAnswered`, `StopIsReported`, `StopReachesWorker` and
`StopEndsMain`; the proof system does not reason about fairness and `ENABLED`. The
properties of the runs that end in a violation are not theorems, of course: `Bounded`,
`WorkerHasThreeMinutes`, `CheckpointsWhilePending`, `RefusedOnlyWhenFull`, and
`RebindingSurvives` where files are opened exclusively.

## Not modelled, and why

* The texts and defaults of the options, priorities, and the log.
* What a stray access reads or overwrites, and what the process does after it.
* A ring's thread that still runs when the ring is destroyed: libxenbe stops it, and its
  source is not here.
* When the writes of a closed frontend reach the disk: its image stays open until the next
  bind, the end of the handler or the end of the process.
* `UnixMemoryMappedFile::size` (MemoryMappedFile.h 145) is not `const` and so does
  not override the abstract one, which leaves that class abstract and the program without
  a build on Linux, although README.md says it has one; what the modules say of Linux
  follows the class's evident intent, and no theorem is about that class alone.
* disk-image-test (sequential unit tests of single sectors) and build files.
* include/catch.hpp, the vendored Catch test framework. It is no part of the program
  but 17758 of the tree's 19543 lines of C++, so any share of lines taken over the
  whole tree stays small however much of the program is modelled.
* `readSector`: used by tests only, changes nothing.
* Data of a `WRITE_BARRIER` request: the code does not write it (lines 276-279)
  though it offers `feature-barrier`; the frontend of the model sends none.
* libxenbe, Xen, XenStore and the SCM appear as the callers and callees the code
  uses.

## Plan

The components of the program are modelled, and every safety property a passing run
checks is a theorem. What may still be added:

1. *What composition relies on*, as theorems between modules: that `BlkRing`'s image
   obeys `ImageSpec` (as `UsesCache` says of its cache), and that the ring
   `BlkBackend` takes for granted is the one `BlkRing` describes.
2. *Sharper counts*: the largest number of segments `IndirectPagePinned` allows for a
   given cache, as a lemma about `MAX_INDIRECT_SEGMENTS`.
3. *Answers to failed flushes*, once the code looks at the results: an OKAY then means
   that the data is on the disk, and `Settle` no longer depends on `disk_ok`.
