------------------------------ MODULE BlockDevice ------------------------------
(***************************************************************************)
(* What a block backend promises its frontend, without a grant cache, a     *)
(* mapping or a page cache: a disk that takes requests in the order they    *)
(* were made, moves the pieces of each one in order between the disk and    *)
(* the pages the frontend named, and answers each once.  An answer is OKAY  *)
(* only if every piece was moved; a request that failed moved the pieces    *)
(* before the one that failed.  What was written before a flush survives a  *)
(* crash, if the disk carried out the flush.                                *)
(*                                                                          *)
(* A request is [id, operation, kind, sector, pieces, count]; a piece is a  *)
(* run of sectors [frame, first, nr] of a page, and count is for discard.   *)
(***************************************************************************)
EXTENDS Integers, SequencesExt

CONSTANTS Sector, Content, Zero, Idle

VARIABLES
  disk,       \* the contents of the disk
  settled,    \* sector -> what it may hold after a crash
  memory,     \* the pages of the frontend
  queue,      \* requests not yet started
  current,    \* the request being served, or Idle
  remaining,  \* its pieces that are still to be moved
  at,         \* the sector its next piece goes to
  failed,     \* whether it was given up
  replies,    \* answers the frontend has not taken
  disk_ok     \* an input: whether the disk carries out a flush now

device == <<disk, settled, memory, queue, current, remaining, at, failed, replies>>
work == <<current, remaining, at, failed>>

DeviceInit ==
  /\ settled = [s \in Sector |-> {disk[s]}]
  /\ queue = <<>> /\ replies = <<>>
  /\ current = Idle /\ remaining = <<>> /\ at = 0 /\ failed = FALSE

Submit ==
  /\ queue' # <<>> /\ Front(queue') = queue
  /\ UNCHANGED <<disk, settled, memory, work, replies>>

(* The sectors of buffer, placed from sector first on. *)
Put(first, buffer) ==
  /\ disk' = [s \in Sector |-> IF s - first \in DOMAIN buffer THEN buffer[s - first] ELSE disk[s]]
  /\ settled' = [s \in Sector |-> settled[s] \cup {disk'[s]}]

(* A request starts.  A flush or a discard is done at once; a request can be *)
(* refused at once.                                                          *)
Start ==
  /\ current = Idle /\ queue # <<>>
  /\ queue' = Tail(queue)
  /\ current' = Head(queue)
  /\ \/ /\ current'.kind \in {"read", "write"}
        /\ remaining' = current'.pieces /\ at' = current'.sector /\ failed' = FALSE
        /\ UNCHANGED <<disk, settled>>
     \/ /\ current'.kind = "flush"
        /\ remaining' = <<>> /\ at' = 0 /\ failed' = FALSE
        /\ settled' = IF disk_ok THEN [s \in Sector |-> {disk[s]}] ELSE settled
        /\ UNCHANGED disk
     \/ /\ current'.kind = "discard"
        /\ current'.sector + current'.count - 1 \in Sector \cup {current'.sector - 1}
        /\ remaining' = <<>> /\ at' = 0 /\ failed' = FALSE
        /\ Put(current'.sector, [o \in 0 .. current'.count - 1 |-> Zero])
     \/ /\ remaining' = <<>> /\ at' = 0 /\ failed' = TRUE
        /\ UNCHANGED <<disk, settled>>
  /\ UNCHANGED <<memory, replies>>

(* The next piece moves between the disk and its page. *)
Move ==
  /\ current # Idle /\ remaining # <<>>
  /\ LET p == Head(remaining)
         page == memory[p.frame]
     IN  /\ at .. at + p.nr - 1 \subseteq Sector
         /\ p.first .. p.first + p.nr - 1 \subseteq DOMAIN page
         /\ at' = at + p.nr
         /\ \/ /\ current.kind = "write"
               /\ Put(at, [o \in 0 .. p.nr - 1 |-> page[p.first + o]])
               /\ UNCHANGED memory
            \/ /\ current.kind = "read"
               /\ memory' = [memory EXCEPT ![p.frame] = [o \in DOMAIN page |->
                    IF o \in p.first .. p.first + p.nr - 1 THEN disk[at + o - p.first] ELSE page[o]]]
               /\ UNCHANGED <<disk, settled>>
  /\ remaining' = Tail(remaining)
  /\ UNCHANGED <<queue, current, failed, replies>>

GiveUp ==
  /\ current # Idle /\ remaining # <<>>
  /\ remaining' = <<>> /\ failed' = TRUE
  /\ UNCHANGED <<disk, settled, memory, queue, current, at, replies>>

Reply ==
  /\ current # Idle /\ remaining = <<>>
  /\ replies' = Append(replies, [id |-> current.id, operation |-> current.operation, ok |-> ~failed])
  /\ current' = Idle /\ at' = 0 /\ failed' = FALSE
  /\ UNCHANGED <<disk, settled, memory, queue, remaining>>

TakeReply ==
  /\ replies # <<>>
  /\ replies' = Tail(replies)
  /\ UNCHANGED <<disk, settled, memory, queue, work>>

(* The frontend goes away between two requests, or the host crashes. *)
Disconnect ==
  /\ queue' = <<>> /\ replies' = <<>>
  /\ UNCHANGED memory
  /\ current' = Idle /\ remaining' = <<>> /\ at' = 0 /\ failed' = FALSE
  /\ \/ /\ current = Idle
        /\ UNCHANGED <<disk, settled>>
     \/ /\ \A s \in Sector : disk'[s] \in settled[s]
        /\ settled' = [s \in Sector |-> {disk'[s]}]

DeviceNext ==
  Submit \/ Start \/ Move \/ GiveUp \/ Reply \/ TakeReply \/ Disconnect

DeviceSpec == DeviceInit /\ [][DeviceNext]_device
=============================================================================
