------------------------------ MODULE BackingFile ------------------------------
(***************************************************************************)
(* An image file from its creation (disk-image-util, createBackingFile) to  *)
(* its use (the constructors and destructors of the mapped file and of      *)
(* DiskImage).  The two are processes of their own, or follow each other in *)
(* one; a file may be created anew while an image of it is open.            *)
(*                                                                          *)
(* createBackingFile writes through an ofstream: what it wrote may be in    *)
(* the stream's buffer, and only the destructor pushes the rest.  All sizes *)
(* are in bytes.  A throw with no exception to throw again ends the         *)
(* process.                                                                 *)
(***************************************************************************)
EXTENDS Integers

CONSTANTS
  NumSectors, SectorSize,  \* arguments of disk-image-util
  SECTOR_SIZE,             \* 512 in the code
  INT_MAX,
  BUFFER                   \* capacity of the stream's buffer

ASSUME Sizes ==
  /\ NumSectors \subseteq Nat /\ SectorSize \subseteq Nat
  /\ SECTOR_SIZE \in Nat \ {0} /\ INT_MAX \in Nat \ {0} /\ BUFFER \in Nat

VARIABLES
  win32,         \* which of the two systems this is
  size,          \* of the file, or Missing
  util,          \* where disk-image-util is
  num_sectors, sector_size,
  i,             \* sectors written
  buffered,      \* bytes in the stream's buffer
  rc,            \* what createBackingFile returned, or None
  image,         \* where the image is
  m_fd,          \* whether the file is open
  m_size,
  mSectorCount

creation == <<size, util, num_sectors, sector_size, i, buffered, rc>>
mapping == <<image, m_fd, m_size, mSectorCount>>
vars == <<win32, creation, mapping>>

Missing == -1
None == 1  \* no status: the call has not returned, or has thrown

Init ==
  /\ win32 \in BOOLEAN
  /\ size = Missing
  /\ util = "returned"
  /\ num_sectors = 0 /\ sector_size = 0 /\ i = 0 /\ buffered = 0
  /\ rc = None
  /\ image = "closed"
  /\ m_fd = FALSE /\ m_size = 0 /\ mSectorCount = 0

-----------------------------------------------------------------------------
(* Mutant: the file is opened with FILE_SHARE_READ and FILE_SHARE_WRITE. *)
SharedAnyway == TRUE

(* Who has the file open has it alone under Windows (share mode 0). *)
Shared == ~win32 \/ ~m_fd

(* main parses the numbers; the vector of one sector may not be allocated.   *)
(* The ofstream truncates the file, or is not opened and no write succeeds.  *)
CreateBackingFile ==
  /\ util = "returned"
  /\ num_sectors' \in NumSectors /\ sector_size' \in SectorSize
  /\ i' = 0 /\ buffered' = 0
  /\ \/ Shared /\ size' = 0 /\ util' = "writing" /\ rc' = None
     \/ UNCHANGED <<size, util>> /\ rc' = IF num_sectors' = 0 THEN 0 ELSE -1
     \/ UNCHANGED <<size, util>> /\ rc' = None
  /\ UNCHANGED <<win32, mapping>>

(* Pushing the buffer: all of it reaches the file, or less if that fails. *)
Push(bytes, ok) == size' \in IF ok THEN {size + bytes} ELSE size .. size + bytes

(* Mutant: a write that fails is not noticed. *)
WriteUnchecked ==
  /\ util = "writing" /\ i < num_sectors
  /\ \E ok \in BOOLEAN : Push(buffered + sector_size, ok)
  /\ i' = i + 1 /\ buffered' = 0
  /\ UNCHANGED <<util, num_sectors, sector_size, rc, win32, mapping>>

(* One round of the loop. *)
Write ==
  /\ util = "writing" /\ i < num_sectors
  /\ \/ /\ buffered + sector_size <= BUFFER
        /\ i' = i + 1 /\ buffered' = buffered + sector_size
        /\ UNCHANGED <<size, util, rc>>
     \/ /\ Push(buffered + sector_size, TRUE)
        /\ i' = i + 1 /\ buffered' = 0
        /\ UNCHANGED <<util, rc>>
     \/ /\ Push(buffered + sector_size, FALSE)
        /\ util' = "closing" /\ rc' = -1 /\ buffered' = 0
        /\ UNCHANGED i
  /\ UNCHANGED <<num_sectors, sector_size, win32, mapping>>

WriteLast ==
  /\ util = "writing" /\ i = num_sectors
  /\ util' = "closing" /\ rc' = 0
  /\ UNCHANGED <<size, num_sectors, sector_size, i, buffered, win32, mapping>>

(* The destructor of the stream, whose failure nobody sees. *)
CloseStream ==
  /\ util = "closing"
  /\ Push(buffered, FALSE)
  /\ util' = "returned" /\ buffered' = 0
  /\ UNCHANGED <<num_sectors, sector_size, i, rc, win32, mapping>>

-----------------------------------------------------------------------------
Terminate == image' = "terminated" /\ m_fd' = FALSE /\ UNCHANGED <<m_size, mSectorCount>>

(* open fails if the file is missing, for one; the test m_fd < -1 does not   *)
(* see it.                                                                   *)
OpenFile ==
  /\ image = "closed"
  /\ \/ /\ size # Missing /\ (win32 => util = "returned")
        /\ image' = "opened" /\ m_fd' = TRUE
        /\ UNCHANGED <<m_size, mSectorCount>>
     \/ win32 /\ Terminate
     \/ /\ ~win32
        /\ image' = "opened"
        /\ UNCHANGED <<m_fd, m_size, mSectorCount>>
  /\ UNCHANGED <<win32, creation>>

(* Mutant: a failed fstat goes unnoticed. *)
GetFileSizeUnchecked ==
  /\ image = "opened"
  /\ m_size' = (IF m_fd THEN size ELSE SECTOR_SIZE) /\ image' = "sized"
  /\ UNCHANGED <<m_fd, mSectorCount>>
  /\ UNCHANGED <<win32, creation>>

(* fstat or GetFileSizeEx, which fails without an open file. *)
GetFileSize ==
  /\ image = "opened"
  /\ \/ m_fd /\ m_size' = size /\ image' = "sized" /\ UNCHANGED <<m_fd, mSectorCount>>
     \/ Terminate
  /\ UNCHANGED <<win32, creation>>

(* mmap, or CreateFileMapping and MapViewOfFile: nothing of size 0 is mapped. *)
MapFile ==
  /\ image = "sized"
  /\ \/ m_size # 0 /\ image' = "mapped" /\ UNCHANGED <<m_fd, m_size, mSectorCount>>
     \/ Terminate
  /\ UNCHANGED <<win32, creation>>

(* Mutant: as many as INT_MAX sectors are accepted. *)
AcceptsIntMax(bytes) == bytes # 0 /\ bytes % SECTOR_SIZE = 0 /\ bytes \div SECTOR_SIZE <= INT_MAX

(* What the constructor of DiskImage takes for an image. *)
Accepts(bytes) == bytes # 0 /\ bytes % SECTOR_SIZE = 0 /\ bytes \div SECTOR_SIZE < INT_MAX

OpenImage ==
  /\ image = "mapped"
  /\ \/ /\ Accepts(m_size)
        /\ mSectorCount' = m_size \div SECTOR_SIZE
        /\ image' = "ready"
        /\ UNCHANGED <<m_fd, m_size>>
     \/ ~Accepts(m_size) /\ Terminate
  /\ UNCHANGED <<win32, creation>>

(* The destructors. *)
CloseImage ==
  /\ image = "ready"
  /\ image' = "closed" /\ m_fd' = FALSE /\ m_size' = 0 /\ mSectorCount' = 0
  /\ UNCHANGED <<win32, creation>>

Next ==
  \/ CreateBackingFile \/ Write \/ WriteLast \/ CloseStream
  \/ OpenFile \/ GetFileSize \/ MapFile \/ OpenImage \/ CloseImage

Spec == Init /\ [][Next]_vars

-----------------------------------------------------------------------------
(* The variables have their types, the buffer its capacity, and the sectors  *)
(* are so many that XenStore can hold the number as an int.                  *)
TypeOK ==
  /\ size \in Nat \cup {Missing} /\ rc \in {None, 0, -1}
  /\ num_sectors \in NumSectors \cup {0} /\ i \in 0 .. num_sectors
  /\ buffered \in 0 .. BUFFER
  /\ m_fd => image \in {"opened", "sized", "mapped", "ready"}
  /\ m_size \in Nat /\ mSectorCount \in 0 .. INT_MAX - 1

(* A creation that returned 0, as only one can whose writes all succeeded,   *)
(* may have lost bytes, but at most what the stream held back until its      *)
(* destructor ran.                                                           *)
LossBounded ==
  util = "returned" /\ rc = 0 /\ num_sectors > 0 =>
    size \in num_sectors * sector_size - BUFFER .. num_sectors * sector_size

(* An image that requests are served from has its file open, though open is  *)
(* not checked under Linux, and its sectors are the whole mapping: no sector *)
(* below mSectorCount lies outside of it, no byte of it after the last one.  *)
MappedIsUsable ==
  image = "ready" => m_fd /\ mSectorCount > 0 /\ mSectorCount * SECTOR_SIZE = m_size

(* Under Windows the file under an open image does not change its size: no   *)
(* creation truncates it, and none is under way when it is opened.           *)
MappedStaysWhole == win32 /\ image = "ready" => size = m_size /\ util = "returned"
=============================================================================
