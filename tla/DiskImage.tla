------------------------------- MODULE DiskImage -------------------------------
(***************************************************************************)
(* DiskImage (DiskImage.cpp) over a MemoryMappedFile.  Reads and writes go  *)
(* to the mapping; the operating system writes pages of it back to the     *)
(* medium whenever it likes, and a flush asks it to write them all.  The    *)
(* medium is what a crash of the host leaves.                               *)
(*                                                                          *)
(* The bounds of a request are tested modulo 2^64, so the tests also let    *)
(* pass requests whose sectors the file does not have.  The access that     *)
(* then follows has no meaning in terms of the image: the model records its *)
(* sectors in stray and follows the process no further.                     *)
(*                                                                          *)
(* A sector's contents are one value, so a buffer of nr sectors is a        *)
(* function on 0 .. nr - 1.                                                 *)
(***************************************************************************)
EXTENDS Integers, Sequences

CONSTANTS
  SectorCount,  \* mSectorCount: the size of the file in sectors
  Content,      \* what a sector can hold
  Zero,         \* the contents of a sector filled with 0x00
  WORD,         \* 2^64: sector numbers are of type uint64_t
  DiskStates    \* bound: the values disk_ok takes, both on a disk that may fail

ASSUME ImageSize == SectorCount \in Nat \ {0} /\ WORD \in Nat /\ SectorCount < WORD
ASSUME ZeroIsContent == Zero \in Content
ASSUME DiskMayFail == DiskStates \subseteq BOOLEAN

VARIABLES
  image,    \* mFile->get(): the contents of the mapping
  medium,   \* the contents of the file on the host's disk
  expected, \* history: what a user may find in a sector after the host crashed
  disk_ok,  \* whether the disk carries out a flush, and the system waits for it
  stray     \* <<start_sector, nr_sectors>> of an access outside the image, or <<>>

contents == <<image, medium, expected, disk_ok>>
imageVars == <<contents, stray>>

Sector == 0 .. SectorCount - 1
Status == {"OKAY", "ERROR", "EOPNOTSUPP"}

ImageInit ==
  /\ image \in [Sector -> Content]
  /\ medium = image
  /\ expected = [s \in Sector |-> {image[s]}]
  /\ disk_ok \in DiskStates
  /\ stray = <<>>

-----------------------------------------------------------------------------
LastSector(start_sector, nr_sectors) == (start_sector + nr_sectors - 1) % WORD

(* Mutant: the sector after the last one passes. *)
InImageOrEnd(start_sector, nr_sectors) == LastSector(start_sector, nr_sectors) <= SectorCount

(* The test of readSectors and writeSectors, and that of discard. *)
InImage(start_sector, nr_sectors) == LastSector(start_sector, nr_sectors) < SectorCount
DiscardInImage(start_sector, nr_sectors) == (start_sector + nr_sectors) % WORD <= SectorCount

(* Whether the file has the sectors a request names. *)
Inside(start_sector, nr_sectors) == start_sector + nr_sectors <= SectorCount

(* readSectors, writeSectors or discard with sectors the file does not have, *)
(* which its test lets pass.                                                 *)
Strays(start_sector, nr_sectors) ==
  /\ InImage(start_sector, nr_sectors) \/ DiscardInImage(start_sector, nr_sectors)
  /\ ~Inside(start_sector, nr_sectors)
  /\ stray' = <<start_sector, nr_sectors>>
  /\ UNCHANGED contents

(* memcpy or memset to the mapping at start_sector. *)
Filled(start_sector, buffer) ==
  [s \in Sector |->
     IF s - start_sector \in DOMAIN buffer THEN buffer[s - start_sector] ELSE image[s]]

(* A write the user asked for: until the next flush a crash may or may not   *)
(* undo it.                                                                  *)
Store(start_sector, buffer) ==
  /\ image' = Filled(start_sector, buffer)
  /\ expected' = [s \in Sector |-> expected[s] \cup {image'[s]}]
  /\ UNCHANGED <<medium, disk_ok, stray>>

ReadBuffer(start_sector, nr_sectors) ==
  [o \in 0 .. nr_sectors - 1 |-> image[start_sector + o]]

WriteSectors(start_sector, buffer, nr_sectors, rc) ==
  \/ /\ InImage(start_sector, nr_sectors) /\ Inside(start_sector, nr_sectors)
     /\ rc = "OKAY"
     /\ Store(start_sector, buffer)
  \/ /\ ~InImage(start_sector, nr_sectors)
     /\ rc = "ERROR"
     /\ UNCHANGED imageVars

(* writeSector takes one sector in a vector, whose size it checks. *)
WriteSector(sector_number, sector, rc) ==
  \/ /\ DOMAIN sector = {0} /\ sector_number < SectorCount
     /\ rc = "OKAY"
     /\ Store(sector_number, sector)
  \/ /\ DOMAIN sector # {0} \/ sector_number >= SectorCount
     /\ rc = "ERROR"
     /\ UNCHANGED imageVars

Discard(start_sector, nr_sectors, rc) ==
  \/ /\ DiscardInImage(start_sector, nr_sectors) /\ Inside(start_sector, nr_sectors)
     /\ rc = "OKAY"
     /\ Store(start_sector, [o \in 0 .. nr_sectors - 1 |-> Zero])
  \/ /\ ~DiscardInImage(start_sector, nr_sectors)
     /\ rc = "ERROR"
     /\ UNCHANGED imageVars

(* msync(MS_SYNC) or FlushViewOfFile of the whole mapping.  The result is    *)
(* not looked at; FlushViewOfFile does not wait for the disk at all.         *)
FlushFile == medium' = IF disk_ok THEN image ELSE medium

(* flushBackingFile, and the destructor of DiskImage. *)
FlushBackingFile == FlushFile /\ UNCHANGED <<image, disk_ok, stray>>

(* A user who asked for a flush of a disk that carries it out counts on      *)
(* everything that was written before.                                       *)
Settle == expected' = IF disk_ok THEN [s \in Sector |-> {image[s]}] ELSE expected

(* The operating system writes a sector back. *)
Writeback(s) ==
  /\ medium[s] # image[s]
  /\ medium' = [medium EXCEPT ![s] = image[s]]
  /\ UNCHANGED <<image, expected, disk_ok, stray>>

(* The disk stops carrying out flushes, or does so again. *)
DiskTurns ==
  /\ disk_ok' \in DiskStates \ {disk_ok}
  /\ UNCHANGED <<image, medium, expected, stray>>

(* The host crashes; the file is mapped again after the reboot. *)
HostCrash ==
  /\ image' = medium
  /\ expected' = [s \in Sector |-> {medium[s]}]
  /\ UNCHANGED <<medium, disk_ok, stray>>

-----------------------------------------------------------------------------
(* The callers of the class, which may pass any numbers of type uint64_t. *)
ImageStep ==
  \/ \E start_sector \in 0 .. WORD - 1, nr_sectors \in 0 .. SectorCount + 1, rc \in Status :
       \E buffer \in [0 .. nr_sectors - 1 -> Content] :
         WriteSectors(start_sector, buffer, nr_sectors, rc)
  \/ \E start_sector \in 0 .. WORD - 1, nr_sectors \in 0 .. WORD - 1 :
       \/ \E rc \in Status : Discard(start_sector, nr_sectors, rc)
       \/ Strays(start_sector, nr_sectors)
  \/ \E sector_number \in 0 .. SectorCount, size \in 0 .. 2, rc \in Status :
       \E sector \in [0 .. size - 1 -> Content] : WriteSector(sector_number, sector, rc)
  \/ FlushBackingFile /\ Settle
  \/ \E s \in Sector : Writeback(s)
  \/ DiskTurns
  \/ HostCrash

ImageNext ==
  \/ stray = <<>> /\ ImageStep
  \/ stray # <<>> /\ UNCHANGED imageVars

ImageSpec == ImageInit /\ [][ImageNext]_imageVars

-----------------------------------------------------------------------------
(* The variables keep their types. *)
ImageTypeOK ==
  /\ image \in [Sector -> Content]
  /\ medium \in [Sector -> Content]
  /\ expected \in [Sector -> SUBSET Content]
  /\ disk_ok \in DiskStates
  /\ stray \in Seq(Nat)

(* Where the sum of start and length does not reach 2^64, the two tests let  *)
(* pass exactly the requests whose sectors the file has, at every boundary:  *)
(* length zero, the last sector, the inclusive bound of readSectors and      *)
(* writeSectors and the exclusive one of discard.                            *)
StraysOnlyWrapped == stray # <<>> => stray[1] + stray[2] >= WORD

(* "Sector Read/Write is Bounded Correctly" (disk-image-test.cpp:63): a      *)
(* read or a write of sectors the file does not have is refused.             *)
Bounded == stray # <<>> => ~InImage(stray[1], stray[2])

(* What was written before the last flush that the disk carried out is on    *)
(* the medium: a crash at any moment leaves each sector as it was at that    *)
(* flush or as a later write made it.                                        *)
Durable == \A s \in Sector : medium[s] \in expected[s] /\ image[s] \in expected[s]
=============================================================================
