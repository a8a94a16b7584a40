---------------------------- MODULE DiskImageProofs ----------------------------
(* The properties of DiskImage, proved for files of every size.              *)
EXTENDS DiskImage, TLAPS

-----------------------------------------------------------------------------
(* The tests of a request: what does not wrap around and passes one of them  *)
(* is in the file.                                                           *)
LEMMA InImageIsInside ==
  ASSUME NEW start_sector \in Nat, NEW nr_sectors \in Nat,
         start_sector + nr_sectors < WORD,
         InImage(start_sector, nr_sectors)
  PROVE  Inside(start_sector, nr_sectors)
<1>1. CASE start_sector + nr_sectors = 0
  BY <1>1, ImageSize DEF Inside
<1>2. CASE start_sector + nr_sectors # 0
  <2>1. start_sector + nr_sectors - 1 \in 0 .. WORD - 1
    BY <1>2, ImageSize
  <2>2. (start_sector + nr_sectors - 1) % WORD = start_sector + nr_sectors - 1
    BY <2>1, ImageSize
  <2>3. QED
    BY <2>2, ImageSize DEF InImage, LastSector, Inside
<1>3. QED
  BY <1>1, <1>2

(* The same for a discard.                                                   *)
LEMMA DiscardedIsInside ==
  ASSUME NEW start_sector \in Nat, NEW nr_sectors \in Nat,
         start_sector + nr_sectors < WORD,
         DiscardInImage(start_sector, nr_sectors)
  PROVE  Inside(start_sector, nr_sectors)
<1>1. (start_sector + nr_sectors) % WORD = start_sector + nr_sectors
  BY ImageSize
<1>2. QED
  BY <1>1 DEF DiscardInImage, Inside

(* The sectors of a request that is in the file are the file's.              *)
LEMMA InsideSectors ==
  ASSUME NEW start_sector \in Nat, NEW nr_sectors \in Nat, Inside(start_sector, nr_sectors)
  PROVE  \A o \in 0 .. nr_sectors - 1 : start_sector + o \in Sector
  BY ImageSize DEF Inside, Sector

(* A write to sectors of the file keeps types, and what a crash may find.    *)
LEMMA StoreInImage ==
  ASSUME ImageTypeOK, Durable,
         NEW start_sector \in Nat, NEW nr_sectors \in Nat,
         NEW buffer \in [0 .. nr_sectors - 1 -> Content],
         Store(start_sector, buffer)
  PROVE  ImageTypeOK' /\ Durable'
<1>1. image' \in [Sector -> Content]
  BY DEF Store, Filled, ImageTypeOK
<1>2. /\ expected' = [s \in Sector |-> expected[s] \cup {image'[s]}]
      /\ medium' = medium /\ disk_ok' = disk_ok /\ stray' = stray
  BY DEF Store
<1>3. QED
  BY <1>1, <1>2 DEF ImageTypeOK, Durable

(* A flush keeps them, and so do the next three.                             *)
LEMMA FlushInImage ==
  ASSUME ImageTypeOK, Durable, FlushBackingFile, Settle
  PROVE  ImageTypeOK' /\ Durable'
<1>1. CASE disk_ok
  BY <1>1 DEF FlushBackingFile, FlushFile, Settle, ImageTypeOK, Durable
<1>2. CASE ~disk_ok
  BY <1>2 DEF FlushBackingFile, FlushFile, Settle, ImageTypeOK, Durable
<1>3. QED
  BY <1>1, <1>2

(* A writeback by the operating system.                                      *)
LEMMA WritebackInImage ==
  ASSUME ImageTypeOK, Durable, NEW s \in Sector, Writeback(s)
  PROVE  ImageTypeOK' /\ Durable'
  BY DEF Writeback, ImageTypeOK, Durable

(* The disk changes its mind about flushes.                                  *)
LEMMA DiskTurnsInImage ==
  ASSUME ImageTypeOK, Durable, DiskTurns
  PROVE  ImageTypeOK' /\ Durable'
  BY DEF DiskTurns, ImageTypeOK, Durable

(* A crash of the host.                                                      *)
LEMMA CrashInImage ==
  ASSUME ImageTypeOK, Durable, HostCrash
  PROVE  ImageTypeOK' /\ Durable'
  BY DEF HostCrash, ImageTypeOK, Durable

(* writeSectors, whether it passes the test or not.                          *)
LEMMA WriteSectorsInImage ==
  ASSUME ImageTypeOK, Durable,
         NEW start_sector \in Nat, NEW nr_sectors \in Nat, NEW rc,
         NEW buffer \in [0 .. nr_sectors - 1 -> Content],
         WriteSectors(start_sector, buffer, nr_sectors, rc)
  PROVE  ImageTypeOK' /\ Durable' /\ stray' = stray
<1>1. CASE Store(start_sector, buffer)
  BY <1>1, StoreInImage DEF Store
<1>2. CASE UNCHANGED imageVars
  BY <1>2 DEF imageVars, contents, ImageTypeOK, Durable
<1>3. QED
  BY <1>1, <1>2 DEF WriteSectors

(* discard.                                                                  *)
LEMMA DiscardStaysInImage ==
  ASSUME ImageTypeOK, Durable,
         NEW start_sector \in Nat, NEW nr_sectors \in Nat, NEW rc,
         Discard(start_sector, nr_sectors, rc)
  PROVE  ImageTypeOK' /\ Durable' /\ stray' = stray
<1>1. CASE Store(start_sector, [o \in 0 .. nr_sectors - 1 |-> Zero])
  <2>1. [o \in 0 .. nr_sectors - 1 |-> Zero] \in [0 .. nr_sectors - 1 -> Content]
    BY ZeroIsContent
  <2>2. QED
    BY <1>1, <2>1, StoreInImage DEF Store
<1>2. CASE UNCHANGED imageVars
  BY <1>2 DEF imageVars, contents, ImageTypeOK, Durable
<1>3. QED
  BY <1>1, <1>2 DEF Discard

(* writeSector.                                                              *)
LEMMA WriteSectorInImage ==
  ASSUME ImageTypeOK, Durable,
         NEW sector_number \in Nat, NEW size \in Nat, NEW rc,
         NEW sector \in [0 .. size - 1 -> Content],
         WriteSector(sector_number, sector, rc)
  PROVE  ImageTypeOK' /\ Durable' /\ stray' = stray
<1>1. CASE Store(sector_number, sector)
  BY <1>1, StoreInImage DEF Store
<1>2. CASE UNCHANGED imageVars
  BY <1>2 DEF imageVars, contents, ImageTypeOK, Durable
<1>3. QED
  BY <1>1, <1>2 DEF WriteSector

(* An access that a test lets pass although the file does not have its       *)
(* sectors.                                                                  *)
LEMMA StraysInImage ==
  ASSUME ImageTypeOK, Durable,
         NEW start_sector \in Nat, NEW nr_sectors \in Nat, Strays(start_sector, nr_sectors)
  PROVE  ImageTypeOK' /\ Durable' /\ StraysOnlyWrapped'
<1>1. stray' = <<start_sector, nr_sectors>> /\ UNCHANGED <<image, medium, expected, disk_ok>>
  BY DEF Strays, contents
<1>2. start_sector + nr_sectors >= WORD
  <2> SUFFICES ASSUME start_sector + nr_sectors < WORD PROVE FALSE
    BY ImageSize
  <2>1. QED
    BY InImageIsInside, DiscardedIsInside DEF Strays
<1>3. QED
  BY <1>1, <1>2 DEF ImageTypeOK, Durable, StraysOnlyWrapped

-----------------------------------------------------------------------------
ImageInv == ImageTypeOK /\ Durable /\ StraysOnlyWrapped

(* A file that was just opened has types and is durable.                     *)
LEMMA ImageInitInv == ImageInit => ImageInv
  BY DEF ImageInit, ImageInv, ImageTypeOK, Durable, StraysOnlyWrapped

(* Every step keeps the invariant.                                           *)
LEMMA ImageStepInv ==
  ImageInv /\ [ImageNext]_imageVars => ImageInv'
<1> SUFFICES ASSUME ImageInv, [ImageNext]_imageVars PROVE ImageInv'
  OBVIOUS
<1>1. ASSUME stray' = stray PROVE StraysOnlyWrapped'
  BY <1>1 DEF ImageInv, StraysOnlyWrapped
<1>2. ASSUME NEW start_sector \in 0 .. WORD - 1, NEW nr_sectors \in 0 .. SectorCount + 1, NEW rc \in Status,
             NEW buffer \in [0 .. nr_sectors - 1 -> Content],
             WriteSectors(start_sector, buffer, nr_sectors, rc)
      PROVE  ImageInv'
  <2>1. start_sector \in Nat /\ nr_sectors \in Nat
    BY ImageSize
  <2>2. QED
    BY <1>1, <1>2, <2>1, WriteSectorsInImage DEF ImageInv
<1>3. ASSUME NEW start_sector \in 0 .. WORD - 1, NEW nr_sectors \in 0 .. WORD - 1,
             \/ \E rc \in Status : Discard(start_sector, nr_sectors, rc)
             \/ Strays(start_sector, nr_sectors)
      PROVE  ImageInv'
  <2>1. start_sector \in Nat /\ nr_sectors \in Nat
    BY ImageSize
  <2>2. QED
    BY <1>1, <1>3, <2>1, DiscardStaysInImage, StraysInImage DEF ImageInv
<1>4. ASSUME NEW sector_number \in 0 .. SectorCount, NEW size \in 0 .. 2, NEW rc \in Status,
             NEW sector \in [0 .. size - 1 -> Content],
             WriteSector(sector_number, sector, rc)
      PROVE  ImageInv'
  <2>1. sector_number \in Nat /\ size \in Nat
    BY ImageSize
  <2>2. QED
    BY <1>1, <1>4, <2>1, WriteSectorInImage DEF ImageInv
<1>5. CASE FlushBackingFile /\ Settle
  BY <1>1, <1>5, FlushInImage DEF ImageInv, FlushBackingFile
<1>6. CASE HostCrash \/ DiskTurns \/ \E s \in Sector : Writeback(s)
  <2>1. stray' = stray
    BY <1>6 DEF HostCrash, DiskTurns, Writeback
  <2>2. QED
    BY <1>1, <1>6, <2>1, CrashInImage, DiskTurnsInImage, WritebackInImage DEF ImageInv
<1>7. CASE UNCHANGED imageVars
  BY <1>7 DEF imageVars, contents, ImageInv, ImageTypeOK, Durable, StraysOnlyWrapped
<1>8. QED
  BY <1>2, <1>3, <1>4, <1>5, <1>6, <1>7 DEF ImageNext, ImageStep

(* Types, durability and the bounds of what strays are inductive together.   *)
THEOREM ImageCorrect == ImageSpec => []ImageInv
  BY ImageInitInv, ImageStepInv, PTL DEF ImageSpec

(* The tests of readSectors, writeSectors and discard let a request pass     *)
(* that names sectors the file does not have only where the sum of its start *)
(* and length reaches 2^64, for every start and length of 64 bits.           *)
THEOREM StraysCorrect == ImageSpec => []StraysOnlyWrapped
<1>1. ImageInv => StraysOnlyWrapped
  BY DEF ImageInv
<1>2. QED
  BY <1>1, ImageCorrect, PTL
=============================================================================
