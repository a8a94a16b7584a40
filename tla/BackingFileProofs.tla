--------------------------- MODULE BackingFileProofs ---------------------------
(* The properties of BackingFile, proved for every number and size of        *)
(* sectors, every buffer and both systems.                                   *)
EXTENDS BackingFile, TLAPS

-----------------------------------------------------------------------------
(* What createBackingFile has written: until a write fails, every byte is in *)
(* the file or in the stream's buffer.                                       *)
Written ==
  /\ num_sectors \in Nat /\ sector_size \in Nat
  /\ util \in {"writing", "closing", "returned"}
  /\ util = "writing" => size \in Nat /\ rc = None /\ size + buffered = i * sector_size
  /\ util = "closing" => size \in Nat /\ rc \in {0, -1}
  /\ util = "closing" /\ rc = 0 => size + buffered = num_sectors * sector_size

(* What the constructors have established: from the size on, the file is     *)
(* open; under Windows nobody else writes to it and its size is the mapping's. *)
Opened ==
  /\ win32 \in BOOLEAN
  /\ m_fd => size \in Nat
  /\ image \in {"sized", "mapped", "ready"} => m_fd
  /\ win32 /\ m_fd => util = "returned"
  /\ win32 /\ image \in {"sized", "mapped", "ready"} => size = m_size

FileInv == TypeOK /\ LossBounded /\ MappedIsUsable /\ Written /\ Opened

-----------------------------------------------------------------------------
(* A file whose length is a multiple of the sector size is its sectors.      *)
LEMMA WholeSectors ==
  ASSUME NEW bytes \in Nat, NEW sector \in Nat, sector > 0, bytes # 0, bytes % sector = 0
  PROVE  /\ bytes \div sector \in Nat \ {0}
         /\ (bytes \div sector) * sector = bytes
<1>1. PICK q \in Nat : bytes = q * sector
  OBVIOUS
<1>2. q # 0
  BY <1>1
<1>3. (q * sector) \div sector = q
  OBVIOUS
<1>4. QED
  BY <1>1, <1>2, <1>3

(* The invariant holds before the first creation.                            *)
LEMMA FileInit == Init => FileInv
  BY Sizes DEF Init, FileInv, TypeOK, LossBounded, MappedIsUsable, Written, Opened, Missing, None

(* createBackingFile preserves it.                                           *)
LEMMA CreationSteps ==
  ASSUME FileInv, CreateBackingFile \/ Write \/ WriteLast \/ CloseStream
  PROVE  FileInv'
<1> USE Sizes DEF FileInv, TypeOK, LossBounded, MappedIsUsable, Written, Opened, Missing, None, mapping
<1>1. CASE CreateBackingFile
  BY <1>1 DEF CreateBackingFile, Shared
<1>2. CASE Write
  <2>1. (i + 1) * sector_size = i * sector_size + sector_size
    BY <1>2 DEF Write
  <2>2. QED
    BY <1>2, <2>1 DEF Write, Push
<1>3. CASE WriteLast
  BY <1>3 DEF WriteLast
<1>4. CASE CloseStream
  BY <1>4 DEF CloseStream, Push
<1>5. QED
  BY <1>1, <1>2, <1>3, <1>4

(* The constructors and destructors preserve it.                             *)
LEMMA MappingSteps ==
  ASSUME FileInv, OpenFile \/ GetFileSize \/ MapFile \/ OpenImage \/ CloseImage
  PROVE  FileInv'
<1> USE Sizes DEF FileInv, TypeOK, LossBounded, MappedIsUsable, Written, Opened, Missing, None, creation, Terminate
<1>1. CASE OpenFile
  BY <1>1 DEF OpenFile
<1>2. CASE GetFileSize
  BY <1>2 DEF GetFileSize
<1>3. CASE MapFile
  BY <1>3 DEF MapFile
<1>4. CASE OpenImage
  <2>1. CASE Accepts(m_size)
    <3>1. /\ m_size \div SECTOR_SIZE \in Nat \ {0}
          /\ (m_size \div SECTOR_SIZE) * SECTOR_SIZE = m_size
      BY <2>1, WholeSectors DEF Accepts
    <3>2. image' = "ready" /\ mSectorCount' = m_size \div SECTOR_SIZE /\ m_fd' = m_fd /\ m_size' = m_size
          /\ UNCHANGED <<win32, creation>> /\ image = "mapped"
      BY <1>4, <2>1 DEF OpenImage
    <3>3. m_size \div SECTOR_SIZE < INT_MAX
      BY <2>1 DEF Accepts
    <3>4. mSectorCount' \in Nat /\ mSectorCount' > 0 /\ mSectorCount' < INT_MAX
          /\ mSectorCount' * SECTOR_SIZE = m_size'
      BY <3>1, <3>2, <3>3
    <3>5. QED
      BY <3>2, <3>4
  <2>2. CASE ~Accepts(m_size)
    BY <1>4, <2>2 DEF OpenImage
  <2>3. QED
    BY <2>1, <2>2
<1>5. CASE CloseImage
  BY <1>5 DEF CloseImage
<1>6. QED
  BY <1>1, <1>2, <1>3, <1>4, <1>5

(* Every step preserves it.                                                  *)
LEMMA FileStep == FileInv /\ [Next]_vars => FileInv'
<1>1. ASSUME FileInv, UNCHANGED vars
      PROVE  FileInv'
  BY <1>1 DEF FileInv, TypeOK, LossBounded, MappedIsUsable, Written, Opened, vars, creation, mapping
<1>2. QED
  BY <1>1, CreationSteps, MappingSteps DEF Next

(* Every reachable state satisfies the invariant.                            *)
THEOREM FileCorrect == Spec => []FileInv
  BY FileInit, FileStep, PTL DEF Spec

(* The variables keep their types; the number of sectors always fits an int. *)
THEOREM FileTypeCorrect == Spec => []TypeOK
<1>1. FileInv => TypeOK
  BY DEF FileInv
<1>2. QED
  BY <1>1, FileCorrect, PTL

(* A creation that returned 0 lost at most what the stream can hold back.    *)
THEOREM LossCorrect == Spec => []LossBounded
<1>1. FileInv => LossBounded
  BY DEF FileInv
<1>2. QED
  BY <1>1, FileCorrect, PTL

(* An image that serves requests has its file open and consists of whole     *)
(* sectors.                                                                  *)
THEOREM UsableCorrect == Spec => []MappedIsUsable
<1>1. FileInv => MappedIsUsable
  BY DEF FileInv
<1>2. QED
  BY <1>1, FileCorrect, PTL

(* Under Windows a file keeps its size while an image is open on it.         *)
THEOREM WholeCorrect == Spec => []MappedStaysWhole
<1>1. FileInv => MappedStaysWhole
  BY DEF FileInv, Opened, MappedStaysWhole
<1>2. QED
  BY <1>1, FileCorrect, PTL
=============================================================================
