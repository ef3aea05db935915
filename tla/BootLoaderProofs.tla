-------------------------- MODULE BootLoaderProofs --------------------------
(***************************************************************************)
(* What holds of the boot sector for every set of floppies, every geometry *)
(* of the drive and any number of resets.  TypeOK is inductive as it stands; the *)
(* other theorems rest on Inv, which ties the BIOS address of the next     *)
(* sector and the segment it goes to to the number of sectors copied.      *)
(***************************************************************************)
EXTENDS BootLoader, TLAPS

\* the load area ends at the video memory: (0xA0000 - 0x10000) / 512 sectors
FitsLoadArea == \A d \in Disks : Sectors[d] =< 1152

\* Reading starts at sector 2 of track 0 on side 0.
ReadStart ==
  pc \in {"START", "RESETDISK"} =>
    sectorNumber = 2 /\ headNumber = 0 /\ trackNumber = 0

\* Inside the loop the three counters name sector Copied + 1 of the disk, and
\* the segment registers the place it belongs to.
ReadPosition ==
  pc = "READDATA" =>
    /\ di =< Sectors[disk]
    /\ Lba(trackNumber, headNumber, sectorNumber) = Copied + 1
    /\ si = SlotSegment(Copied)
    /\ es = si

\* Every sector counted as copied is in its place.
CopiedLoaded ==
  pc \in {"READDATA", "KERNEL"} =>
    \A k \in 0..(Copied - 1) :
      /\ SlotSegment(k) \in DOMAIN memory
      /\ memory[SlotSegment(k)] = <<disk, k + 1>>

AllCopied == pc = "KERNEL" => di = 0

Inv ==
  TypeOK /\ ReadStart /\ ReadPosition /\ CopiedLoaded /\ AllCopied /\ LoadAreaOnly

-----------------------------------------------------------------------------
\* The sector number of a track, head and sector is a number.
LEMMA LbaNat ==
  ASSUME NEW t \in Nat, NEW h \in 0..1, NEW s \in 1..SectorsPerTrack
  PROVE  Lba(t, h, s) \in Nat
<1>1. SectorsPerTrack \in Nat
  BY GeometryAssumption
<1>2. (2 * t + h) * SectorsPerTrack \in Nat
  BY <1>1
<1> QED BY <1>1, <1>2 DEF Lba

\* Advancing by a sector moves to the next sector of the disk.
LEMMA AdvanceIsSuccessor ==
  ASSUME TypeOK, AdvanceSector, trackNumber < Tracks
  PROVE  /\ sectorNumber' \in 1..SectorsPerTrack
         /\ headNumber' \in 0..1
         /\ trackNumber' \in 0..Tracks
         /\ Lba(trackNumber', headNumber', sectorNumber')
              = Lba(trackNumber, headNumber, sectorNumber) + 1
<1> DEFINE n == SectorsPerTrack
           t == trackNumber
<1>1. /\ n \in 2..126 /\ Tracks \in 1..255 /\ t \in 0..(Tracks - 1)
      /\ headNumber \in 0..1 /\ sectorNumber \in 1..n
  BY GeometryAssumption DEF TypeOK, Byte
<1>2. (sectorNumber + 1) % Byte = sectorNumber + 1
  BY <1>1 DEF Byte
<1>3. (t + 1) % Byte = t + 1
  BY <1>1 DEF Byte
<1>4. CASE sectorNumber < n
  BY <1>1, <1>2, <1>4 DEF AdvanceSector, Lba
<1>5. CASE sectorNumber = n /\ headNumber = 0
  <2>1. sectorNumber' = 1 /\ headNumber' = 1 /\ trackNumber' = t
    BY <1>1, <1>2, <1>5 DEF AdvanceSector, XorOne
  <2>2. (2 * t + 1) * n = (2 * t + 0) * n + n
    BY <1>1
  <2> QED BY <1>1, <1>5, <2>1, <2>2 DEF Lba
<1>6. CASE sectorNumber = n /\ headNumber = 1
  <2>1. sectorNumber' = 1 /\ headNumber' = 0 /\ trackNumber' = t + 1
    BY <1>1, <1>2, <1>3, <1>6 DEF AdvanceSector, XorOne
  <2>2. (2 * (t + 1) + 0) * n = (2 * t + 1) * n + n
    BY <1>1
  <2> QED BY <1>1, <1>6, <2>1, <2>2 DEF Lba
<1> QED BY <1>1, <1>4, <1>5, <1>6

\* A read that succeeds was of a track the drive has, and of a numbered sector.
LEMMA ReadInRange ==
  ASSUME TypeOK, ReadSector
  PROVE  /\ trackNumber < Tracks
         /\ Lba(trackNumber, headNumber, sectorNumber) \in Nat
<1>1. /\ trackNumber \in Nat
      /\ headNumber \in 0..1
      /\ sectorNumber \in 1..SectorsPerTrack
  BY DEF TypeOK
<1>2. Lba(trackNumber, headNumber, sectorNumber) \in Nat
  BY <1>1, LbaNat
<1> QED BY <1>2 DEF ReadSector

-----------------------------------------------------------------------------
\* The constants the registers are loaded with are words.
LEMMA WordNat ==
  /\ Word \in Nat /\ Word > 0
  /\ LoadSegment \in 0..(Word - 1)
  /\ VideoSegment \in 0..(Word - 1)
  /\ ScreenBytes \in 0..(Word - 1)
BY DEF Word, Byte, LoadSegment, VideoSegment, ScreenBytes

LEMMA InitTypeOK == Init => TypeOK
BY GeometryAssumption, ResetAssumption, WordNat DEF Init, TypeOK, NoMemory

LEMMA NextTypeOK == TypeOK /\ [Next]_vars => TypeOK'
<1> SUFFICES ASSUME TypeOK, [Next]_vars PROVE TypeOK'
  OBVIOUS
<1> USE GeometryAssumption, ResetAssumption, WordNat DEF TypeOK
<1>1. CASE Start
  BY <1>1 DEF Start, chs
<1>2. CASE ResetDisk
  BY <1>2, DiskAssumption DEF ResetDisk, chs
<1>3. CASE ResetFails
  BY <1>3 DEF ResetFails, HandleDiskError, chs
<1>4. CASE ReadSector
  <2>1. /\ sectorNumber' \in 1..SectorsPerTrack
        /\ headNumber' \in 0..1
        /\ trackNumber' \in 0..Tracks
    BY <1>4, ReadInRange, AdvanceIsSuccessor DEF ReadSector
  <2>2. (si + SectorParagraphs) % Word \in 0..(Word - 1)
    <3>1. si + SectorParagraphs \in Nat
      BY DEF SectorParagraphs
    <3> QED BY <3>1
  <2>3. /\ DOMAIN memory' \subseteq 0..(Word - 1)
        /\ \A a \in DOMAIN memory' : memory'[a] \in Disks \X Nat
    BY <1>4, ReadInRange DEF ReadSector, Store
  <2> QED BY <1>4, <2>1, <2>2, <2>3 DEF ReadSector
<1>5. CASE ReadFails
  BY <1>5 DEF ReadFails, HandleDiskError, chs
<1>6. CASE ReadEnd
  BY <1>6 DEF ReadEnd, chs
<1>7. CASE Reset
  BY <1>7 DEF Reset
<1>8. CASE UNCHANGED vars
  BY <1>8 DEF vars, chs
<1> QED BY <1>1, <1>2, <1>3, <1>4, <1>5, <1>6, <1>7, <1>8 DEF Next, Load

\* The registers, the counters and the memory map keep their ranges; in
\* particular the track byte never wraps.
THEOREM TypeCorrect == Spec => []TypeOK
BY InitTypeOK, NextTypeOK, PTL DEF Spec, Safety

\* After any number of resets a running boot sector shows its own outcome.
THEOREM ScreenHonestHolds == Spec => []ScreenHonest
<1>1. Init => ScreenHonest
  BY DEF Init, ScreenHonest
<1>2. ScreenHonest /\ [Next]_vars => ScreenHonest'
  <2> SUFFICES ASSUME ScreenHonest, [Next]_vars PROVE ScreenHonest'
    OBVIOUS
  <2> USE DEF ScreenHonest
  <2>1. CASE Start
    BY <2>1 DEF Start
  <2>2. CASE ResetDisk
    BY <2>2 DEF ResetDisk
  <2>3. CASE ResetFails
    BY <2>3 DEF ResetFails, HandleDiskError
  <2>4. CASE ReadSector
    BY <2>4 DEF ReadSector
  <2>5. CASE ReadFails
    BY <2>5 DEF ReadFails, HandleDiskError
  <2>6. CASE ReadEnd
    BY <2>6 DEF ReadEnd
  <2>7. CASE Reset
    BY <2>7 DEF Reset
  <2>8. CASE UNCHANGED vars
    BY <2>8 DEF vars
  <2> QED BY <2>1, <2>2, <2>3, <2>4, <2>5, <2>6, <2>7, <2>8 DEF Next, Load
<1> QED BY <1>1, <1>2, PTL DEF Spec, Safety

-----------------------------------------------------------------------------
LEMMA InitInv == Init => Inv
BY InitTypeOK DEF Init, Inv, ReadStart, ReadPosition, CopiedLoaded, AllCopied,
                  LoadAreaOnly, NoMemory

\* No two sectors have the same place.
LEMMA SlotInjective ==
  ASSUME NEW j \in Nat, NEW k \in Nat, j # k
  PROVE  SlotSegment(j) # SlotSegment(k)
BY DEF SlotSegment, LoadSegment, SectorParagraphs, Byte

\* In the load area the segment of the next place does not wrap.
LEMMA SlotNext ==
  ASSUME NEW k \in 0..1151
  PROVE  (SlotSegment(k) + SectorParagraphs) % Word = SlotSegment(k + 1)
BY DEF SlotSegment, LoadSegment, SectorParagraphs, Word, Byte

\* One successful read puts the next sector in the next place.
LEMMA ReadSectorInv ==
  ASSUME FitsLoadArea, Inv, ReadSector
  PROVE  Inv'
<1> DEFINE c == Copied
           n == Sectors[disk]
<1>1. /\ n \in Nat /\ n =< 1152 /\ di \in Nat /\ di # 0 /\ di =< n
      /\ c = n - di /\ c \in 0..1152 /\ c < n /\ pc = "READDATA"
  <2>1. disk \in Disks /\ pc = "READDATA" /\ di # 0
    BY DEF Inv, TypeOK, ReadSector
  <2>2. n \in Nat /\ di \in Nat
    BY <2>1, DiskAssumption, WordNat DEF Inv, TypeOK
  <2>3. n =< 1152
    BY <2>1 DEF FitsLoadArea
  <2>4. di =< n
    BY <2>1 DEF Inv, ReadPosition
  <2>5. c = n - di
    BY DEF Copied
  <2> HIDE DEF n, c
  <2> QED BY <2>1, <2>2, <2>3, <2>4, <2>5
<1>2. Copied' = c + 1
  BY <1>1 DEF ReadSector, Copied
<1>3. TypeOK'
  BY NextTypeOK DEF Inv, Next, Load
<1>4. Lba(trackNumber, headNumber, sectorNumber) = c + 1 /\ es = SlotSegment(c) /\ si = es
  BY <1>1 DEF Inv, ReadPosition
<1>5. memory' = Store(memory, SlotSegment(c), <<disk, c + 1>>)
  BY <1>4 DEF ReadSector
<1>6. ReadStart' /\ AllCopied'
  BY <1>1 DEF ReadSector, ReadStart, AllCopied
<1>7. ReadPosition'
  <2>1. Lba(trackNumber', headNumber', sectorNumber') = c + 2
    <3>1. trackNumber < Tracks
      BY ReadInRange DEF Inv
    <3> QED BY <1>1, <1>4, <3>1, AdvanceIsSuccessor DEF Inv, ReadSector
  <2>2. si' = SlotSegment(c + 1) /\ es' = si'
    <3>1. c \in 0..1151
      BY <1>1
    <3>2. (SlotSegment(c) + SectorParagraphs) % Word = SlotSegment(c + 1)
      BY <3>1, SlotNext
    <3> QED BY <1>4, <3>2 DEF ReadSector
  <2> QED BY <1>1, <1>2, <2>1, <2>2 DEF ReadPosition, ReadSector, Lba
<1>8. CopiedLoaded'
  <2>0. 0..(Copied' - 1) = 0..c /\ disk' = disk
    BY <1>1, <1>2 DEF ReadSector
  <2> SUFFICES ASSUME NEW k \in 0..c
               PROVE  /\ SlotSegment(k) \in DOMAIN memory'
                      /\ memory'[SlotSegment(k)] = <<disk, k + 1>>
    BY <2>0 DEF CopiedLoaded, SlotSegment
  <2>1. CASE k = c
    BY <1>5, <2>1 DEF Store
  <2>2. CASE k # c
    <3>1. k \in 0..(Copied - 1) /\ k \in 0..1152
      BY <1>1, <2>2
    <3>2. /\ SlotSegment(k) \in DOMAIN memory
          /\ memory[SlotSegment(k)] = <<disk, k + 1>>
      BY <1>1, <3>1 DEF Inv, CopiedLoaded
    <3>3. SlotSegment(k) # SlotSegment(c)
      <4>1. k \in Nat /\ c \in Nat
        BY <1>1
      <4> QED BY <2>2, <4>1, SlotInjective
    <3> QED BY <1>5, <3>2, <3>3 DEF Store
  <2> QED BY <2>1, <2>2
<1>9. LoadAreaOnly'
  BY <1>1, <1>5 DEF Inv, LoadAreaOnly, Store
<1> QED BY <1>3, <1>6, <1>7, <1>8, <1>9 DEF Inv

LEMMA NextInv ==
  ASSUME FitsLoadArea, Inv, [Next]_vars
  PROVE  Inv'
<1>0. TypeOK'
  BY NextTypeOK DEF Inv
<1> USE <1>0 DEF Inv, ReadStart, ReadPosition, CopiedLoaded, AllCopied,
                 LoadAreaOnly, Copied
<1>1. CASE Start
  BY <1>1 DEF Start, chs
<1>2. CASE ResetDisk
  <2>1. Sectors[disk] \in Nat
    BY DiskAssumption, WordNat DEF TypeOK
  <2>2. Lba(trackNumber, headNumber, sectorNumber) = 1
    BY <1>2, GeometryAssumption DEF ResetDisk, Lba
  <2>3. LoadSegment = SlotSegment(0)
    BY DEF SlotSegment, LoadSegment, SectorParagraphs, Byte
  <2> QED BY <1>2, <2>1, <2>2, <2>3 DEF ResetDisk, chs
<1>3. CASE ResetFails
  BY <1>3 DEF ResetFails, HandleDiskError, chs
<1>4. CASE ReadSector
  BY <1>4, ReadSectorInv
<1>5. CASE ReadFails
  BY <1>5 DEF ReadFails, HandleDiskError, chs
<1>6. CASE ReadEnd
  BY <1>6 DEF ReadEnd, chs
<1>7. CASE Reset
  BY <1>7 DEF Reset
<1>8. CASE UNCHANGED vars
  BY <1>8 DEF vars, chs, Lba
<1> QED BY <1>1, <1>2, <1>3, <1>4, <1>5, <1>6, <1>7, <1>8 DEF Next, Load

\* The kernel is started only with every sector the header counts in place, for
\* disks of any length, with an image behind the boot sector or without one, as
\* long as no header asks for more than the load area holds.
THEOREM KernelImageLoadedHolds ==
  ASSUME FitsLoadArea
  PROVE  Spec => []KernelImageLoaded
<1>1. Init => Inv
  BY InitInv
<1>2. Inv /\ [Next]_vars => Inv'
  BY NextInv
<1>3. Inv => KernelImageLoaded
  BY DiskAssumption, WordNat
     DEF Inv, TypeOK, CopiedLoaded, AllCopied, Copied, KernelImageLoaded
<1> QED BY <1>1, <1>2, <1>3, PTL DEF Spec, Safety

\* Under the same condition nothing is ever written outside of the image's
\* places, whatever disks were booted before.
THEOREM LoadAreaOnlyHolds ==
  ASSUME FitsLoadArea
  PROVE  Spec => []LoadAreaOnly
<1>1. Init => Inv
  BY InitInv
<1>2. Inv /\ [Next]_vars => Inv'
  BY NextInv
<1>3. Inv => LoadAreaOnly
  BY DEF Inv
<1> QED BY <1>1, <1>2, <1>3, PTL DEF Spec, Safety

-----------------------------------------------------------------------------
\* A turn of the loop copies one place of those that were left.
LEMMA ReadSectorCopies ==
  ASSUME FitsLoadArea, Inv, ReadSector
  PROVE  SC!Copy(Copied) /\ Copied \in Todo
<1>1. /\ pc = "READDATA" /\ pc' = pc /\ disk' = disk
      /\ di \in Nat /\ di # 0 /\ di' = di - 1
      /\ Sectors[disk] \in Nat /\ di =< Sectors[disk]
  BY DiskAssumption, WordNat DEF Inv, TypeOK, ReadPosition, ReadSector
<1>2. memory' = Store(memory, SlotSegment(Copied), <<disk, Copied + 1>>)
  BY <1>1 DEF Inv, ReadPosition, ReadSector
<1>3. Phase = "loading" /\ Phase' = "loading"
  BY <1>1 DEF Phase
<1>4. /\ Todo = Copied..(Sectors[disk] - 1)
      /\ Todo' = (Copied + 1)..(Sectors[disk] - 1)
  BY <1>1 DEF Todo, Copied
<1>5. Copied \in Todo /\ Todo' = Todo \ {Copied}
  BY <1>1, <1>4 DEF Copied
<1> QED BY <1>1, <1>2, <1>3, <1>5 DEF SC!Copy, SC!Store, Store

\* Every step of the boot sector is a step of the abstract loader or none.
LEMMA StepSimulation ==
  ASSUME FitsLoadArea, Inv, [Next]_vars
  PROVE  [SC!Next]_(SC!vars)
<1> USE DEF Phase, Todo, SC!vars
<1>1. CASE Start
  BY <1>1 DEF Start
<1>2. CASE ResetDisk
  <2>1. Copied' = 0
    BY <1>2, DiskAssumption, WordNat DEF ResetDisk, Copied, Inv, TypeOK
  <2> QED BY <1>2, <2>1 DEF ResetDisk
<1>3. CASE ResetFails
  BY <1>3 DEF ResetFails, HandleDiskError, SC!Next, SC!Load, SC!Fail
<1>4. CASE ReadSector
  BY <1>4, ReadSectorCopies DEF SC!Next, SC!Load
<1>5. CASE ReadFails
  BY <1>5 DEF ReadFails, HandleDiskError, SC!Next, SC!Load, SC!Fail
<1>6. CASE ReadEnd
  <2>1. Copied..(Sectors[disk] - 1) = {}
    BY <1>6, DiskAssumption, WordNat DEF ReadEnd, Copied, Inv, TypeOK
  <2> QED BY <1>6, <2>1 DEF ReadEnd, SC!Next, SC!Load, SC!Finish
<1>7. CASE Reset
  BY <1>7 DEF Reset, SC!Next, SC!Restart, SC!Places
<1>8. CASE UNCHANGED vars
  BY <1>8 DEF vars, Copied
<1> QED BY <1>1, <1>2, <1>3, <1>4, <1>5, <1>6, <1>7, <1>8 DEF Next, Load

\* The boot sector's safety part implements the abstract loader's, for every
\* set of disks whose images fit the load area.
THEOREM ImplementsSafety ==
  ASSUME FitsLoadArea
  PROVE  Spec => SC!Safety
<1>1. Init => Inv
  BY InitInv
<1>2. Inv /\ [Next]_vars => Inv'
  BY NextInv
<1>3. Init => SC!Init
  BY DEF Init, SC!Init, Phase, Todo, SC!Places, SC!NoMemory, NoMemory
<1>4. Inv /\ [Next]_vars => [SC!Next]_(SC!vars)
  BY StepSimulation
<1> QED BY <1>1, <1>2, <1>3, <1>4, PTL DEF Spec, Safety, SC!Safety
=============================================================================
