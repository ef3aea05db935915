----------------------------- MODULE BootLoader -----------------------------
(***************************************************************************)
(* The boot sector, 00.BootLoader/BootLoader.asm: it clears the screen,    *)
(* resets the floppy drive, reads the operating-system image one sector at *)
(* a time with BIOS int 0x13 to 0x10000 and jumps there; any BIOS error    *)
(* ends in an endless loop.  The machine may be reset at any moment, with  *)
(* or without another floppy: the BIOS then brings in a fresh boot sector  *)
(* but RAM and screen keep what the last attempt left.                     *)
(***************************************************************************)
EXTENDS Naturals

CONSTANTS
  Disks,            \* the floppy images that may be in the drive
  Sectors,          \* Sectors[d]: the word TOTALSECTORCOUNT in d's boot sector
  SectorsPerTrack,  \* 18: "cmp al, 19" in the code, and the drive's geometry
  Tracks,           \* 80: what the drive has on each of its two sides
  MaxResets         \* bound: resets that are explored

\* the widths of the registers and of the counters in memory
Byte == 256
Word == 256 * Byte

\* sector 2 is the first one read; sector numbers are compared as signed bytes
\* and the track number is a byte
ASSUME GeometryAssumption == SectorsPerTrack \in 2..126 /\ Tracks \in 1..(Byte - 1)

ASSUME DiskAssumption == Sectors \in [Disks -> 0..(Word - 1)]

ASSUME ResetAssumption == MaxResets \in Nat

VARIABLES
  pc,            \* the label control has reached; "KERNEL" is 0x1000:0x0000
  disk,          \* the floppy in the drive
  di, si, es,    \* sectors to read, segment to read to, segment register
  sectorNumber, headNumber, trackNumber,   \* bytes in the boot sector's data
  memory,        \* segment |-> <<disk, LBA>> for every sector stored so far:
                 \* what the drive delivers there, part of the image or not
  result,        \* what the screen shows in row 1, column 20
  resets

chs  == <<sectorNumber, headNumber, trackNumber>>
vars == <<pc, disk, di, si, es, chs, memory, result, resets>>

LoadSegment      == 16 * Byte     \* 0x1000
VideoSegment     == 184 * Byte    \* 0xB800
SectorParagraphs == 32       \* 0x20 paragraphs are 512 bytes
ScreenBytes      == 80 * 25 * 2

\* the segment the k-th sector of the image belongs to
SlotSegment(k) == LoadSegment + SectorParagraphs * k

\* the number of the sector the BIOS finds at a track, head and sector number
Lba(t, h, s) == (2 * t + h) * SectorsPerTrack + (s - 1)

NoMemory == [x \in {} |-> x]

Store(m, a, sector) ==
  [x \in DOMAIN m \cup {a} |-> IF x = a THEN sector ELSE m[x]]

XorOne(b) == IF b % 2 = 0 THEN b + 1 ELSE b - 1

-----------------------------------------------------------------------------
\* the boot sector as it is on disk, loaded and started by the BIOS
Init ==
  /\ pc = "START"
  /\ disk \in Disks
  /\ di = 0 /\ si = 0 /\ es = 0
  /\ sectorNumber = 2 /\ headNumber = 0 /\ trackNumber = 0
  /\ memory = NoMemory
  /\ result = "blank"
  /\ resets = 0

\* mutant: the screen is not cleared
StartKeepsScreen ==
  /\ pc = "START"
  /\ si' = ScreenBytes
  /\ es' = VideoSegment
  /\ pc' = "RESETDISK"
  /\ UNCHANGED <<disk, di, chs, memory, result, resets>>

\* segments and stack are set up, the screen is cleared, two messages printed
Start ==
  /\ pc = "START"
  /\ si' = ScreenBytes
  /\ es' = VideoSegment
  /\ result' = "blank"
  /\ pc' = "RESETDISK"
  /\ UNCHANGED <<disk, di, chs, memory, resets>>

ResetDisk ==
  /\ pc = "RESETDISK"
  /\ si' = LoadSegment
  /\ es' = si'
  /\ di' = Sectors[disk]
  /\ pc' = "READDATA"
  /\ UNCHANGED <<disk, chs, memory, result, resets>>

HandleDiskError ==
  /\ result' = "DISKError"
  /\ pc' = "HANDLEDISKERROR"

ResetFails ==
  /\ pc = "RESETDISK"
  /\ HandleDiskError
  /\ UNCHANGED <<disk, di, si, es, chs, memory, resets>>

\* mutant: "cmp al, 20"
AdvanceSectorLate ==
  LET next == (sectorNumber + 1) % Byte
  IN  \/ /\ next < SectorsPerTrack + 2
         /\ sectorNumber' = next
         /\ UNCHANGED <<headNumber, trackNumber>>
      \/ /\ next >= SectorsPerTrack + 2
         /\ sectorNumber' = 1
         /\ headNumber' = XorOne(headNumber)
         /\ trackNumber' = IF headNumber' # 0 THEN trackNumber
                                              ELSE (trackNumber + 1) % Byte

\* mutant: "je READDATA" for "jne READDATA"
AdvanceSectorSwapped ==
  LET next == (sectorNumber + 1) % Byte
  IN  \/ /\ next < SectorsPerTrack + 1
         /\ sectorNumber' = next
         /\ UNCHANGED <<headNumber, trackNumber>>
      \/ /\ next >= SectorsPerTrack + 1
         /\ sectorNumber' = 1
         /\ headNumber' = XorOne(headNumber)
         /\ trackNumber' = IF headNumber' = 0 THEN trackNumber
                                              ELSE (trackNumber + 1) % Byte

\* sector -> head -> track, as byte arithmetic
AdvanceSector ==
  LET next == (sectorNumber + 1) % Byte
  IN  \/ /\ next < SectorsPerTrack + 1
         /\ sectorNumber' = next
         /\ UNCHANGED <<headNumber, trackNumber>>
      \/ /\ next >= SectorsPerTrack + 1
         /\ sectorNumber' = 1
         /\ headNumber' = XorOne(headNumber)
         /\ trackNumber' = IF headNumber' # 0 THEN trackNumber
                                              ELSE (trackNumber + 1) % Byte

\* One turn of the READDATA loop whose BIOS call succeeds.  The drive refuses
\* only a track it does not have: where the image ends it may go on delivering.
ReadSector ==
  LET lba == Lba(trackNumber, headNumber, sectorNumber)
  IN  /\ pc = "READDATA"
      /\ di # 0
      /\ trackNumber < Tracks
      /\ di' = di - 1
      /\ memory' = Store(memory, es, <<disk, lba>>)
      /\ si' = (si + SectorParagraphs) % Word
      /\ es' = si'
      /\ AdvanceSector
      /\ UNCHANGED <<pc, disk, result, resets>>

\* mutant: go back and try again, for ever
ReadFailsRetries ==
  /\ pc = "READDATA"
  /\ di # 0
  /\ di' = di - 1
  /\ pc' = "RESETDISK"
  /\ UNCHANGED <<disk, si, es, chs, memory, result, resets>>

\* one turn whose BIOS call sets the carry flag: there is no retry
ReadFails ==
  /\ pc = "READDATA"
  /\ di # 0
  /\ di' = di - 1
  /\ HandleDiskError
  /\ UNCHANGED <<disk, si, es, chs, memory, resets>>

\* mutant: stop one sector early
ReadEndEarly ==
  /\ pc = "READDATA"
  /\ di <= 1
  /\ result' = "Complete"
  /\ pc' = "KERNEL"
  /\ UNCHANGED <<disk, di, si, es, chs, memory, resets>>

ReadEnd ==
  /\ pc = "READDATA"
  /\ di = 0
  /\ result' = "Complete"
  /\ pc' = "KERNEL"
  /\ UNCHANGED <<disk, di, si, es, chs, memory, resets>>

\* mutant: the boot sector's counters survive the reset
ResetKeepsCounters ==
  /\ resets < MaxResets
  /\ resets' = resets + 1
  /\ disk' \in Disks
  /\ pc' = "START"
  /\ UNCHANGED <<di, si, es, chs, memory, result>>

\* the user resets the machine: the BIOS reads the boot sector again
Reset ==
  /\ resets < MaxResets
  /\ resets' = resets + 1
  /\ disk' \in Disks
  /\ sectorNumber' = 2 /\ headNumber' = 0 /\ trackNumber' = 0
  /\ pc' = "START"
  /\ UNCHANGED <<di, si, es, memory, result>>

Load == Start \/ ResetDisk \/ ResetFails \/ ReadSector \/ ReadFails \/ ReadEnd

Next == Load \/ Reset

Safety == Init /\ [][Next]_vars

\* the processor runs and BIOS calls return; nobody has to press reset
Spec == Safety /\ WF_vars(Load)
-----------------------------------------------------------------------------
Copied == Sectors[disk] - di

TypeOK ==
  /\ pc \in {"START", "RESETDISK", "READDATA", "KERNEL", "HANDLEDISKERROR"}
  /\ disk \in Disks
  /\ di \in 0..(Word - 1) /\ si \in 0..(Word - 1) /\ es \in 0..(Word - 1)
  /\ sectorNumber \in 1..SectorsPerTrack
  /\ headNumber \in 0..1
  /\ trackNumber \in 0..Tracks
  /\ DOMAIN memory \subseteq 0..(Word - 1)
  /\ \A a \in DOMAIN memory : memory[a] \in Disks \X Nat
  /\ result \in {"blank", "Complete", "DISKError"}
  /\ resets \in 0..MaxResets

\* The kernel is started (jmp 0x1000:0x0000, line 150) only when each of the
\* sectors the header counts, those next to the boot sector of the inserted
\* disk, lies at its place in the load area: the head and track arithmetic
\* skips, repeats and misplaces nothing.  That they are all part of the image is
\* not promised: nothing compares the header with the image's end.
KernelImageLoaded ==
  pc = "KERNEL" =>
    \A k \in 0..(Sectors[disk] - 1) :
      /\ SlotSegment(k) \in DOMAIN memory
      /\ memory[SlotSegment(k)] = <<disk, k + 1>>

\* Whatever attempts, failures and resets came before, a place of the load
\* area only ever holds the sector that belongs there, of some disk, and
\* nothing is written outside of the image's places (es, lines 115-116).
LoadAreaOnly ==
  \A a \in DOMAIN memory :
    LET d == memory[a][1]
        k == memory[a][2] - 1
    IN  k \in 0..(Sectors[d] - 1) /\ a = SlotSegment(k)

\* Once the boot sector runs, the screen announces the end of the attempt it
\* is making, never of one before a reset (lines 33-42, 137-144, 156-161).
ScreenHonest ==
  pc # "START" =>
    /\ result = "Complete"  <=> pc = "KERNEL"
    /\ result = "DISKError" <=> pc = "HANDLEDISKERROR"

\* The boot ends: the kernel is started or the error is shown (lines 94-163).
Settles == <>[](pc \in {"KERNEL", "HANDLEDISKERROR"})

-----------------------------------------------------------------------------
\* the abstract loader's view of the boot sector
Phase ==
  CASE pc = "KERNEL"          -> "running"
    [] pc = "HANDLEDISKERROR" -> "halted"
    [] OTHER                  -> "loading"

Todo ==
  CASE pc \in {"START", "RESETDISK"} -> 0..(Sectors[disk] - 1)
    [] pc = "READDATA"               -> Copied..(Sectors[disk] - 1)
    [] OTHER                         -> {}

SC == INSTANCE SectorCopy WITH
        Address <- SlotSegment, phase <- Phase, todo <- Todo

\* The READDATA loop implements the abstract loader, reset by reset.
ImplementsSectorCopy == SC!Spec
=============================================================================
