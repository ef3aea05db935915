----------------------------- MODULE ImageLoader -----------------------------
(***************************************************************************)
(* 00.BootLoader/imageloader.c, the loader written down in C before it was *)
(* written in assembler: int counters, a flat address, the sector count a  *)
(* constant of the program.  BIOSReadOneSector is "any function that calls *)
(* the BIOS" (line 16) and is modelled by what line 17 makes of it.        *)
(***************************************************************************)
EXTENDS Naturals

CONSTANTS
  Disks,             \* the disks that may be in the drive
  TotalSectorCount,  \* 1024
  SectorsPerTrack    \* 18

ASSUME LoaderAssumption ==
  /\ TotalSectorCount \in Nat
  /\ SectorsPerTrack \in Nat \ {0, 1}

VARIABLES
  pc,                \* "while", "HandleDiskError" or "return"
  disk,
  iTotalSectorCount, iSectorNumber, iHeadNumber, iTrackNumber,
  pcTargetAddress,
  memory             \* address |-> <<disk, LBA>> for every sector stored so far:
                     \* what the drive delivers there, part of an image or not

counters == <<iTotalSectorCount, iSectorNumber, iHeadNumber, iTrackNumber>>
vars     == <<pc, disk, counters, pcTargetAddress, memory>>

LoadBase    == 65536     \* 0x10000
SectorBytes == 512       \* 0x200

\* the number of the sector at a sector, head and track number
Lba(s, h, t) == (2 * t + h) * SectorsPerTrack + (s - 1)

Store(m, a, sector) ==
  [x \in DOMAIN m \cup {a} |-> IF x = a THEN sector ELSE m[x]]

\* "^ 0x01"; the expression the comment gives would leave the head as it is
XorOne(n) == IF n % 2 = 0 THEN n + 1 ELSE n - 1

-----------------------------------------------------------------------------
Init ==
  /\ pc = "while"
  /\ disk \in Disks
  /\ iTotalSectorCount = TotalSectorCount
  /\ iSectorNumber = 2 /\ iHeadNumber = 0 /\ iTrackNumber = 0
  /\ pcTargetAddress = LoadBase
  /\ memory = [a \in {} |-> a]

\* the track number once the head has been switched
NextTrack(head) == IF head # 0 THEN iTrackNumber ELSE iTrackNumber + 1

\* sector -> head -> track
AdvanceSector ==
  \/ /\ iSectorNumber + 1 < SectorsPerTrack + 1
     /\ iSectorNumber' = iSectorNumber + 1
     /\ UNCHANGED <<iHeadNumber, iTrackNumber>>
  \/ /\ iSectorNumber + 1 >= SectorsPerTrack + 1
     /\ iSectorNumber' = 1
     /\ iHeadNumber' = XorOne(iHeadNumber)
     /\ iTrackNumber' = NextTrack(iHeadNumber')

\* BIOSReadOneSector gives anything but ERROR
ReadOneSector ==
  LET lba == Lba(iSectorNumber, iHeadNumber, iTrackNumber)
  IN  /\ pc = "while"
      /\ iTotalSectorCount # 0
      /\ iTotalSectorCount' = iTotalSectorCount - 1
      /\ memory' = Store(memory, pcTargetAddress, <<disk, lba>>)
      /\ pcTargetAddress' = pcTargetAddress + SectorBytes
      /\ AdvanceSector
      /\ UNCHANGED <<pc, disk>>

\* BIOSReadOneSector gives ERROR
HandleDiskError ==
  /\ pc = "while"
  /\ iTotalSectorCount # 0
  /\ iTotalSectorCount' = iTotalSectorCount - 1
  /\ pc' = "HandleDiskError"
  /\ UNCHANGED <<disk, iSectorNumber, iHeadNumber, iTrackNumber, pcTargetAddress, memory>>

LastCountEarly == 1    \* mutant: "if (iTotalSectorCount == 1) break"
LastCount      == 0

Break ==
  /\ pc = "while"
  /\ iTotalSectorCount = LastCount
  /\ pc' = "return"
  /\ UNCHANGED <<disk, counters, pcTargetAddress, memory>>

Next == ReadOneSector \/ HandleDiskError \/ Break

\* the program runs and reads return
Spec == Init /\ [][Next]_vars /\ WF_vars(Next)

-----------------------------------------------------------------------------
\* the abstract loader's view of the program
Copied == TotalSectorCount - iTotalSectorCount

Phase ==
  CASE pc = "return"          -> "running"
    [] pc = "HandleDiskError" -> "halted"
    [] OTHER                  -> "loading"

Todo == IF pc = "while" THEN Copied..(TotalSectorCount - 1) ELSE {}

AddressOf(k) == LoadBase + SectorBytes * k

SC == INSTANCE SectorCopy WITH
        Sectors <- [d \in Disks |-> TotalSectorCount],
        Address <- AddressOf, phase <- Phase, todo <- Todo

\* The program implements the same abstract loader as the boot sector: the C
\* text is a true reference for the assembler text (lines 1-44).
ImplementsSectorCopy == SC!Spec
=============================================================================
