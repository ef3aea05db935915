------------------------------ MODULE VirtualOS ------------------------------
(***************************************************************************)
(* 01.Kernel32/VirtualOS.asm, the image the loader is tested with, run     *)
(* from the memory that the loader in C has filled.  Each of its sectors   *)
(* shows one digit of its own number at the next place of the screen and   *)
(* jumps to where the sector that follows it belongs.  A disk is a         *)
(* function from the places of the load area to the sectors that were put  *)
(* there: the right one, or one with a sector wrong, missing or exchanged. *)
(***************************************************************************)
EXTENDS ImageLoader

CONSTANTS
  Digits,            \* 10
  WordSize           \* 65536: values of the word SECTORCOUNT

ASSUME VirtualAssumption ==
  /\ TotalSectorCount # 0
  /\ Digits \in Nat \ {0}
  /\ WordSize \in Nat /\ WordSize > 2 * TotalSectorCount

VARIABLES
  stage,             \* "loader", "running", "halted" (jmp $) or "lost" (no sector)
  place,             \* the place of the load area control is at, 0 for 0x10000
  sectorCount,       \* SECTORCOUNT, in the sector at place 0
  screen             \* position from the third row on |-> digit

virtual == <<stage, place, sectorCount, screen>>

Places     == 0..(TotalSectorCount - 1)
RightImage == [p \in Places |-> p + 1]

\* place 0, where SECTORCOUNT is, is always right
WrongImages ==
  {[RightImage EXCEPT ![p] = i] :
     p \in Places \ {0}, i \in 0..TotalSectorCount} \cup
  {[RightImage EXCEPT ![p] = q + 1, ![q] = p + 1] : p, q \in Places \ {0}}

\* the sector that lies at a place of the load area, 0 if none does
SectorAt(p) ==
  LET a == AddressOf(p)
  IN  IF a \in DOMAIN memory THEN memory[a][1][memory[a][2] - 1] ELSE 0

-----------------------------------------------------------------------------
VirtualInit ==
  /\ Init
  /\ stage = "loader"
  /\ place = 0 /\ sectorCount = 0
  /\ screen = [n \in {} |-> n]

Load == stage = "loader" /\ Next /\ UNCHANGED virtual

\* the jump to 0x1000:0x0000 that ends a boot loader
StartImage ==
  /\ stage = "loader"
  /\ pc = "return"
  /\ stage' = "running"
  /\ UNCHANGED <<vars, place, sectorCount, screen>>

\* 2 * SECTORCOUNT as AX holds it, in characters
Position(n) == n % (WordSize \div 2)

NextPlaceRelative(i) == place + 1    \* mutant: a near jump to the place after this

\* where sector i jumps to: 0x1000 + i * 0x20
NextPlace(i) == i

IsLastNever(i) == i > TotalSectorCount    \* mutant: "%if i > TOTALSECTORCOUNT"
IsLast(i)      == i = TotalSectorCount

Show(digit) ==
  LET n == Position(sectorCount)
  IN  /\ screen' = [m \in DOMAIN screen \cup {n} |-> IF m = n THEN digit ELSE screen[m]]
      /\ sectorCount' = (sectorCount + 1) % WordSize

GoTo(p) == place' = p /\ stage' = IF p \in Places THEN "running" ELSE "lost"

\* the code of the sector that lies where control is
RunSector ==
  LET i == SectorAt(place)
  IN  /\ stage = "running"
      /\ i # 0
      /\ Show(i % Digits)
      /\ IF IsLast(i)
           THEN stage' = "halted" /\ UNCHANGED place
           ELSE GoTo(NextPlace(i))
      /\ UNCHANGED vars

\* a sector of zeros is 256 times "add [ bx + si ], al", which leaves every
\* byte as it was and goes on at the next place
RunZeros ==
  /\ stage = "running"
  /\ SectorAt(place) = 0
  /\ GoTo(place + 1)
  /\ UNCHANGED <<vars, sectorCount, screen>>

VirtualNext == Load \/ StartImage \/ RunSector \/ RunZeros

\* the loader's reads return, and the processor runs
VirtualSpec ==
  VirtualInit /\ [][VirtualNext]_<<vars, virtual>> /\ WF_<<vars, virtual>>(VirtualNext)

-----------------------------------------------------------------------------
FullScreen == [n \in Places |-> (n + 1) % Digits]

\* The screen is a verdict on disk and loader: when the last sector has run, the
\* digits 1, 2, 3... fill one place each if and only if every sector lies where
\* it belongs (lines 26-47).  One wrong or empty sector shows, although every
\* tenth has the same digit, because each sector names its successor.
VerdictTrue == stage = "halted" => (screen = FullScreen <=> disk = RightImage)

\* A right disk is loaded, unless it cannot be read, and runs to its last
\* sector (lines 24-47 with imageloader.c 9-37).
RightImageEnds ==
  disk = RightImage ~> stage = "halted" \/ pc = "HandleDiskError"
=============================================================================
