------------------------------ MODULE Kernel32 ------------------------------
(***************************************************************************)
(* The 32-bit kernel, 01.Kernel32/Source/Main.c: it probes one word per MB *)
(* to see whether memory is large enough and then clears the area of the   *)
(* IA-32e kernel word by word.  It runs with interrupts off and alone, but *)
(* on memory that may be short or broken and behind an A20 gate that the   *)
(* entry point tried to open and never checked: with the gate shut every   *)
(* odd MB is the even one below it, the kernel's own code and stack        *)
(* included.                                                               *)
(***************************************************************************)
EXTENDS Naturals

CONSTANTS
  MB,            \* words per MB, 0x100000 / 4 in the code
  CheckEnd,      \* 64: the MB kIsMemoryEnough ends before
  AreaEnd,       \* 6: the MB kInitializeKernel64Area ends before
  StackWord,     \* the word of MB 0 that holds half of pdwCurrentAddress
  CodeWord,      \* the word of MB 0 where the kernel's code begins
  RamSizes,      \* sizes, in words, of the RAM a machine may have
  BrokenSets     \* sets of physical words that may not keep what is written

ASSUME LayoutAssumption ==
  /\ MB \in Nat /\ 0 < StackWord /\ StackWord < CodeWord /\ CodeWord < MB
  /\ StackWord \in Nat /\ CodeWord \in Nat
  /\ AreaEnd \in Nat /\ CheckEnd \in Nat
  /\ 1 < AreaEnd /\ AreaEnd < CheckEnd

\* the machine that loaded the kernel has the first MB in working order
ASSUME MachineAssumption ==
  /\ RamSizes \subseteq Nat /\ \A r \in RamSizes : r >= MB
  /\ \A b \in BrokenSets : b \subseteq Nat /\ \A w \in b : w >= MB

VARIABLES
  pc,            \* "Main", the loop at hand, or the endless loop at the end
  a20,           \* is the A20 gate open?
  ram, broken, void,     \* the machine's memory, and what reads where there is none
  mem,           \* physical word |-> "orig", "pattern" or "zero"
  pdwCurrentAddress,     \* of either function, in words
  memoryRow, areaRow     \* what the screen says in rows 4 and 5, column 45

machine == <<a20, ram, broken, void>>
vars    == <<pc, machine, mem, pdwCurrentAddress, memoryRow, areaRow>>

FirstWord == MB      \* (DWORD *) 0x100000

\* the word an address reaches: a shut gate clears bit 20
Phys(w) == IF a20 \/ (w \div MB) % 2 = 0 THEN w ELSE w - MB

Works(p) == p < ram /\ p \notin broken

\* memory after a store to w, and what a load from w then gives
Stored(w, value) ==
  IF Works(Phys(w)) THEN [mem EXCEPT ![Phys(w)] = value] ELSE mem

Loaded(memory, w) == IF Works(Phys(w)) THEN memory[Phys(w)] ELSE void

-----------------------------------------------------------------------------
Init ==
  /\ pc = "Main"
  /\ a20 \in BOOLEAN
  /\ ram \in RamSizes /\ broken \in BrokenSets /\ void \in {"zero", "ones"}
  /\ mem = [p \in 0..(ram - 1) |-> "orig"]
  /\ pdwCurrentAddress = FirstWord
  /\ memoryRow = "blank" /\ areaRow = "blank"

\* mutant: the probe starts with MB 0
MainFromZero ==
  /\ pc = "Main"
  /\ memoryRow' = "[    ]"
  /\ pdwCurrentAddress' = 0
  /\ pc' = "kIsMemoryEnough"
  /\ UNCHANGED <<machine, mem, areaRow>>

Main ==
  /\ pc = "Main"
  /\ memoryRow' = "[    ]"
  /\ pdwCurrentAddress' = FirstWord
  /\ pc' = "kIsMemoryEnough"
  /\ UNCHANGED <<machine, mem, areaRow>>

\* mutant: "<= 0x4000000"
ProbeInclusive ==
  /\ pc = "kIsMemoryEnough"
  /\ pdwCurrentAddress <= CheckEnd * MB
  /\ mem' = Stored(pdwCurrentAddress, "pattern")
  /\ IF Loaded(mem', pdwCurrentAddress) # "pattern"
       THEN /\ memoryRow' = "Fail"
            /\ areaRow' = "Not Enough Memory"
            /\ pc' = "notEnough"
            /\ UNCHANGED pdwCurrentAddress
       ELSE /\ pdwCurrentAddress' = pdwCurrentAddress + MB
            /\ UNCHANGED <<pc, memoryRow, areaRow>>
  /\ UNCHANGED machine

\* one turn of kIsMemoryEnough's loop
Probe ==
  /\ pc = "kIsMemoryEnough"
  /\ pdwCurrentAddress < CheckEnd * MB
  /\ mem' = Stored(pdwCurrentAddress, "pattern")
  /\ IF Loaded(mem', pdwCurrentAddress) # "pattern"
       THEN /\ memoryRow' = "Fail"
            /\ areaRow' = "Not Enough Memory"
            /\ pc' = "notEnough"
            /\ UNCHANGED pdwCurrentAddress
       ELSE /\ pdwCurrentAddress' = pdwCurrentAddress + MB
            /\ UNCHANGED <<pc, memoryRow, areaRow>>
  /\ UNCHANGED machine

\* mutant: stop after the area that is going to be used, an MB short
ProbeEndEarly ==
  /\ pc = "kIsMemoryEnough"
  /\ pdwCurrentAddress >= (AreaEnd - 1) * MB
  /\ memoryRow' = "Pass"
  /\ areaRow' = "[    ]"
  /\ pdwCurrentAddress' = FirstWord
  /\ pc' = "kInitializeKernel64Area"
  /\ UNCHANGED <<machine, mem>>

ProbeEnd ==
  /\ pc = "kIsMemoryEnough"
  /\ pdwCurrentAddress >= CheckEnd * MB
  /\ memoryRow' = "Pass"
  /\ areaRow' = "[    ]"
  /\ pdwCurrentAddress' = FirstWord
  /\ pc' = "kInitializeKernel64Area"
  /\ UNCHANGED <<machine, mem>>

\* mutant: the pointer lives in a register
AfterStoreRegister(w) == w

\* Where the pointer points after the store through it.  The makefile compiles
\* without optimisation, so gcc keeps it on the stack, across two words there:
\* with the gate shut the store may hit its lower half, which then is 0.
AfterStore(w) == IF Phys(w) = StackWord THEN FirstWord ELSE w

\* mutant: "pdwCurrentAddress" is not advanced where MB 1 ends
ClearSticks ==
  LET w == AfterStore(pdwCurrentAddress)
  IN  /\ pc = "kInitializeKernel64Area"
      /\ pdwCurrentAddress < AreaEnd * MB
      /\ mem' = Stored(pdwCurrentAddress, "zero")
      /\ IF Loaded(mem', w) # "zero"
           THEN areaRow' = "Fail" /\ pc' = "areaFailed" /\ pdwCurrentAddress' = w
           ELSE /\ pdwCurrentAddress' = IF (w + 1) % MB = 0 THEN w ELSE w + 1
                /\ UNCHANGED <<pc, areaRow>>
      /\ UNCHANGED <<machine, memoryRow>>

\* mutant: the loop advances by two words
ClearEveryOther ==
  LET w == AfterStore(pdwCurrentAddress)
  IN  /\ pc = "kInitializeKernel64Area"
      /\ pdwCurrentAddress < AreaEnd * MB
      /\ mem' = Stored(pdwCurrentAddress, "zero")
      /\ IF Loaded(mem', w) # "zero"
           THEN areaRow' = "Fail" /\ pc' = "areaFailed" /\ pdwCurrentAddress' = w
           ELSE pdwCurrentAddress' = w + 2 /\ UNCHANGED <<pc, areaRow>>
      /\ UNCHANGED <<machine, memoryRow>>

\* one turn of kInitializeKernel64Area's loop
Clear ==
  LET w == AfterStore(pdwCurrentAddress)
  IN  /\ pc = "kInitializeKernel64Area"
      /\ pdwCurrentAddress < AreaEnd * MB
      /\ mem' = Stored(pdwCurrentAddress, "zero")
      /\ IF Loaded(mem', w) # "zero"
           THEN areaRow' = "Fail" /\ pc' = "areaFailed" /\ pdwCurrentAddress' = w
           ELSE pdwCurrentAddress' = w + 1 /\ UNCHANGED <<pc, areaRow>>
      /\ UNCHANGED <<machine, memoryRow>>

ClearEnd ==
  /\ pc = "kInitializeKernel64Area"
  /\ pdwCurrentAddress >= AreaEnd * MB
  /\ areaRow' = "Pass"
  /\ pc' = "done"
  /\ UNCHANGED <<machine, mem, pdwCurrentAddress, memoryRow>>

Next == Main \/ Probe \/ ProbeEnd \/ Clear \/ ClearEnd

\* interrupts are off and nothing else runs: the processor goes on
Spec == Init /\ [][Next]_vars /\ WF_vars(Next)

-----------------------------------------------------------------------------
Probes   == {m * MB : m \in 1..(CheckEnd - 1)}
AreaWord == FirstWord..(AreaEnd * MB - 1)

TypeOK ==
  /\ pc \in {"Main", "kIsMemoryEnough", "notEnough",
             "kInitializeKernel64Area", "areaFailed", "done"}
  /\ a20 \in BOOLEAN
  /\ ram \in RamSizes /\ broken \in BrokenSets /\ void \in {"zero", "ones"}
  /\ mem \in [0..(ram - 1) -> {"orig", "pattern", "zero"}]
  /\ pdwCurrentAddress \in FirstWord..(CheckEnd * MB)
  /\ memoryRow \in {"blank", "[    ]", "Pass", "Fail"}
  /\ areaRow \in {"blank", "[    ]", "Pass", "Fail", "Not Enough Memory"}

\* With the gate open neither function writes below 1 MB, where the kernel, its
\* stack, the IVT and the video memory are (lines 63-76 and 89-103).
LowMemoryIntact == a20 => \A p \in 0..(MB - 1) : mem[p] = "orig"

\* With the gate shut the clearing loop never reaches the kernel's code, as the
\* book says it does: its own pointer lies below the code and is hit first
\* (lines 60-76, read with the stack the entry point sets up).
CodeNeverCleared == \A p \in CodeWord..(MB - 1) : mem[p] = "orig"

\* "Pass" for the area means that every word of it reads as 0, lies within RAM
\* and was reached through an open gate (lines 31-38 and 65-79).
KernelAreaReady ==
  pc = "done" =>
    /\ a20
    /\ \A w \in AreaWord : w < ram /\ Loaded(mem, w) = "zero"

\* A "Fail" is never a false alarm: a word that was probed, or cleared, does
\* not keep what is written to it (lines 69-72 and 95-99).
NoFalseAlarm ==
  /\ pc = "notEnough"  => \E w \in Probes : ~Works(Phys(w))
  /\ pc = "areaFailed" => \E w \in AreaWord : ~Works(Phys(w))

\* When the memory check passes, every word it probes keeps what is written.
ProbesWork == memoryRow = "Pass" => \A w \in Probes : Works(Phys(w))

\* With the gate open the kernel comes to the end of one of its three paths.
Settles == a20 ~> pc \in {"notEnough", "areaFailed", "done"}

-----------------------------------------------------------------------------
\* "Requires Over 64Mbyte Memory" (line 25): so much there is when it passes,
\* at least where the gate is open.
PassMeansEnoughMemory ==
  a20 /\ memoryRow = "Pass" => ram >= CheckEnd * MB

\* Where the check passes, the addresses it probed can be used (comment at
\* lines 95-96): each of them is a word of its own.
PassMeansUsable ==
  memoryRow = "Pass" => \A v, w \in Probes : Phys(v) = Phys(w) => v = w

\* With the gate shut, initialising the area clears the part of MB 0 in which the
\* kernel is running (book, chapter 8, lines 155-157; the loop of lines 66-79).
ShutGateClearsKernel ==
  ~a20 /\ pc = "kInitializeKernel64Area" ~> mem[CodeWord] # "orig"
=============================================================================
