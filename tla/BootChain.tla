------------------------------ MODULE BootChain ------------------------------
(***************************************************************************)
(* The three programs of a boot on one machine: the loader (as SectorCopy, *)
(* which BootLoader implements), then EntryPoint, then Kernel32.  They     *)
(* share memory, screen and the A20 gate, and the machine may be reset at  *)
(* any moment: RAM, screen and the gate then are as the last attempt left  *)
(* them, or the chipset has shut the gate.                                 *)
(***************************************************************************)
EXTENDS Naturals

CONSTANTS
  Disks, Sectors,                           \* as in SectorCopy
  Offset, PortBits,                         \* as in EntryPoint
  MB, CheckEnd, AreaEnd, StackWord, CodeWord, RamSizes, BrokenSets,  \* Kernel32
  MaxResets                                 \* bound: resets that are explored

\* an image without a sector has no entry point
ASSUME ChainAssumption ==
  /\ Sectors \in [Disks -> Nat \ {0}]
  /\ MaxResets \in Nat

VARIABLES
  at,                                       \* "START", then the program at work,
                                            \* or "HANDLEDISKERROR"
  phase, disk, todo, memory,                \* as in SectorCopy
  cpu, eip, seg, esp, flagIF, carry, al, pe, gdtr,
  biosA20, hasPort, port, gate,             \* as in EntryPoint
  pc, ram, broken, void, mem, pdwCurrentAddress,   \* as in Kernel32
  row1, row2, memoryRow, areaRow,           \* the screen's rows 1, 2, 4 and 5
  resets

loader    == <<phase, disk, todo, memory>>
registers == <<cpu, eip, seg, esp, flagIF, carry, al, pe, gdtr>>
chipset   == <<biosA20, hasPort, port, gate>>
kernel    == <<pc, ram, broken, void, mem, pdwCurrentAddress>>
rows      == <<row1, row2, memoryRow, areaRow>>
vars      == <<at, loader, registers, chipset, kernel, rows, resets>>

SlotAddress(k) == 65536 + 512 * k

SC == INSTANCE SectorCopy WITH Address <- SlotAddress
EP == INSTANCE EntryPoint WITH FirmwareBases <- {0}
K  == INSTANCE Kernel32 WITH a20 <- EP!A20

\* what the programs rely on, with these constants
ASSUME ProgramsAssumption ==
  /\ EP!OffsetAssumption /\ EP!HardwareAssumption
  /\ K!LayoutAssumption /\ K!MachineAssumption

\* words of a range of low memory as the BIOS or the loader has put them there
Restored(words) == [p \in DOMAIN mem |-> IF p \in words THEN "orig" ELSE mem[p]]

-----------------------------------------------------------------------------
Init ==
  /\ at = "START"
  /\ SC!Init
  /\ EP!Init /\ flagIF /\ ~carry /\ esp = EP!StackTop
  /\ K!Init
  /\ row1 = "blank"
  /\ resets = 0

\* mutant: the screen is cleared down to row 3 only
ClearedOnlyAbove == row1' = "blank" /\ row2' = "blank" /\ UNCHANGED <<memoryRow, areaRow>>

Cleared ==
  row1' = "blank" /\ row2' = "blank" /\ memoryRow' = "blank" /\ areaRow' = "blank"

\* the boot sector clears the whole screen before anything else
Start ==
  /\ at = "START"
  /\ Cleared
  /\ at' = "loader"
  /\ UNCHANGED <<loader, registers, chipset, kernel, resets>>

Copy ==
  /\ at = "loader"
  /\ \E k \in todo : SC!Copy(k)
  /\ UNCHANGED <<at, registers, chipset, kernel, rows, resets>>

Fail ==
  /\ at = "loader"
  /\ SC!Fail
  /\ row1' = "DISKError"
  /\ at' = "HANDLEDISKERROR"
  /\ UNCHANGED <<registers, chipset, kernel, row2, memoryRow, areaRow, resets>>

\* jmp 0x1000:0x0000 into the image that was just copied over low memory
StartImage ==
  /\ at = "loader"
  /\ SC!Finish
  /\ mem' = Restored(CodeWord..(MB - 1))
  /\ row1' = "Complete"
  /\ at' = "entry"
  /\ UNCHANGED <<registers, chipset, pc, ram, broken, void, pdwCurrentAddress,
                 row2, memoryRow, areaRow, resets>>

EntryFrame == UNCHANGED <<at, loader, kernel, row1, memoryRow, areaRow, resets>>

EntryStep   == at = "entry" /\ ~EP!At("Main") /\ EP!Step /\ EntryFrame
Interrupted == at = "entry" /\ EP!Interrupt /\ EntryFrame
Return      == at = "entry" /\ EP!Return /\ EntryFrame

\* jmp dword 0x08: 0x10200 has arrived at Main
EnterMain ==
  /\ at = "entry" /\ EP!Executes("Main")
  /\ at' = "kernel"
  /\ UNCHANGED <<loader, registers, chipset, kernel, rows, resets>>

KernelStep ==
  /\ at = "kernel"
  /\ UNCHANGED <<at, loader, registers, chipset, row1, row2, resets>>
  /\ K!Next

\* mutant: the loader goes on counting where it was
RestartKeepsTodo ==
  phase' = "loading" /\ disk' \in Disks /\ UNCHANGED <<todo, memory>>

Restart == SC!Restart

\* the user resets the machine, maybe with another disk in
Reset ==
  /\ resets < MaxResets
  /\ resets' = resets + 1
  /\ Restart
  /\ at' = "START"
  /\ cpu' = "running" /\ eip' = 0 /\ esp' = EP!StackTop
  /\ seg' = [CS |-> EP!LoadBase, DS |-> 124 * 256, ES |-> 0, FS |-> 0, GS |-> 0, SS |-> 0]
  /\ flagIF' = TRUE /\ carry' = FALSE /\ al' = {} /\ pe' = FALSE /\ gdtr' = EP!NoGdt
  /\ \E shut \in BOOLEAN : /\ gate' = (gate /\ ~shut)
                           /\ port' = IF shut THEN {} ELSE port
  /\ mem' = Restored(0..(CodeWord - 1))
  /\ pc' = "Main" /\ pdwCurrentAddress' = MB
  /\ UNCHANGED <<biosA20, hasPort, ram, broken, void, rows>>

Load == Start \/ Copy \/ Fail \/ StartImage

Next == Load \/ EntryStep \/ Interrupted \/ Return \/ EnterMain \/ KernelStep \/ Reset

\* as in the three modules: the processor runs, BIOS calls return, interrupts
\* are rarer than instructions; nobody has to press reset
Spec ==
  /\ Init /\ [][Next]_vars
  /\ WF_vars(Load)
  /\ SF_vars(EntryStep) /\ WF_vars(Return) /\ WF_vars(EnterMain)
  /\ WF_vars(KernelStep)

-----------------------------------------------------------------------------
CanOpen == biosA20 \/ hasPort

\* As long as the entry point and the kernel run, low memory holds what the
\* loader and the BIOS put there, the whole image of this boot's disk included:
\* nothing the kernel writes above 1 MB comes back below, if BIOS or control
\* port are able to open the gate (EntryPoint.s 18-30, Main.c 63-103).
ImageStays ==
  at \in {"entry", "kernel"} /\ CanOpen =>
    /\ \A k \in SC!Places(disk) :
         SlotAddress(k) \in DOMAIN memory /\ memory[SlotAddress(k)] = <<disk, k + 1>>
    /\ at = "kernel" => \A p \in 0..(MB - 1) : mem[p] = "orig"

\* After the first instructions of a boot no row shows what an earlier boot had
\* to say: each says something only when this boot's program has got there
\* (BootLoader.asm 31-42, EntryPoint.s 66-71, Main.c 18-38).
ScreenOfThisBoot ==
  at # "START" =>
    /\ row1 = "Complete"  <=> at \in {"entry", "kernel"}
    /\ row1 = "DISKError" <=> at = "HANDLEDISKERROR"
    /\ row2 = "success" => at \in {"entry", "kernel"}
    /\ at = "kernel" => row2 = "success"
    /\ memoryRow # "blank" <=> at = "kernel" /\ pc # "Main"
    /\ areaRow # "blank" => memoryRow \in {"Pass", "Fail"}

\* What the kernel says of memory is true also in RAM that an earlier attempt
\* has filled with the pattern it looks for, or with zeros (Main.c 59-103).
SaysTrue == at = "kernel" => K!KernelAreaReady /\ K!NoFalseAlarm /\ K!ProbesWork

\* If BIOS or control port can open the gate, every boot that is left alone
\* ends with an outcome on the screen: a disk error, too little memory, an area
\* that cannot be used, or "Pass" for both checks.
Outcome ==
  \/ at = "HANDLEDISKERROR" /\ row1 = "DISKError"
  \/ at = "kernel" /\ memoryRow = "Fail" /\ areaRow = "Not Enough Memory"
  \/ at = "kernel" /\ memoryRow = "Pass" /\ areaRow \in {"Pass", "Fail"}

TellsOutcome == CanOpen => <>[]Outcome
=============================================================================
