--------------------------- MODULE BootChainProofs ---------------------------
(***************************************************************************)
(* What holds of a boot as a whole, on a machine that may be reset at any  *)
(* moment and then starts over what the last attempt left behind.  The     *)
(* invariants of entry point and kernel are those of their own proofs,     *)
(* taken over by instantiation; ChainInv adds what each program finds when *)
(* it starts: the image and low memory in place, the rows blank.           *)
(***************************************************************************)
EXTENDS BootChain, TLAPS

\* the proofs about the two programs, of the programs as they are used here
EPP == INSTANCE EntryPointProofs WITH FirmwareBases <- {0}
KP  == INSTANCE Kernel32Proofs WITH a20 <- EP!A20

Waiting == {"START", "loader", "HANDLEDISKERROR"}

\* Every sector of the disk that is not to be copied any more is in its place.
ImageInv ==
  /\ disk \in Disks /\ todo \subseteq SC!Places(disk)
  /\ at \in {"START", "loader"} => phase = "loading"
  /\ at \in {"entry", "kernel"} => todo = {}
  /\ at = "START" => todo = SC!Places(disk)
  /\ at \in {"loader", "entry", "kernel"} =>
       \A k \in SC!Places(disk) \ todo :
         SlotAddress(k) \in DOMAIN memory /\ memory[SlotAddress(k)] = <<disk, k + 1>>

\* Control is where the program at work begins, and what that program needs of
\* low memory is there: the BIOS's part first, the kernel's once it is loaded.
HandOver ==
  /\ at \in Waiting \cup {"entry", "kernel"}
  /\ at \in Waiting => EPP!At("START")
  /\ at = "kernel" => EPP!At("Main")
  /\ at \in {"START", "loader"} => \A p \in 0..(CodeWord - 1) : mem[p] = "orig"
  /\ at = "entry" => \A p \in 0..(MB - 1) : mem[p] = "orig"
  /\ at # "kernel" => pc = "Main"

\* No row is ahead of the program that writes it.
RowsInv ==
  /\ at = "loader" => row1 = "blank"
  /\ at = "HANDLEDISKERROR" => row1 = "DISKError"
  /\ at \in {"entry", "kernel"} => row1 = "Complete"
  /\ at \in {"loader", "HANDLEDISKERROR"} => row2 = "blank"
  /\ at \in {"loader", "HANDLEDISKERROR", "entry"} => memoryRow = "blank" /\ areaRow = "blank"
  /\ at = "kernel" =>
       /\ memoryRow = "blank" <=> pc = "Main"
       /\ areaRow # "blank" => memoryRow \in {"Pass", "Fail"}

ChainInv ==
  /\ ImageInv /\ HandOver /\ RowsInv
  /\ EPP!Inv
  /\ KP!TypeOK
  /\ at = "kernel" => KP!Inv

-----------------------------------------------------------------------------
\* What the proofs about the two programs assume holds here.
LEMMA EntryAssumptions == EPP!OffsetAssumption /\ EPP!HardwareAssumption
BY ProgramsAssumption
   DEF EP!OffsetAssumption, EP!HardwareAssumption, EPP!OffsetAssumption,
       EPP!HardwareAssumption, EP!Labels, EPP!Labels, EP!Data, EPP!Data,
       EP!EntryBytes, EPP!EntryBytes, EP!Byte, EPP!Byte

LEMMA KernelAssumptions == KP!LayoutAssumption /\ KP!MachineAssumption
BY ProgramsAssumption
   DEF K!LayoutAssumption, K!MachineAssumption, KP!LayoutAssumption, KP!MachineAssumption

\* The proofs speak of the same states and steps as the programs.
LEMMA SameLabel == ASSUME NEW l PROVE EP!At(l) <=> EPP!At(l)
BY DEF EP!At, EPP!At, EP!Address, EPP!Address, EP!LoadBase, EPP!LoadBase,
       EP!EntryBytes, EPP!EntryBytes, EP!Byte, EPP!Byte

LEMMA SameStep == EP!Step => EPP!Step
BY DEF EP!Step, EP!Start, EP!ActivateA20ByBios, EP!TestCarry, EP!ReadPort, EP!WritePort,
       EP!Cli, EP!Lgdt, EP!EnableProtection, EP!JumpToProtectedMode, EP!LoadSegments,
       EP!PrintSuccess, EP!JumpToC, EP!FarJump, EP!Loadable, EP!Descriptor, EP!Gdt,
       EP!GdtPointer, EP!NoGdt, EP!DataSegments, EP!PortReads, EP!StackTop, EP!CEntry,
       EP!Executes, EP!At, EP!Address, EP!Continue, EP!BaseOf, EP!hardware, EP!Byte,
       EP!LoadBase, EP!EntryBytes,
       EPP!Step, EPP!Start, EPP!ActivateA20ByBios, EPP!TestCarry, EPP!ReadPort, EPP!WritePort,
       EPP!Cli, EPP!Lgdt, EPP!EnableProtection, EPP!JumpToProtectedMode, EPP!LoadSegments,
       EPP!PrintSuccess, EPP!JumpToC, EPP!FarJump, EPP!Loadable, EPP!Descriptor, EPP!Gdt,
       EPP!GdtPointer, EPP!NoGdt, EPP!DataSegments, EPP!PortReads, EPP!StackTop, EPP!CEntry,
       EPP!Executes, EPP!At, EPP!Address, EPP!Continue, EPP!BaseOf, EPP!hardware, EPP!Byte,
       EPP!LoadBase, EPP!EntryBytes

LEMMA SameKernelStep == K!Next => KP!Next
BY DEF K!Next, K!Main, K!Probe, K!ProbeEnd, K!Clear, K!ClearEnd, K!Stored, K!Loaded,
       K!Works, K!Phys, K!AfterStore, K!FirstWord, K!machine,
       KP!Next, KP!Main, KP!Probe, KP!ProbeEnd, KP!Clear, KP!ClearEnd, KP!Stored, KP!Loaded,
       KP!Works, KP!Phys, KP!AfterStore, KP!FirstWord, KP!machine

LEMMA SameGate == EP!A20 <=> EPP!A20
BY DEF EP!A20, EPP!A20

\* The two invariants are kept by steps of their programs and by all others
\* that leave the programs' variables alone.
LEMMA EntryKept ==
  ASSUME EPP!Inv, EP!Step \/ EP!Interrupt \/ EP!Return \/ UNCHANGED EPP!vars
  PROVE  EPP!Inv'
<1>1. EP!Interrupt => EPP!Interrupt
  BY DEF EP!Interrupt, EPP!Interrupt, EP!hardware, EPP!hardware
<1>2. EP!Return => EPP!Return
  BY DEF EP!Return, EPP!Return, EP!hardware, EPP!hardware
<1>3. [EPP!Next]_(EPP!vars)
  BY <1>1, <1>2, SameStep DEF EPP!Next
<1> QED BY <1>3, EntryAssumptions, EPP!NextInv

LEMMA KernelKept ==
  ASSUME KP!Inv, K!Next \/ UNCHANGED KP!vars
  PROVE  KP!Inv'
<1>1. [KP!Next]_(KP!vars)
  BY SameKernelStep
<1> QED BY <1>1, KernelAssumptions, KP!NextInv

\* What is known where the invariant's label is known.
LEMMA AtLabel ==
  ASSUME EPP!Inv, NEW l \in EPP!Places, EPP!At(l)
  PROVE  EPP!TypeOK /\ EPP!Control(l) /\ EPP!GateFacts(l)
<1>1. PICK m \in EPP!Places : EPP!At(m) /\ EPP!Control(m) /\ EPP!GateFacts(m)
  BY DEF EPP!Inv
<1>2. l = m
  BY <1>1, EntryAssumptions, EPP!OnePlace
<1> QED BY <1>1, <1>2 DEF EPP!Inv

LEMMA LabelFacts == "START" \in EPP!Places /\ "Main" \in EPP!Places
BY DEF EPP!Places, EPP!Labels

LEMMA Sizes ==
  /\ CodeWord \in Nat /\ MB \in Nat /\ CodeWord < MB /\ MB > 0
  /\ MB \in KP!FirstWord..(CheckEnd * MB)
<1>1. /\ MB \in Nat /\ MB >= 3 /\ KP!FirstWord = MB
      /\ CheckEnd * MB \in Nat /\ AreaEnd * MB \in Nat
      /\ 2 * MB =< AreaEnd * MB /\ AreaEnd * MB + MB =< CheckEnd * MB
  BY KernelAssumptions, KP!Bounds
<1>2. PICK e \in Nat, a \in Nat : e = CheckEnd * MB /\ a = AreaEnd * MB
  BY <1>1
<1>3. MB =< e
  BY <1>1, <1>2
<1> QED BY <1>1, <1>2, <1>3, KernelAssumptions DEF KP!LayoutAssumption

-----------------------------------------------------------------------------
LEMMA InitChain == Init => ChainInv
<1> SUFFICES ASSUME Init PROVE ChainInv
  OBVIOUS
<1>1. EPP!Init
  BY DEF Init, EP!Init, EPP!Init, EP!LoadBase, EPP!LoadBase, EP!StackTop, EPP!StackTop,
         EP!Byte, EPP!Byte, EP!NoGdt, EPP!NoGdt
<1>2. EPP!Inv
  BY <1>1, EntryAssumptions, EPP!InitInv
<1>3. KP!Init
  BY DEF Init, K!Init, KP!Init, K!FirstWord, KP!FirstWord
<1>4. KP!TypeOK
  BY <1>3, KernelAssumptions, KP!InitInv DEF KP!Inv
<1>5. EPP!At("START")
  BY <1>1, EntryAssumptions, EPP!BaseNat
     DEF EPP!Init, EPP!At, EPP!Address, EPP!OffsetAssumption
<1>6. ImageInv
  BY DEF Init, SC!Init, ImageInv
<1>7. \A p \in 0..(CodeWord - 1) : mem[p] = "orig"
  <2>1. ram \in Nat /\ ram >= MB /\ mem = [p \in 0..(ram - 1) |-> "orig"]
    BY <1>3, KernelAssumptions DEF KP!Init, KP!MachineAssumption
  <2> QED BY <2>1, Sizes
<1>8. HandOver
  BY <1>5, <1>7 DEF Init, K!Init, HandOver, Waiting
<1>9. RowsInv
  BY DEF Init, RowsInv
<1> QED BY <1>2, <1>4, <1>6, <1>8, <1>9 DEF ChainInv, Init

\* The boot sector's first instructions change the rows only.
LEMMA StartChain == ASSUME ChainInv, Start PROVE ChainInv'
<1>1. /\ UNCHANGED <<loader, registers, chipset, kernel>>
      /\ at = "START" /\ at' = "loader"
      /\ row1' = "blank" /\ row2' = "blank" /\ memoryRow' = "blank" /\ areaRow' = "blank"
  BY DEF Start, Cleared
<1> USE DEF loader, registers, chipset, kernel
<1>2. EPP!Inv'
  <2>1. EPP!At("START") /\ EPP!Inv
    BY <1>1 DEF ChainInv, HandOver, Waiting
  <2>2. EPP!TypeOK /\ EPP!Control("START") /\ EPP!GateFacts("START")
    BY <2>1, LabelFacts, AtLabel
  <2>3. EPP!TypeOK'
    BY <1>1, <2>2 DEF EPP!TypeOK
  <2>4. EPP!At("START")' /\ EPP!Control("START")' /\ EPP!GateFacts("START")'
    BY <1>1, <2>1, <2>2 DEF EPP!At, EPP!Control, EPP!GateFacts, EPP!A20
  <2> QED BY <2>3, <2>4, LabelFacts DEF EPP!Inv
<1>3. ImageInv'
  BY <1>1 DEF ChainInv, ImageInv, SC!Places
<1>4. HandOver'
  BY <1>1 DEF ChainInv, HandOver, Waiting, EPP!At
<1>5. RowsInv'
  BY <1>1 DEF RowsInv
<1>6. KP!TypeOK'
  BY <1>1 DEF ChainInv, KP!TypeOK, EP!A20
<1> QED BY <1>1, <1>2, <1>3, <1>4, <1>5, <1>6 DEF ChainInv

LEMMA SlotInjective ==
  ASSUME NEW j \in Nat, NEW k \in Nat, SlotAddress(j) = SlotAddress(k)
  PROVE  j = k
BY DEF SlotAddress

LEMMA PlacesNat == disk \in Disks => SC!Places(disk) \subseteq Nat /\ Sectors[disk] \in Nat \ {0}
BY ChainAssumption DEF SC!Places

\* One more sector in its place leaves the others in theirs.
LEMMA CopyImage ==
  ASSUME ImageInv, at = "loader", at' = at, NEW k \in todo, SC!Copy(k)
  PROVE  ImageInv'
<1>1. /\ phase' = phase /\ disk' = disk /\ todo' = todo \ {k}
      /\ memory' = SC!Store(memory, SlotAddress(k), <<disk, k + 1>>)
  BY DEF SC!Copy
<1>2. ASSUME NEW j \in SC!Places(disk) \ todo'
      PROVE  /\ SlotAddress(j) \in DOMAIN memory'
             /\ memory'[SlotAddress(j)] = <<disk, j + 1>>
  <2>1. j \in Nat /\ k \in Nat
    BY <1>1, PlacesNat DEF ImageInv
  <2>2. CASE j = k
    BY <1>1, <2>2 DEF SC!Store
  <2>3. CASE j # k
    <3>1. j \in SC!Places(disk) \ todo
      BY <1>1, <2>3
    <3>2. SlotAddress(j) # SlotAddress(k)
      BY <2>1, <2>3, SlotInjective
    <3> QED BY <1>1, <3>1, <3>2 DEF ImageInv, SC!Store
  <2> QED BY <2>2, <2>3
<1>3. SC!Places(disk)' = SC!Places(disk)
  BY <1>1 DEF SC!Places
<1> QED BY <1>1, <1>2, <1>3 DEF ImageInv

\* What the loader's other steps have in common: registers, chipset and kernel
\* wait.
LEMMA LoaderFrame ==
  ASSUME ChainInv, at \in Waiting, at' \in Waiting \cup {"entry"},
         UNCHANGED <<registers, chipset, pc, ram, broken, void, pdwCurrentAddress, row2,
                     memoryRow, areaRow>>,
         mem' \in [DOMAIN mem -> {"orig", "pattern", "zero"}]
  PROVE  /\ EPP!Inv' /\ KP!TypeOK' /\ EPP!At("START")'
         /\ pc' = "Main" /\ at' # "kernel"
<1>1. EPP!Inv' /\ EPP!At("START")'
  <2>1. UNCHANGED EPP!vars
    BY DEF EPP!vars, EPP!registers, EPP!hardware, registers, chipset
  <2> QED BY <2>1, EntryKept
          DEF ChainInv, HandOver, EPP!At, EPP!vars, EPP!registers
<1>2. KP!TypeOK'
  BY DEF ChainInv, KP!TypeOK, EP!A20, chipset
<1> QED BY <1>1, <1>2 DEF ChainInv, HandOver, Waiting

LEMMA CopyChain == ASSUME ChainInv, Copy PROVE ChainInv'
<1>1. /\ at = "loader" /\ at' = at
      /\ UNCHANGED <<registers, chipset, kernel, rows>>
  BY DEF Copy
<1>2. EPP!Inv' /\ KP!TypeOK' /\ EPP!At("START")' /\ pc' = "Main"
  BY <1>1, LoaderFrame DEF kernel, rows, Waiting, ChainInv, KP!TypeOK
<1>3. ImageInv'
  BY <1>1, CopyImage DEF Copy, ChainInv
<1>4. HandOver' /\ RowsInv'
  BY <1>1, <1>2 DEF ChainInv, HandOver, RowsInv, kernel, rows, Waiting
<1> QED BY <1>1, <1>2, <1>3, <1>4 DEF ChainInv

LEMMA FailChain == ASSUME ChainInv, Fail PROVE ChainInv'
<1>1. /\ at = "loader" /\ at' = "HANDLEDISKERROR"
      /\ row1' = "DISKError" /\ disk' = disk /\ todo' = {}
      /\ UNCHANGED <<registers, chipset, kernel, row2, memoryRow, areaRow>>
  BY DEF Fail, SC!Fail
<1>2. EPP!Inv' /\ KP!TypeOK' /\ EPP!At("START")' /\ pc' = "Main"
  BY <1>1, LoaderFrame DEF kernel, Waiting, ChainInv, KP!TypeOK
<1>3. ImageInv'
  BY <1>1 DEF ChainInv, ImageInv, SC!Places
<1>4. HandOver' /\ RowsInv'
  BY <1>1, <1>2 DEF ChainInv, HandOver, RowsInv, Waiting
<1> QED BY <1>1, <1>2, <1>3, <1>4 DEF ChainInv

\* The image brings the kernel's part of low memory with it.
LEMMA StartImageChain == ASSUME ChainInv, StartImage PROVE ChainInv'
<1>1. /\ at = "loader" /\ at' = "entry" /\ todo = {} /\ row1' = "Complete"
      /\ UNCHANGED <<disk, todo, memory, registers, chipset, pc, ram, broken, void,
                     pdwCurrentAddress, row2, memoryRow, areaRow>>
      /\ mem' = Restored(CodeWord..(MB - 1))
  BY DEF StartImage, SC!Finish
<1>2. mem' \in [DOMAIN mem -> {"orig", "pattern", "zero"}]
  BY <1>1 DEF Restored, ChainInv, KP!TypeOK
<1>3. EPP!Inv' /\ KP!TypeOK' /\ EPP!At("START")' /\ pc' = "Main"
  BY <1>1, <1>2, LoaderFrame DEF Waiting
<1>4. ImageInv'
  BY <1>1 DEF ChainInv, ImageInv, SC!Places
<1>5. \A p \in 0..(MB - 1) : mem'[p] = "orig"
  <2> SUFFICES ASSUME NEW p \in 0..(MB - 1) PROVE mem'[p] = "orig"
    OBVIOUS
  <2>1. p \in DOMAIN mem
    <3>1. ram \in Nat /\ ram >= MB /\ DOMAIN mem = 0..(ram - 1)
      BY KernelAssumptions DEF ChainInv, KP!TypeOK, KP!MachineAssumption
    <3> QED BY <3>1, Sizes
  <2>2. CASE p < CodeWord
    <3>1. p \in 0..(CodeWord - 1) /\ p \notin CodeWord..(MB - 1)
      BY <2>2, Sizes
    <3> QED BY <1>1, <2>1, <3>1 DEF Restored, ChainInv, HandOver
  <2>3. CASE p >= CodeWord
    <3>1. p \in CodeWord..(MB - 1)
      BY <2>3, Sizes
    <3> QED BY <1>1, <2>1, <3>1 DEF Restored
  <2> QED BY <2>2, <2>3, Sizes
<1>6. HandOver' /\ RowsInv'
  BY <1>1, <1>3, <1>5 DEF ChainInv, HandOver, RowsInv, Waiting
<1> QED BY <1>1, <1>3, <1>4, <1>6 DEF ChainInv

-----------------------------------------------------------------------------
\* Steps of the entry point, and interrupts during them, leave everything else.
LEMMA EntryChain ==
  ASSUME ChainInv, EntryStep \/ Interrupted \/ Return
  PROVE  ChainInv'
<1>1. /\ at = "entry" /\ at' = at
      /\ UNCHANGED <<loader, kernel, row1, memoryRow, areaRow>>
      /\ EP!Step \/ EP!Interrupt \/ EP!Return
  BY DEF EntryStep, Interrupted, Return, EntryFrame
<1> USE DEF loader, kernel
<1>2. EPP!Inv'
  BY <1>1, EntryKept DEF ChainInv
<1>3. ImageInv' /\ HandOver' /\ RowsInv'
  BY <1>1 DEF ChainInv, ImageInv, HandOver, RowsInv, SC!Places, Waiting
<1>4. KP!TypeOK'
  BY <1>1 DEF ChainInv, KP!TypeOK, EP!A20
<1> QED BY <1>1, <1>2, <1>3, <1>4 DEF ChainInv

\* Main finds low memory as it was loaded, and both of its rows blank.
LEMMA EnterMainChain == ASSUME ChainInv, EnterMain PROVE ChainInv'
<1>1. /\ at = "entry" /\ at' = "kernel" /\ EPP!At("Main")
      /\ UNCHANGED <<loader, registers, chipset, kernel, rows>>
  BY SameLabel DEF EnterMain, EP!Executes
<1> USE DEF loader, registers, chipset, kernel, rows
<1>2. EPP!Inv' /\ EPP!At("Main")'
  <2>1. UNCHANGED EPP!vars
    BY <1>1 DEF EPP!vars, EPP!registers, EPP!hardware
  <2> QED BY <1>1, <2>1, EntryKept DEF ChainInv, EPP!At
<1>3. ImageInv' /\ RowsInv'
  BY <1>1 DEF ChainInv, ImageInv, RowsInv, HandOver, SC!Places
<1>4. HandOver'
  BY <1>1, <1>2 DEF ChainInv, HandOver, Waiting
<1>5. KP!TypeOK /\ KP!TypeOK'
  BY <1>1 DEF ChainInv, KP!TypeOK, EP!A20
<1>6. KP!Inv
  <2>1. pc = "Main" /\ memoryRow = "blank" /\ \A p \in 0..(MB - 1) : mem[p] = "orig"
    BY <1>1 DEF ChainInv, HandOver, RowsInv
  <2>2. CodeWord..(MB - 1) \subseteq 0..(MB - 1)
    BY Sizes
  <2>3. KP!LowMemoryIntact /\ KP!CodeNeverCleared
    BY <2>1, <2>2 DEF KP!LowMemoryIntact, KP!CodeNeverCleared
  <2> QED BY <1>5, <2>1, <2>3
          DEF KP!Inv, KP!ProbeInv, KP!ClearInv, KP!RowInv, KP!ProbesWork,
              KP!KernelAreaReady, KP!NoFalseAlarm
<1>7. KP!Inv'
  <2>1. UNCHANGED KP!vars
    BY <1>1 DEF KP!vars, KP!machine, EP!A20
  <2> QED BY <1>6, <2>1, KernelKept
<1> QED BY <1>2, <1>3, <1>4, <1>5, <1>7 DEF ChainInv

\* The kernel's own invariant is kept, and its rows follow its steps.
LEMMA KernelChain == ASSUME ChainInv, KernelStep PROVE ChainInv'
<1>1. /\ at = "kernel" /\ at' = at /\ K!Next
      /\ UNCHANGED <<loader, registers, chipset, row1, row2>>
  BY DEF KernelStep
<1> USE DEF loader, registers, chipset
<1>2. EPP!Inv' /\ EPP!At("Main")'
  <2>1. UNCHANGED EPP!vars
    BY <1>1 DEF EPP!vars, EPP!registers, EPP!hardware
  <2> QED BY <1>1, <2>1, EntryKept DEF ChainInv, HandOver, EPP!At
<1>3. KP!Inv /\ KP!Inv' /\ KP!Next
  BY <1>1, KernelKept, SameKernelStep DEF ChainInv
<1>4. ImageInv' /\ HandOver'
  BY <1>1, <1>2 DEF ChainInv, ImageInv, HandOver, SC!Places, Waiting
<1>5. RowsInv'
  <2>1. KP!ClearInv /\ KP!TypeOK
    BY <1>3 DEF KP!Inv
  <2>2. /\ memoryRow = "blank" <=> pc = "Main"
        /\ areaRow # "blank" => memoryRow \in {"Pass", "Fail"}
    BY <1>1 DEF ChainInv, RowsInv
  <2>3. /\ memoryRow' = "blank" <=> pc' = "Main"
        /\ areaRow' # "blank" => memoryRow' \in {"Pass", "Fail"}
    <3>1. CASE KP!Main
      BY <2>2, <3>1 DEF KP!Main
    <3>2. CASE KP!Probe
      BY <2>2, <3>2 DEF KP!Probe
    <3>3. CASE KP!ProbeEnd
      BY <2>2, <3>3 DEF KP!ProbeEnd
    <3>4. CASE KP!Clear
      BY <2>1, <2>2, <3>4 DEF KP!Clear, KP!ClearInv
    <3>5. CASE KP!ClearEnd
      BY <2>1, <2>2, <3>5 DEF KP!ClearEnd, KP!ClearInv
    <3> QED BY <1>3, <3>1, <3>2, <3>3, <3>4, <3>5 DEF KP!Next
  <2> QED BY <1>1, <2>3 DEF ChainInv, RowsInv
<1> QED BY <1>1, <1>2, <1>3, <1>4, <1>5 DEF ChainInv, KP!Inv

\* A reset starts over on whatever there is.
LEMMA ResetChain == ASSUME ChainInv, Reset PROVE ChainInv'
<1>1. /\ at' = "START" /\ phase' = "loading" /\ disk' \in Disks
      /\ todo' = SC!Places(disk')
      /\ UNCHANGED <<biosA20, hasPort, ram, broken, void, rows>>
      /\ pc' = "Main" /\ pdwCurrentAddress' = MB
      /\ mem' = Restored(0..(CodeWord - 1))
  BY DEF Reset, Restart, SC!Restart
<1>2. /\ cpu' = "running" /\ eip' = 0 /\ esp' = EPP!StackTop
      /\ seg' = [CS |-> EPP!LoadBase, DS |-> 124 * 256,
                 ES |-> 0, FS |-> 0, GS |-> 0, SS |-> 0]
      /\ flagIF' = TRUE /\ carry' = FALSE /\ al' = {} /\ pe' = FALSE
      /\ gdtr' = EPP!NoGdt
      /\ gate' \in BOOLEAN /\ port' \in {port, {}}
  <2>1. EPP!StackTop = EP!StackTop /\ EPP!LoadBase = EP!LoadBase /\ EPP!NoGdt = EP!NoGdt
    BY DEF EP!StackTop, EPP!StackTop, EP!LoadBase, EPP!LoadBase, EP!Byte, EPP!Byte,
           EP!NoGdt, EPP!NoGdt
  <2>2. PICK shut \in BOOLEAN : /\ gate' = (gate /\ ~shut)
                                /\ port' = IF shut THEN {} ELSE port
    BY DEF Reset
  <2> QED BY <2>1, <2>2 DEF Reset
<1>3. seg' \in [EPP!DataSegments \cup {"CS"} -> Nat] /\ seg'["CS"] = EPP!LoadBase
  <2>1. EPP!LoadBase \in Nat
    BY EntryAssumptions, EPP!BaseNat
  <2> QED BY <1>2, <2>1 DEF EPP!DataSegments
<1>4. EPP!Inv' /\ EPP!At("START")'
  <2>1. EPP!TypeOK'
    <3>1. esp' \in Nat
      BY <1>2, EntryAssumptions, EPP!BaseNat
    <3>2. EPP!TypeOK
      BY DEF ChainInv, EPP!Inv
    <3>3. port' \subseteq PortBits \ {0} /\ row2' \in {"blank", "success"}
      BY <1>1, <1>2, <3>2 DEF EPP!TypeOK, rows
    <3>4. biosA20' \in BOOLEAN /\ hasPort' \in BOOLEAN
      BY <1>1, <3>2 DEF EPP!TypeOK
    <3> QED BY <1>2, <1>3, <3>1, <3>3, <3>4 DEF EPP!TypeOK
  <2>2. EPP!At("START")'
    BY <1>2, <1>3, EntryAssumptions, EPP!BaseNat
       DEF EPP!At, EPP!Address, EPP!OffsetAssumption
  <2>3. EPP!Control("START")' /\ EPP!GateFacts("START")'
    BY <1>2, <1>3
       DEF EPP!Control, EPP!GateFacts, EPP!Places, EPP!Labels, EPP!Early,
           EPP!Unswitched, EPP!Protected, EPP!Flat
  <2> QED BY <2>1, <2>2, <2>3, LabelFacts DEF EPP!Inv
<1>5. ImageInv'
  BY <1>1 DEF ImageInv, SC!Places
<1>6. DOMAIN mem = 0..(ram - 1) /\ ram \in Nat /\ ram >= MB
  BY KernelAssumptions DEF ChainInv, KP!TypeOK, KP!MachineAssumption
<1>7. \A p \in 0..(CodeWord - 1) : p \in DOMAIN mem
  BY <1>6, Sizes
<1>8. HandOver'
  BY <1>1, <1>4, <1>7 DEF HandOver, Waiting, Restored
<1>9. RowsInv'
  BY <1>1 DEF RowsInv
<1>10. KP!TypeOK'
  <2>1. mem' \in [0..(ram - 1) -> {"orig", "pattern", "zero"}]
    BY <1>1, <1>6 DEF Restored, ChainInv, KP!TypeOK
  <2> QED BY <1>1, <2>1, Sizes DEF ChainInv, KP!TypeOK, rows, EP!A20
<1> QED BY <1>1, <1>4, <1>5, <1>8, <1>9, <1>10 DEF ChainInv

LEMMA StutterChain == ASSUME ChainInv, UNCHANGED vars PROVE ChainInv'
<1>1. UNCHANGED <<at, loader, registers, chipset, kernel, rows>>
  BY DEF vars
<1> USE DEF loader, registers, chipset, kernel, rows
<1>2. UNCHANGED EPP!vars /\ UNCHANGED KP!vars
  BY <1>1 DEF EPP!vars, EPP!registers, EPP!hardware, KP!vars, KP!machine, EP!A20
<1>3. EPP!Inv'
  BY <1>2, EntryKept DEF ChainInv
<1>4. KP!TypeOK' /\ (at' = "kernel" => KP!Inv')
  BY <1>1, <1>2, KernelKept DEF ChainInv, KP!TypeOK, EP!A20
<1>5. ImageInv' /\ HandOver' /\ RowsInv'
  BY <1>1 DEF ChainInv, ImageInv, HandOver, RowsInv, SC!Places, Waiting, EPP!At
<1> QED BY <1>3, <1>4, <1>5 DEF ChainInv

LEMMA NextChain == ChainInv /\ [Next]_vars => ChainInv'
BY StartChain, CopyChain, FailChain, StartImageChain, EntryChain, EnterMainChain,
   KernelChain, ResetChain, StutterChain
   DEF Next, Load

-----------------------------------------------------------------------------
LEMMA AlwaysChain == Spec => []ChainInv
BY InitChain, NextChain, PTL DEF Spec

\* After any number of resets, with any disks, the image of this boot's disk
\* lies where it was loaded as long as its programs run, and low memory is as
\* the BIOS and the loader left it.
THEOREM ImageStaysHolds == Spec => []ImageStays
<1>1. ChainInv => ImageStays
  <2> SUFFICES ASSUME ChainInv, at \in {"entry", "kernel"}, CanOpen
               PROVE  /\ \A k \in SC!Places(disk) :
                           /\ SlotAddress(k) \in DOMAIN memory
                           /\ memory[SlotAddress(k)] = <<disk, k + 1>>
                      /\ at = "kernel" => \A p \in 0..(MB - 1) : mem[p] = "orig"
    BY DEF ImageStays
  <2>1. \A k \in SC!Places(disk) :
          SlotAddress(k) \in DOMAIN memory /\ memory[SlotAddress(k)] = <<disk, k + 1>>
    BY DEF ChainInv, ImageInv
  <2>2. ASSUME at = "kernel" PROVE \A p \in 0..(MB - 1) : mem[p] = "orig"
    <3>1. EPP!Control("Main") /\ EPP!GateFacts("Main")
      BY <2>2, LabelFacts, AtLabel DEF ChainInv, HandOver
    <3>2. EPP!A20
      BY <3>1 DEF EPP!GateFacts, EPP!Early, CanOpen
    <3>3. KP!LowMemoryIntact
      BY <2>2 DEF ChainInv, KP!Inv
    <3> QED BY <3>2, <3>3, SameGate DEF KP!LowMemoryIntact
  <2> QED BY <2>1, <2>2
<1> QED BY <1>1, AlwaysChain, PTL

\* Whatever earlier boots have written, the rows tell how far this one has come.
THEOREM ScreenOfThisBootHolds == Spec => []ScreenOfThisBoot
<1>1. ChainInv => ScreenOfThisBoot
  <2> SUFFICES ASSUME ChainInv, at # "START" PROVE ScreenOfThisBoot
    BY DEF ScreenOfThisBoot
  <2>1. at = "kernel" => row2 = "success"
    <3> SUFFICES ASSUME at = "kernel" PROVE row2 = "success"
      OBVIOUS
    <3>1. EPP!Control("Main")
      BY LabelFacts, AtLabel DEF ChainInv, HandOver
    <3> QED BY <3>1 DEF EPP!Control
  <2> QED BY <2>1 DEF ScreenOfThisBoot, ChainInv, RowsInv, HandOver, Waiting
<1> QED BY <1>1, AlwaysChain, PTL

\* "Pass" and "Fail" are true of the machine also where an earlier boot left its
\* patterns in memory.
THEOREM SaysTrueHolds == Spec => []SaysTrue
<1>1. ChainInv => SaysTrue
  <2> SUFFICES ASSUME ChainInv, at = "kernel"
               PROVE  K!KernelAreaReady /\ K!NoFalseAlarm /\ K!ProbesWork
    BY DEF SaysTrue
  <2>1. KP!KernelAreaReady /\ KP!NoFalseAlarm /\ KP!ProbesWork
    BY DEF ChainInv, KP!Inv
  <2> QED BY <2>1
          DEF KP!KernelAreaReady, KP!NoFalseAlarm, KP!ProbesWork, K!KernelAreaReady,
              K!NoFalseAlarm, K!ProbesWork, KP!AreaWord, K!AreaWord, KP!FirstWord,
              K!FirstWord, KP!Loaded, K!Loaded, KP!Probes, K!Probes, KP!Works, K!Works,
              KP!Phys, K!Phys
<1> QED BY <1>1, AlwaysChain, PTL

\* The switch to protected mode works as well after resets, with the screen and
\* the gate as earlier boots left them: it does not fault, and the C code finds
\* what it relies on, the open gate included where there is a way to open it.
THEOREM SwitchWorksAgain == Spec => [](EP!StaysUp /\ EP!ReadyForC /\ EP!GateOpened)
<1>1. ChainInv => EP!StaysUp /\ EP!ReadyForC /\ EP!GateOpened
  <2> SUFFICES ASSUME ChainInv PROVE EP!StaysUp /\ EP!ReadyForC /\ EP!GateOpened
    OBVIOUS
  <2>1. EPP!StaysUp /\ EPP!ReadyForC /\ EPP!GateOpened
    BY EntryAssumptions, EPP!InvMeans DEF ChainInv
  <2>2. EP!StackTop = EPP!StackTop
    BY DEF EP!StackTop, EPP!StackTop, EP!LoadBase, EPP!LoadBase, EP!Byte, EPP!Byte
  <2> QED BY <2>1, <2>2, SameLabel, SameGate
          DEF EP!StaysUp, EPP!StaysUp, EP!ReadyForC, EPP!ReadyForC, EP!GateOpened,
              EPP!GateOpened
<1> QED BY <1>1, AlwaysChain, PTL

\* The chain loads as the abstract loader does, resets included: the programs
\* that follow change neither the image nor what is left to copy.
THEOREM LoadsAsSpecified == Spec => SC!Safety
<1>1. Init => SC!Init
  BY DEF Init
<1>2. [Next]_vars => [SC!Next]_(SC!vars)
  BY DEF Next, Load, Start, Copy, Fail, StartImage, EntryStep, Interrupted, Return,
         EntryFrame, EnterMain, KernelStep, Reset, Restart, loader, vars,
         SC!Next, SC!Load, SC!vars
<1> QED BY <1>1, <1>2, PTL DEF Spec, SC!Safety
=============================================================================
