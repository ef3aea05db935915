----------------------------- MODULE EntryPoint -----------------------------
(***************************************************************************)
(* The entry point of the kernel, 01.Kernel32/Source/EntryPoint.s: it asks *)
(* the BIOS, then the system control port, to open the A20 gate, switches  *)
(* the processor to protected mode and jumps to the C code.  An interrupt  *)
(* may come between any two instructions as long as they are enabled; in   *)
(* protected mode, where there is no IDT, it stops the machine.  The next  *)
(* instruction is the one found at CS base + EIP, whatever the program     *)
(* meant, and descriptors come from the table GDTR really points to.       *)
(***************************************************************************)
EXTENDS Integers

CONSTANTS
  Offset,         \* label |-> its offset in the entry point's 512 bytes
  FirmwareBases,  \* bases that ES, FS and GS may come with
  PortBits        \* the bits of the system control port that are explored

Labels == {"START", "INT15", "JC", "A20GATEERROR", "OUT", "A20GATESUCCESS",
           "LGDT", "MOVCR0", "FARJUMP", "PROTECTEDMODE", "PRINT", "JUMPTOC"}
Data   == {"GDTR", "GDT"}

Byte       == 256
EntryBytes == 2 * Byte           \* 512

ASSUME OffsetAssumption ==
  /\ Offset \in [Labels \cup Data -> 0..(EntryBytes - 1)]
  /\ \A l, m \in Labels \cup Data : Offset[l] = Offset[m] => l = m
  /\ Offset["START"] = 0

ASSUME HardwareAssumption ==
  /\ FirmwareBases \subseteq Nat
  /\ {0, 1} \subseteq PortBits

VARIABLES
  cpu,       \* "running", "handler" (of an interrupt), "shutdown" or "reset"
  eip, seg,  \* the offset of the next instruction; the base of every segment
  esp,       \* its upper half is whatever the BIOS left
  flagIF,    \* are interrupts enabled?
  carry,
  al,        \* the bits set in AL
  pe,        \* CR0.PE
  gdtr,
  biosA20,   \* does the BIOS know how to open the gate?
  hasPort,   \* is there a system control port?
  port,      \* the bits set in it
  gate,      \* has the gate been opened by other means than the port?
  row2       \* the screen's row 2

registers == <<eip, seg, esp, flagIF, carry, al, pe, gdtr>>
hardware  == <<biosA20, hasPort, port, gate>>
vars      == <<cpu, registers, hardware, row2>>

LoadBase == Byte * Byte          \* 0x10000
CEntry   == 258 * Byte           \* 0x10200
StackTop == LoadBase - 2         \* 0xFFFE

DataSegments == {"DS", "ES", "FS", "GS", "SS"}

A20 == gate \/ (hasPort /\ 1 \in port)

Address(l) == IF l = "Main" THEN LoadBase + EntryBytes ELSE LoadBase + Offset[l]

\* the label's instruction is the next one
At(l) == seg["CS"] + eip = Address(l)

Executes(l) == cpu = "running" /\ At(l)

\* fall through, or jump relative to EIP, from l to a later m
Continue(l, m) == eip' = eip + (Address(m) - Address(l))

\* GDTR: limit and linear address of the table
GdtPointer == [limit |-> 23, base |-> LoadBase + Offset["GDT"]]

NoGdt == [limit |-> 0, base |-> 0]

\* the table: a null descriptor, flat code and flat data
Gdt == [s \in {0, 8, 16} |-> CASE s = 8 -> "code" [] s = 16 -> "data" [] OTHER -> "null"]

Descriptor(s) ==
  IF gdtr.base = LoadBase + Offset["GDT"] /\ s + 7 <= gdtr.limit THEN Gdt[s] ELSE "invalid"

\* what loading a segment register with s needs, and the base it brings
Loadable(s, kind) == pe => Descriptor(s) = kind
BaseOf(s)         == IF pe THEN 0 ELSE 16 * s

-----------------------------------------------------------------------------
\* as the boot loader and the BIOS leave the machine
Init ==
  /\ cpu = "running"
  /\ eip = 0
  /\ \E es, fs, gs \in FirmwareBases :
       seg = [CS |-> LoadBase, DS |-> 124 * Byte, ES |-> es, FS |-> fs, GS |-> gs, SS |-> 0]
  /\ \E high \in 0..1 : esp = high * LoadBase + StackTop
  /\ flagIF \in BOOLEAN /\ carry \in BOOLEAN
  /\ al = {} /\ pe = FALSE /\ gdtr = NoGdt
  /\ biosA20 \in BOOLEAN /\ hasPort \in BOOLEAN
  /\ port \in SUBSET (PortBits \ {0})
  /\ gate \in BOOLEAN
  /\ row2 = "blank"

Start ==
  /\ Executes("START")
  /\ seg' = [seg EXCEPT !["DS"] = BaseOf(16 * Byte), !["ES"] = BaseOf(16 * Byte)]
  /\ Continue("START", "INT15")
  /\ UNCHANGED <<cpu, esp, flagIF, carry, al, pe, gdtr, hardware, row2>>

\* the BIOS opens the gate or sets the carry flag; it may enable interrupts
ActivateA20ByBios ==
  /\ Executes("INT15")
  /\ gate' = (gate \/ biosA20)
  /\ carry' = ~biosA20
  /\ flagIF' \in {flagIF, TRUE}
  /\ Continue("INT15", "JC")
  /\ UNCHANGED <<cpu, seg, esp, al, pe, gdtr, biosA20, hasPort, port, row2>>

\* mutant: "jnc"
TestCarryInverted ==
  /\ Executes("JC")
  /\ IF carry THEN Continue("JC", "A20GATESUCCESS") ELSE Continue("JC", "A20GATEERROR")
  /\ UNCHANGED <<cpu, seg, esp, flagIF, carry, al, pe, gdtr, hardware, row2>>

TestCarry ==
  /\ Executes("JC")
  /\ IF carry THEN Continue("JC", "A20GATEERROR") ELSE Continue("JC", "A20GATESUCCESS")
  /\ UNCHANGED <<cpu, seg, esp, flagIF, carry, al, pe, gdtr, hardware, row2>>

\* what "in al, 0x92" may give: bit 0 can be read as anything
PortReads == IF hasPort THEN {port, port \cup {0}} ELSE {PortBits}

\* mutant: "and al, 0xFE" is missing
ReadPortNoMask ==
  /\ Executes("A20GATEERROR")
  /\ \E read \in PortReads : al' = read \cup {1}
  /\ Continue("A20GATEERROR", "OUT")
  /\ UNCHANGED <<cpu, seg, esp, flagIF, carry, pe, gdtr, hardware, row2>>

\* mutant: "mov al, 0x02"
ReadPortOverwrites ==
  /\ Executes("A20GATEERROR")
  /\ al' = {1}
  /\ Continue("A20GATEERROR", "OUT")
  /\ UNCHANGED <<cpu, seg, esp, flagIF, carry, pe, gdtr, hardware, row2>>

ReadPort ==
  /\ Executes("A20GATEERROR")
  /\ \E read \in PortReads : al' = (read \cup {1}) \ {0}
  /\ Continue("A20GATEERROR", "OUT")
  /\ UNCHANGED <<cpu, seg, esp, flagIF, carry, pe, gdtr, hardware, row2>>

\* a 1 in bit 0 resets the machine
WritePort ==
  /\ Executes("OUT")
  /\ port' = IF hasPort THEN al ELSE port
  /\ cpu' = IF hasPort /\ 0 \in al THEN "reset" ELSE cpu
  /\ Continue("OUT", "A20GATESUCCESS")
  /\ UNCHANGED <<seg, esp, flagIF, carry, al, pe, gdtr, biosA20, hasPort, gate, row2>>

\* mutant: no cli
CliMissing ==
  /\ Executes("A20GATESUCCESS")
  /\ Continue("A20GATESUCCESS", "LGDT")
  /\ UNCHANGED <<cpu, seg, esp, flagIF, carry, al, pe, gdtr, hardware, row2>>

Cli ==
  /\ Executes("A20GATESUCCESS")
  /\ flagIF' = FALSE
  /\ Continue("A20GATESUCCESS", "LGDT")
  /\ UNCHANGED <<cpu, seg, esp, carry, al, pe, gdtr, hardware, row2>>

\* the operand is an offset in DS
Lgdt ==
  /\ Executes("LGDT")
  /\ gdtr' = IF seg["DS"] + Offset["GDTR"] = Address("GDTR") THEN GdtPointer ELSE NoGdt
  /\ Continue("LGDT", "MOVCR0")
  /\ UNCHANGED <<cpu, seg, esp, flagIF, carry, al, pe, hardware, row2>>

EnableProtection ==
  /\ Executes("MOVCR0")
  /\ pe' = TRUE
  /\ Continue("MOVCR0", "FARJUMP")
  /\ UNCHANGED <<cpu, seg, esp, flagIF, carry, al, gdtr, hardware, row2>>

\* jmp dword 0x08: target
FarJump(target) ==
  /\ seg' = [seg EXCEPT !["CS"] = BaseOf(8)]
  /\ eip' = target
  /\ cpu' = IF Loadable(8, "code") THEN cpu ELSE "shutdown"
  /\ UNCHANGED <<esp, flagIF, carry, al, pe, gdtr, hardware, row2>>

\* mutant: "PROTECTEDMODE - $$"
JumpToProtectedModeRelative ==
  Executes("FARJUMP") /\ FarJump(Offset["PROTECTEDMODE"])

JumpToProtectedMode ==
  Executes("FARJUMP") /\ FarJump(LoadBase + Offset["PROTECTEDMODE"])

\* mutant: GS is forgotten
LoadSegmentsNoGs ==
  /\ Executes("PROTECTEDMODE")
  /\ seg' = [s \in DataSegments \cup {"CS"} |->
               IF s \in DataSegments \ {"GS"} THEN BaseOf(16) ELSE seg[s]]
  /\ esp' = StackTop
  /\ cpu' = IF Loadable(16, "data") THEN cpu ELSE "shutdown"
  /\ Continue("PROTECTEDMODE", "PRINT")
  /\ UNCHANGED <<flagIF, carry, al, pe, gdtr, hardware, row2>>

\* all data segments and the stack
LoadSegments ==
  /\ Executes("PROTECTEDMODE")
  /\ seg' = [s \in DataSegments \cup {"CS"} |->
               IF s \in DataSegments THEN BaseOf(16) ELSE seg[s]]
  /\ esp' = StackTop
  /\ cpu' = IF Loadable(16, "data") THEN cpu ELSE "shutdown"
  /\ Continue("PROTECTEDMODE", "PRINT")
  /\ UNCHANGED <<flagIF, carry, al, pe, gdtr, hardware, row2>>

\* PRINTMESSAGE writes through DS and leaves stack and registers as they were
PrintSuccess ==
  /\ Executes("PRINT")
  /\ row2' = IF seg["DS"] = 0 THEN "success" ELSE row2
  /\ Continue("PRINT", "JUMPTOC")
  /\ UNCHANGED <<cpu, seg, esp, flagIF, carry, al, pe, gdtr, hardware>>

JumpToC == Executes("JUMPTOC") /\ FarJump(CEntry)

\* a maskable interrupt between two instructions of this program
Interrupt ==
  /\ cpu = "running"
  /\ flagIF
  /\ cpu' = IF pe THEN "shutdown" ELSE "handler"
  /\ flagIF' = FALSE
  /\ UNCHANGED <<eip, seg, esp, carry, al, pe, gdtr, hardware, row2>>

\* iret brings back the flags and everything the handler saved
Return ==
  /\ cpu = "handler"
  /\ cpu' = "running"
  /\ flagIF' = TRUE
  /\ UNCHANGED <<eip, seg, esp, carry, al, pe, gdtr, hardware, row2>>

Step ==
  \/ Start \/ ActivateA20ByBios \/ TestCarry \/ ReadPort \/ WritePort
  \/ Cli \/ Lgdt \/ EnableProtection \/ JumpToProtectedMode
  \/ LoadSegments \/ PrintSuccess \/ JumpToC

Next == Step \/ Interrupt \/ Return

Safety == Init /\ [][Next]_vars

\* the processor runs, handlers return, and interrupts are rarer than
\* instructions: the program gets a step in between
Spec == Safety /\ SF_vars(Step) /\ WF_vars(Return)

-----------------------------------------------------------------------------
TypeOK ==
  /\ cpu \in {"running", "handler", "shutdown", "reset"}
  /\ eip \in Nat /\ esp \in Nat
  /\ seg \in [DataSegments \cup {"CS"} -> Nat]
  /\ flagIF \in BOOLEAN /\ carry \in BOOLEAN /\ pe \in BOOLEAN
  /\ al \subseteq PortBits \ {0} /\ port \subseteq PortBits \ {0}
  /\ gdtr \in {NoGdt, GdtPointer}
  /\ biosA20 \in BOOLEAN /\ hasPort \in BOOLEAN /\ gate \in BOOLEAN
  /\ row2 \in {"blank", "success"}

\* The switch neither triple-faults nor resets the machine, wherever interrupts
\* come and whatever the control port reads (lines 27-45).
StaysUp == cpu \notin {"shutdown", "reset"}

\* What the C code relies on when it is entered at 0x10200: protected mode, no
\* interrupts, every segment flat, the stack below the kernel (lines 40-73).
ReadyForC ==
  At("Main") =>
    /\ pe /\ ~flagIF
    /\ \A s \in DOMAIN seg : seg[s] = 0
    /\ esp = StackTop
    /\ row2 = "success"

\* The gate is open when the C code starts if the BIOS or the control port is
\* able to open it ("if the BIOS fails, try the system control port", line 16).
GateOpened == At("Main") /\ (biosA20 \/ hasPort) => A20

\* The entry point never shuts an open gate, and of the control port it changes
\* nothing but the gate's bit (lines 27-30).
OnlyOpensGate == [][(A20 => A20') /\ port' \ {1} = port \ {1}]_vars

\* The C code is reached, with the gate open or shut (lines 45-73).
EntersMain == <>[]At("Main")
=============================================================================
