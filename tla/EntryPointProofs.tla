-------------------------- MODULE EntryPointProofs --------------------------
(***************************************************************************)
(* Safety of the switch to protected mode, for every layout of the entry   *)
(* point's 512 bytes and every machine.  The invariant says, for the one   *)
(* label the next instruction is at, what has been achieved by then.       *)
(***************************************************************************)
EXTENDS EntryPoint, TLAPS

Places    == Labels \cup {"Main"}
Early     == {"START", "INT15", "JC", "A20GATEERROR", "OUT", "A20GATESUCCESS"}
Unswitched == Early \cup {"LGDT", "MOVCR0"}
Protected == {"PROTECTEDMODE", "PRINT", "JUMPTOC", "Main"}
Flat      == {"PRINT", "JUMPTOC", "Main"}

Control(l) ==
  /\ cpu = "running" \/ (cpu = "handler" /\ l \in Early)
  /\ l \notin Early => ~flagIF
  /\ pe <=> l \notin Unswitched
  /\ seg["CS"] = IF l \in Protected THEN 0 ELSE LoadBase
  /\ l \in Unswitched \ {"START"} => seg["DS"] = LoadBase
  /\ l \notin Early \cup {"LGDT"} => gdtr = GdtPointer
  /\ l \in Flat => esp = StackTop /\ \A s \in DataSegments : seg[s] = 0
  /\ l \in {"JUMPTOC", "Main"} => row2 = "success"

GateFacts(l) ==
  /\ l = "JC" => carry = ~biosA20 /\ (biosA20 => gate)
  /\ l \in {"A20GATEERROR", "OUT"} => ~biosA20
  /\ l = "OUT" => 1 \in al /\ (hasPort => al = port \cup {1})
  /\ l \notin Early \ {"A20GATESUCCESS"} => (biosA20 \/ hasPort => A20)

Inv == TypeOK /\ \E l \in Places : At(l) /\ Control(l) /\ GateFacts(l)

-----------------------------------------------------------------------------
LEMMA BaseNat == LoadBase \in Nat /\ StackTop \in Nat /\ CEntry = LoadBase + EntryBytes
                 /\ EntryBytes \in Nat
  BY DEF LoadBase, StackTop, CEntry, EntryBytes, Byte

LEMMA OffsetNat ==
  ASSUME NEW l \in Labels
  PROVE  Offset[l] \in Nat /\ Offset[l] < EntryBytes
  <1>1. Offset[l] \in 0..(EntryBytes - 1)
    BY OffsetAssumption
  <1> QED
    BY <1>1, BaseNat

LEMMA MainIsNoLabel == "Main" \notin Labels
  BY DEF Labels

\* No two labels share an address.
LEMMA AddressUnique ==
  ASSUME NEW l \in Places, NEW m \in Places, Address(l) = Address(m)
  PROVE  l = m
  <1>1. CASE l \in Labels /\ m \in Labels
    <2>1. Offset[l] = Offset[m]
      BY <1>1, OffsetNat, BaseNat, MainIsNoLabel DEF Address
    <2> QED
      BY <1>1, <2>1, OffsetAssumption
  <1>2. CASE l = "Main" /\ m \in Labels
    BY <1>2, OffsetNat, BaseNat, MainIsNoLabel DEF Address
  <1>3. CASE l \in Labels /\ m = "Main"
    BY <1>3, OffsetNat, BaseNat, MainIsNoLabel DEF Address
  <1> QED
    BY <1>1, <1>2, <1>3 DEF Places

LEMMA AddressNat ==
  ASSUME NEW l \in Places
  PROVE  /\ Address(l) \in Nat
         /\ Address(l) - LoadBase \in Nat
  BY OffsetNat, BaseNat, MainIsNoLabel DEF Places, Address

\* There is one place the next instruction can be at.
LEMMA OnePlace ==
  ASSUME NEW l \in Places, At(l), NEW m \in Places, At(m)
  PROVE  l = m
  BY AddressUnique DEF At

\* Falling through from l to m, with the same CS, leads to m.
LEMMA ContinueArrives ==
  ASSUME NEW l \in Places, NEW m \in Places, TypeOK, At(l), Continue(l, m),
         seg'["CS"] = seg["CS"], seg["CS"] \in {0, LoadBase}
  PROVE  At(m)' /\ eip' \in Nat
  <1>1. /\ eip \in Nat /\ seg["CS"] \in Nat
        /\ Address(l) \in Nat /\ Address(m) \in Nat /\ Address(m) - LoadBase \in Nat
    BY AddressNat, BaseNat DEF TypeOK
  <1>2. Address(m)' = Address(m)
    BY DEF Address
  <1> QED
    BY <1>1, <1>2, BaseNat DEF At, Continue

\* What is known where the program starts.
LEMMA InitInv == Init => Inv
  <1> SUFFICES ASSUME Init PROVE Inv
    OBVIOUS
  <1>1. seg \in [DataSegments \cup {"CS"} -> Nat] /\ seg["CS"] = LoadBase
    BY HardwareAssumption, BaseNat DEF Init, DataSegments, Byte
  <1>2. TypeOK
    <2>1. PICK high \in 0..1 : esp = high * LoadBase + StackTop
      BY DEF Init
    <2>2. high * LoadBase \in Nat
      BY BaseNat
    <2>3. esp \in Nat
      BY <2>1, <2>2, BaseNat
    <2> QED
      BY <1>1, <2>3 DEF Init, TypeOK
  <1>3. At("START")
    BY <1>1, OffsetAssumption, BaseNat DEF Init, At, Address
  <1>4. Control("START") /\ GateFacts("START")
    BY <1>1 DEF Init, Control, GateFacts, Places, Labels, Early, Unswitched, Protected, Flat
  <1> QED
    BY <1>2, <1>3, <1>4 DEF Inv, Places, Labels

LEMMA StartInv ==
  ASSUME Inv, Start
  PROVE  Inv'
  <1>1. PICK l \in Places : At(l) /\ Control(l) /\ GateFacts(l)
    BY DEF Inv
  <1>2. TypeOK /\ Executes("START")
    BY DEF Inv, Start
  <1>3. l = "START"
    BY <1>1, <1>2, OnePlace DEF Executes, Places, Labels
  <1>4. /\ seg' \in [DataSegments \cup {"CS"} -> Nat]
        /\ seg'["DS"] = LoadBase /\ seg'["CS"] = seg["CS"]
    <2>1. ~pe
      BY <1>1, <1>3 DEF Control, Unswitched, Early
    <2>2. BaseOf(16 * Byte) = LoadBase
      BY <2>1 DEF BaseOf, LoadBase, Byte
    <2> QED
      BY <1>2, <2>2, BaseNat DEF TypeOK, Start, DataSegments
  <1>5. seg["CS"] \in {0, LoadBase}
    BY <1>1 DEF Control
  <1>6. At("INT15")' /\ eip' \in Nat
    BY <1>1, <1>2, <1>3, <1>4, <1>5, ContinueArrives DEF Start, Places, Labels
  <1>7. TypeOK'
    BY <1>2, <1>4, <1>6 DEF TypeOK, Start, hardware
  <1>8. Control("INT15")' /\ GateFacts("INT15")'
    BY <1>1, <1>2, <1>3, <1>4 DEF Executes, Control, GateFacts, Start, A20,
       hardware, Places, Labels, Early, Unswitched, Protected, Flat
  <1> QED
    BY <1>6, <1>7, <1>8 DEF Inv, Places, Labels

LEMMA ActivateA20ByBiosInv ==
  ASSUME Inv, ActivateA20ByBios
  PROVE  Inv'
  <1>1. PICK l \in Places : At(l) /\ Control(l) /\ GateFacts(l)
    BY DEF Inv
  <1>2. TypeOK /\ Executes("INT15")
    BY DEF Inv, ActivateA20ByBios
  <1>3. l = "INT15"
    BY <1>1, <1>2, OnePlace DEF Executes, Places, Labels
  <1>4. /\ seg' \in [DataSegments \cup {"CS"} -> Nat]
        /\ seg' = seg
    BY <1>2 DEF TypeOK, ActivateA20ByBios
  <1>5. seg["CS"] \in {0, LoadBase}
    BY <1>1 DEF Control
  <1>6. At("JC")' /\ eip' \in Nat
    BY <1>1, <1>2, <1>3, <1>4, <1>5, ContinueArrives DEF ActivateA20ByBios, Places, Labels
  <1>7. TypeOK'
    BY <1>2, <1>4, <1>6 DEF TypeOK, ActivateA20ByBios, hardware
  <1>8. Control("JC")' /\ GateFacts("JC")'
    BY <1>1, <1>2, <1>3, <1>4 DEF Executes, Control, GateFacts, ActivateA20ByBios, A20,
       hardware, TypeOK, Places, Labels, Early, Unswitched, Protected, Flat
  <1> QED
    BY <1>6, <1>7, <1>8 DEF Inv, Places, Labels

LEMMA TestCarryInv ==
  ASSUME Inv, TestCarry
  PROVE  Inv'
  <1>1. PICK l \in Places : At(l) /\ Control(l) /\ GateFacts(l)
    BY DEF Inv
  <1>2. TypeOK /\ Executes("JC")
    BY DEF Inv, TestCarry
  <1>3. l = "JC"
    BY <1>1, <1>2, OnePlace DEF Executes, Places, Labels
  <1>4. seg["CS"] = LoadBase /\ seg' = seg
    BY <1>1, <1>3 DEF Control, TestCarry, Protected
  <1>5. CASE carry
    <2>1. At("A20GATEERROR")' /\ eip' \in Nat
      BY <1>1, <1>2, <1>3, <1>4, <1>5, ContinueArrives DEF TestCarry, Places, Labels
    <2>2. TypeOK'
      BY <1>2, <1>4, <2>1 DEF TypeOK, TestCarry, hardware
    <2>3. Control("A20GATEERROR")' /\ GateFacts("A20GATEERROR")'
      BY <1>1, <1>2, <1>3, <1>5 DEF Executes, Control, GateFacts, TestCarry, hardware,
         Places, Labels, Early, Unswitched, Protected, Flat
    <2> QED
      BY <2>1, <2>2, <2>3 DEF Inv, Places, Labels
  <1>6. CASE ~carry
    <2>1. At("A20GATESUCCESS")' /\ eip' \in Nat
      BY <1>1, <1>2, <1>3, <1>4, <1>6, ContinueArrives DEF TestCarry, Places, Labels
    <2>2. TypeOK'
      BY <1>2, <1>4, <2>1 DEF TypeOK, TestCarry, hardware
    <2>3. Control("A20GATESUCCESS")' /\ GateFacts("A20GATESUCCESS")'
      BY <1>1, <1>2, <1>3, <1>6 DEF Executes, Control, GateFacts, TestCarry, hardware, A20,
         Places, Labels, Early, Unswitched, Protected, Flat
    <2> QED
      BY <2>1, <2>2, <2>3 DEF Inv, Places, Labels
  <1> QED
    BY <1>5, <1>6

LEMMA ReadPortInv ==
  ASSUME Inv, ReadPort
  PROVE  Inv'
  <1>1. PICK l \in Places : At(l) /\ Control(l) /\ GateFacts(l)
    BY DEF Inv
  <1>2. TypeOK /\ Executes("A20GATEERROR")
    BY DEF Inv, ReadPort
  <1>3. l = "A20GATEERROR"
    BY <1>1, <1>2, OnePlace DEF Executes, Places, Labels
  <1>4. /\ seg' \in [DataSegments \cup {"CS"} -> Nat]
        /\ seg' = seg
    BY <1>2 DEF TypeOK, ReadPort
  <1>5. seg["CS"] \in {0, LoadBase}
    BY <1>1 DEF Control
  <1>6. At("OUT")' /\ eip' \in Nat
    BY <1>1, <1>2, <1>3, <1>4, <1>5, ContinueArrives DEF ReadPort, Places, Labels
  <1>7. TypeOK'
    BY <1>2, <1>4, <1>6, HardwareAssumption DEF TypeOK, ReadPort, hardware, PortReads
  <1>8. Control("OUT")' /\ GateFacts("OUT")'
    BY <1>1, <1>2, <1>3, <1>4 DEF Executes, Control, GateFacts, ReadPort, A20,
       hardware, PortReads, TypeOK, Places, Labels, Early, Unswitched, Protected, Flat
  <1> QED
    BY <1>6, <1>7, <1>8 DEF Inv, Places, Labels

LEMMA WritePortInv ==
  ASSUME Inv, WritePort
  PROVE  Inv'
  <1>1. PICK l \in Places : At(l) /\ Control(l) /\ GateFacts(l)
    BY DEF Inv
  <1>2. TypeOK /\ Executes("OUT")
    BY DEF Inv, WritePort
  <1>3. l = "OUT"
    BY <1>1, <1>2, OnePlace DEF Executes, Places, Labels
  <1>4. /\ seg' \in [DataSegments \cup {"CS"} -> Nat]
        /\ seg' = seg
    BY <1>2 DEF TypeOK, WritePort
  <1>5. seg["CS"] \in {0, LoadBase}
    BY <1>1 DEF Control
  <1>6. At("A20GATESUCCESS")' /\ eip' \in Nat
    BY <1>1, <1>2, <1>3, <1>4, <1>5, ContinueArrives DEF WritePort, Places, Labels
  <1>7. TypeOK'
    BY <1>2, <1>4, <1>6, HardwareAssumption DEF TypeOK, WritePort, hardware
  <1>8. Control("A20GATESUCCESS")' /\ GateFacts("A20GATESUCCESS")'
    BY <1>1, <1>2, <1>3, <1>4 DEF Executes, Control, GateFacts, WritePort, A20,
       hardware, TypeOK, Places, Labels, Early, Unswitched, Protected, Flat
  <1> QED
    BY <1>6, <1>7, <1>8 DEF Inv, Places, Labels

LEMMA CliInv ==
  ASSUME Inv, Cli
  PROVE  Inv'
  <1>1. PICK l \in Places : At(l) /\ Control(l) /\ GateFacts(l)
    BY DEF Inv
  <1>2. TypeOK /\ Executes("A20GATESUCCESS")
    BY DEF Inv, Cli
  <1>3. l = "A20GATESUCCESS"
    BY <1>1, <1>2, OnePlace DEF Executes, Places, Labels
  <1>4. /\ seg' \in [DataSegments \cup {"CS"} -> Nat]
        /\ seg' = seg
    BY <1>2 DEF TypeOK, Cli
  <1>5. seg["CS"] \in {0, LoadBase}
    BY <1>1 DEF Control
  <1>6. At("LGDT")' /\ eip' \in Nat
    BY <1>1, <1>2, <1>3, <1>4, <1>5, ContinueArrives DEF Cli, Places, Labels
  <1>7. TypeOK'
    BY <1>2, <1>4, <1>6 DEF TypeOK, Cli, hardware
  <1>8. Control("LGDT")' /\ GateFacts("LGDT")'
    BY <1>1, <1>2, <1>3, <1>4 DEF Executes, Control, GateFacts, Cli, A20,
       hardware, Places, Labels, Early, Unswitched, Protected, Flat
  <1> QED
    BY <1>6, <1>7, <1>8 DEF Inv, Places, Labels

LEMMA LgdtInv ==
  ASSUME Inv, Lgdt
  PROVE  Inv'
  <1>1. PICK l \in Places : At(l) /\ Control(l) /\ GateFacts(l)
    BY DEF Inv
  <1>2. TypeOK /\ Executes("LGDT")
    BY DEF Inv, Lgdt
  <1>3. l = "LGDT"
    BY <1>1, <1>2, OnePlace DEF Executes, Places, Labels
  <1>4. /\ seg' \in [DataSegments \cup {"CS"} -> Nat]
        /\ seg' = seg
    BY <1>2 DEF TypeOK, Lgdt
  <1>5. seg["CS"] \in {0, LoadBase}
    BY <1>1 DEF Control
  <1>6. At("MOVCR0")' /\ eip' \in Nat
    BY <1>1, <1>2, <1>3, <1>4, <1>5, ContinueArrives DEF Lgdt, Places, Labels
  <1>7. TypeOK'
    BY <1>2, <1>4, <1>6 DEF TypeOK, Lgdt, hardware
  <1>8. Control("MOVCR0")' /\ GateFacts("MOVCR0")'
    BY <1>1, <1>2, <1>3, <1>4 DEF Executes, Control, GateFacts, Lgdt, A20,
       hardware, Address, Data, Places, Labels, Early, Unswitched, Protected, Flat
  <1> QED
    BY <1>6, <1>7, <1>8 DEF Inv, Places, Labels

LEMMA EnableProtectionInv ==
  ASSUME Inv, EnableProtection
  PROVE  Inv'
  <1>1. PICK l \in Places : At(l) /\ Control(l) /\ GateFacts(l)
    BY DEF Inv
  <1>2. TypeOK /\ Executes("MOVCR0")
    BY DEF Inv, EnableProtection
  <1>3. l = "MOVCR0"
    BY <1>1, <1>2, OnePlace DEF Executes, Places, Labels
  <1>4. /\ seg' \in [DataSegments \cup {"CS"} -> Nat]
        /\ seg' = seg
    BY <1>2 DEF TypeOK, EnableProtection
  <1>5. seg["CS"] \in {0, LoadBase}
    BY <1>1 DEF Control
  <1>6. At("FARJUMP")' /\ eip' \in Nat
    BY <1>1, <1>2, <1>3, <1>4, <1>5, ContinueArrives DEF EnableProtection, Places, Labels
  <1>7. TypeOK'
    BY <1>2, <1>4, <1>6 DEF TypeOK, EnableProtection, hardware
  <1>8. Control("FARJUMP")' /\ GateFacts("FARJUMP")'
    BY <1>1, <1>2, <1>3, <1>4 DEF Executes, Control, GateFacts, EnableProtection, A20,
       hardware, Places, Labels, Early, Unswitched, Protected, Flat
  <1> QED
    BY <1>6, <1>7, <1>8 DEF Inv, Places, Labels

LEMMA JumpToProtectedModeInv ==
  ASSUME Inv, JumpToProtectedMode
  PROVE  Inv'
  <1>1. PICK l \in Places : At(l) /\ Control(l) /\ GateFacts(l)
    BY DEF Inv
  <1>2. TypeOK /\ Executes("FARJUMP")
    BY DEF Inv, JumpToProtectedMode
  <1>3. l = "FARJUMP"
    BY <1>1, <1>2, OnePlace DEF Executes, Places, Labels
  <1>4. pe /\ gdtr = GdtPointer
    BY <1>1, <1>3 DEF Control, Early, Unswitched
  <1>5. Descriptor(8) = "code"
    BY <1>4, OffsetNat, BaseNat DEF Descriptor, GdtPointer, Gdt
  <1>6. seg' = [seg EXCEPT !["CS"] = 0] /\ cpu' = cpu
    BY <1>4, <1>5 DEF JumpToProtectedMode, FarJump, Loadable, BaseOf
  <1>7. eip' = Address("PROTECTEDMODE")
    BY BaseNat, MainIsNoLabel DEF JumpToProtectedMode, FarJump, Address
  <1>8. At("PROTECTEDMODE")' /\ eip' \in Nat
    BY <1>2, <1>6, <1>7, AddressNat DEF At, Address, TypeOK, Places, Labels
  <1>9. TypeOK'
    BY <1>2, <1>6, <1>8 DEF TypeOK, JumpToProtectedMode, FarJump, hardware
  <1>10. Control("PROTECTEDMODE")' /\ GateFacts("PROTECTEDMODE")'
    BY <1>1, <1>2, <1>3, <1>6 DEF TypeOK, Executes, Control, GateFacts, JumpToProtectedMode, FarJump, A20,
       hardware, DataSegments, Places, Labels, Early, Unswitched, Protected, Flat
  <1> QED
    BY <1>8, <1>9, <1>10 DEF Inv, Places, Labels

LEMMA LoadSegmentsInv ==
  ASSUME Inv, LoadSegments
  PROVE  Inv'
  <1>1. PICK l \in Places : At(l) /\ Control(l) /\ GateFacts(l)
    BY DEF Inv
  <1>2. TypeOK /\ Executes("PROTECTEDMODE")
    BY DEF Inv, LoadSegments
  <1>3. l = "PROTECTEDMODE"
    BY <1>1, <1>2, OnePlace DEF Executes, Places, Labels
  <1>4. pe /\ gdtr = GdtPointer
    BY <1>1, <1>3 DEF Control, Early, Unswitched
  <1>5. Descriptor(16) = "data"
    BY <1>4, OffsetNat, BaseNat DEF Descriptor, GdtPointer, Gdt
  <1>6. /\ seg' \in [DataSegments \cup {"CS"} -> Nat]
        /\ \A s \in DataSegments : seg'[s] = 0
        /\ seg'["CS"] = seg["CS"] /\ cpu' = cpu
    BY <1>2, <1>4, <1>5 DEF TypeOK, LoadSegments, Loadable, BaseOf, DataSegments
  <1>7. seg["CS"] \in {0, LoadBase}
    BY <1>1 DEF Control
  <1>8. At("PRINT")' /\ eip' \in Nat
    BY <1>1, <1>2, <1>3, <1>6, <1>7, ContinueArrives DEF LoadSegments, Places, Labels
  <1>9. TypeOK'
    BY <1>2, <1>6, <1>8, BaseNat DEF TypeOK, LoadSegments, hardware
  <1>10. Control("PRINT")' /\ GateFacts("PRINT")'
    BY <1>1, <1>2, <1>3, <1>6 DEF Executes, Control, GateFacts, LoadSegments, A20,
       hardware, Places, Labels, Early, Unswitched, Protected, Flat
  <1> QED
    BY <1>8, <1>9, <1>10 DEF Inv, Places, Labels

LEMMA PrintSuccessInv ==
  ASSUME Inv, PrintSuccess
  PROVE  Inv'
  <1>1. PICK l \in Places : At(l) /\ Control(l) /\ GateFacts(l)
    BY DEF Inv
  <1>2. TypeOK /\ Executes("PRINT")
    BY DEF Inv, PrintSuccess
  <1>3. l = "PRINT"
    BY <1>1, <1>2, OnePlace DEF Executes, Places, Labels
  <1>4. /\ seg' \in [DataSegments \cup {"CS"} -> Nat]
        /\ seg' = seg
    BY <1>2 DEF TypeOK, PrintSuccess
  <1>5. seg["CS"] \in {0, LoadBase}
    BY <1>1 DEF Control
  <1>6. At("JUMPTOC")' /\ eip' \in Nat
    BY <1>1, <1>2, <1>3, <1>4, <1>5, ContinueArrives DEF PrintSuccess, Places, Labels
  <1>7. TypeOK'
    BY <1>2, <1>4, <1>6 DEF TypeOK, PrintSuccess, hardware
  <1>8. Control("JUMPTOC")' /\ GateFacts("JUMPTOC")'
    BY <1>1, <1>2, <1>3, <1>4 DEF Executes, Control, GateFacts, PrintSuccess, A20,
       hardware, DataSegments, Places, Labels, Early, Unswitched, Protected, Flat
  <1> QED
    BY <1>6, <1>7, <1>8 DEF Inv, Places, Labels

LEMMA JumpToCInv ==
  ASSUME Inv, JumpToC
  PROVE  Inv'
  <1>1. PICK l \in Places : At(l) /\ Control(l) /\ GateFacts(l)
    BY DEF Inv
  <1>2. TypeOK /\ Executes("JUMPTOC")
    BY DEF Inv, JumpToC
  <1>3. l = "JUMPTOC"
    BY <1>1, <1>2, OnePlace DEF Executes, Places, Labels
  <1>4. pe /\ gdtr = GdtPointer
    BY <1>1, <1>3 DEF Control, Early, Unswitched
  <1>5. Descriptor(8) = "code"
    BY <1>4, OffsetNat, BaseNat DEF Descriptor, GdtPointer, Gdt
  <1>6. seg' = [seg EXCEPT !["CS"] = 0] /\ cpu' = cpu
    BY <1>4, <1>5 DEF JumpToC, FarJump, Loadable, BaseOf
  <1>7. eip' = Address("Main")
    BY BaseNat, MainIsNoLabel DEF JumpToC, FarJump, Address
  <1>8. At("Main")' /\ eip' \in Nat
    BY <1>2, <1>6, <1>7, AddressNat DEF At, Address, TypeOK, Places, Labels
  <1>9. TypeOK'
    BY <1>2, <1>6, <1>8 DEF TypeOK, JumpToC, FarJump, hardware
  <1>10. Control("Main")' /\ GateFacts("Main")'
    BY <1>1, <1>2, <1>3, <1>6 DEF TypeOK, Executes, Control, GateFacts, JumpToC, FarJump, A20,
       hardware, DataSegments, Places, Labels, Early, Unswitched, Protected, Flat
  <1> QED
    BY <1>8, <1>9, <1>10 DEF Inv, Places, Labels

LEMMA InterruptInv ==
  ASSUME Inv, Interrupt
  PROVE  Inv'
  <1>1. PICK l \in Places : At(l) /\ Control(l) /\ GateFacts(l)
    BY DEF Inv
  <1>2. l \in Early /\ ~pe /\ cpu' = "handler"
    BY <1>1 DEF Control, Interrupt, Unswitched
  <1>3. TypeOK'
    BY DEF Inv, TypeOK, Interrupt, hardware
  <1>4. At(l)' /\ Control(l)' /\ GateFacts(l)'
    BY <1>1, <1>2 DEF Interrupt, At, Address, Control, GateFacts, A20, hardware
  <1> QED
    BY <1>3, <1>4 DEF Inv

LEMMA ReturnInv ==
  ASSUME Inv, Return
  PROVE  Inv'
  <1>1. PICK l \in Places : At(l) /\ Control(l) /\ GateFacts(l)
    BY DEF Inv
  <1>2. l \in Early
    BY <1>1 DEF Control, Return
  <1>3. TypeOK'
    BY DEF Inv, TypeOK, Return, hardware
  <1>4. At(l)' /\ Control(l)' /\ GateFacts(l)'
    BY <1>1, <1>2 DEF Return, At, Address, Control, GateFacts, A20, hardware
  <1> QED
    BY <1>3, <1>4 DEF Inv

LEMMA StutterInv ==
  ASSUME Inv, UNCHANGED vars
  PROVE  Inv'
  <1>1. PICK l \in Places : At(l) /\ Control(l) /\ GateFacts(l)
    BY DEF Inv
  <1>2. TypeOK'
    BY DEF Inv, TypeOK, vars, registers, hardware
  <1>3. At(l)' /\ Control(l)' /\ GateFacts(l)'
    BY <1>1 DEF vars, registers, hardware, At, Address, Control, GateFacts, A20
  <1> QED
    BY <1>2, <1>3 DEF Inv

LEMMA NextInv == Inv /\ [Next]_vars => Inv'
  BY StartInv, ActivateA20ByBiosInv, TestCarryInv, ReadPortInv, WritePortInv, CliInv,
     LgdtInv, EnableProtectionInv, JumpToProtectedModeInv, LoadSegmentsInv,
     PrintSuccessInv, JumpToCInv, InterruptInv, ReturnInv, StutterInv DEF Next, Step

THEOREM Invariance == Safety => []Inv
  BY InitInv, NextInv, PTL DEF Safety

\* Registers, segments and flags keep their types, and AL never has the reset
\* bit set (EntryPoint.s 27-30).
THEOREM TypeCorrect == Spec => []TypeOK
  <1>1. Inv => TypeOK
    BY DEF Inv
  <1> QED
    BY Invariance, <1>1, PTL DEF Spec

\* What the invariant says of faults and of the arrival at the C code.
LEMMA InvMeans == Inv => StaysUp /\ ReadyForC /\ GateOpened
  <1> SUFFICES ASSUME Inv PROVE StaysUp /\ ReadyForC /\ GateOpened
    OBVIOUS
  <1>1. PICK l \in Places : At(l) /\ Control(l) /\ GateFacts(l)
    BY DEF Inv
  <1>2. StaysUp
    BY <1>1 DEF Control, StaysUp
  <1>3. At("Main") => l = "Main"
    BY <1>1, OnePlace DEF Places
  <1>4. ReadyForC
    <2>1. DOMAIN seg = DataSegments \cup {"CS"}
      BY DEF Inv, TypeOK
    <2> QED
      BY <1>1, <1>3, <2>1
         DEF ReadyForC, Control, Early, Unswitched, Protected, Flat
  <1>5. GateOpened
    BY <1>1, <1>3 DEF GateOpened, GateFacts, Early
  <1> QED
    BY <1>2, <1>4, <1>5

\* No machine, layout or interrupt makes the switch fail (lines 27-45).
THEOREM StaysUpHolds == Spec => []StaysUp
  BY Invariance, InvMeans, PTL DEF Spec

\* The C code finds what it relies on (lines 40-73).
THEOREM ReadyForCHolds == Spec => []ReadyForC
  BY Invariance, InvMeans, PTL DEF Spec

\* Where the BIOS or the port can open the gate it is open (lines 19-30).
THEOREM GateOpenedHolds == Spec => []GateOpened
  BY Invariance, InvMeans, PTL DEF Spec

\* The port's other bits are kept and the gate is not shut (lines 27-30).
THEOREM OnlyOpensGateHolds == Spec => OnlyOpensGate
  <1>1. Inv /\ [Next]_vars => [(A20 => A20') /\ port' \ {1} = port \ {1}]_vars
    <2> SUFFICES ASSUME Inv, Next
                 PROVE  (A20 => A20') /\ port' \ {1} = port \ {1}
      OBVIOUS
    <2>1. CASE WritePort
      <3>1. PICK l \in Places : At(l) /\ Control(l) /\ GateFacts(l)
        BY DEF Inv
      <3>2. l = "OUT"
        BY <2>1, <3>1, OnePlace DEF WritePort, Executes, Places, Labels
      <3>3. hasPort => al = port \cup {1}
        BY <3>1, <3>2 DEF GateFacts
      <3> QED
        BY <2>1, <3>3 DEF WritePort, A20
    <2>2. CASE ActivateA20ByBios
      BY <2>2 DEF ActivateA20ByBios, A20
    <2>3. CASE ~WritePort /\ ~ActivateA20ByBios
      <3>1. UNCHANGED hardware
        BY <2>3 DEF Next, Step, Start, TestCarry, ReadPort, Cli, Lgdt, EnableProtection,
           JumpToProtectedMode, FarJump, LoadSegments, PrintSuccess, JumpToC, Interrupt, Return
      <3> QED
        BY <3>1 DEF hardware, A20
    <2> QED
      BY <2>1, <2>2, <2>3
  <1> QED
    BY Invariance, <1>1, PTL DEF Spec, Safety, OnlyOpensGate
=============================================================================
