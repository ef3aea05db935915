--------------------------- MODULE PrintingProofs ---------------------------
(***************************************************************************)
(* What holds of the three routines that print, on a stack of any size     *)
(* that has room for one call and whatever interrupts leave on it.  Along  *)
(* every boot they find their caller's registers again (StackInv, which    *)
(* says word by word what is on the stack), print as Screen says           *)
(* (PlaceInv), and no message hides another (ScreenInv).                   *)
(***************************************************************************)
EXTENDS Printing, Integers, TLAPS

-----------------------------------------------------------------------------
\* the ways through the three programs, call by call

\* (lengths are given by bounds: with an equation the solver loses their type)
BootPath(p) ==
  /\ Len(p) \in Nat /\ Len(p) >= 3 /\ Len(p) <= 10
  /\ p[1] = Call(0, 0, "MESSAGE1") /\ p[2] = Call(0, 1, "IMAGELOADINGMESSAGE")
  /\ Len(p) < 8 => Len(p) <= 3 /\ p[3] = Call(20, 1, "DISKERRORMESSAGE")
  /\ Len(p) > 3 => /\ Len(p) >= 8
                   /\ p[3] = Call(20, 1, "LOADINGCOMPLETEMESSAGE")
                   /\ p[4] = Call(0, 2, "SWITCHSUCCESSMESSAGE")
                   /\ p[5] = Call(0, 3, "started") /\ p[6] = Call(0, 4, "memoryCheck")
                   /\ Len(p) < 9 => p[7] = Call(45, 4, "fail") /\ p[8] = Call(0, 5, "notEnough")
  /\ Len(p) > 8 => /\ p[7] = Call(45, 4, "pass") /\ p[8] = Call(0, 5, "areaInitialize")
                   /\ Len(p) < 10 => p[9] = Call(45, 5, "pass")
  /\ Len(p) > 9 => p[9] = Call(45, 5, "fail") /\ p[10] = Call(0, 6, "areaFail")

KernelPath(r) ==
  /\ Len(r) \in Nat /\ Len(r) >= 4 /\ Len(r) <= 6
  /\ r[1] = Call(0, 3, "started") /\ r[2] = Call(0, 4, "memoryCheck")
  /\ Len(r) < 5 => r[3] = Call(45, 4, "fail") /\ r[4] = Call(0, 5, "notEnough")
  /\ Len(r) > 4 => r[3] = Call(45, 4, "pass") /\ r[4] = Call(0, 5, "areaInitialize")
  /\ Len(r) > 4 /\ Len(r) < 6 => r[5] = Call(45, 5, "pass")
  /\ Len(r) > 5 => r[5] = Call(45, 5, "fail") /\ r[6] = Call(0, 6, "areaFail")

AnyCall ==
  {Call(0, 0, "MESSAGE1"), Call(0, 1, "IMAGELOADINGMESSAGE"), Call(20, 1, "DISKERRORMESSAGE"),
   Call(20, 1, "LOADINGCOMPLETEMESSAGE"), Call(0, 2, "SWITCHSUCCESSMESSAGE"),
   Call(0, 3, "started"), Call(0, 4, "memoryCheck"), Call(45, 4, "pass"),
   Call(45, 4, "fail"), Call(0, 5, "notEnough"), Call(0, 5, "areaInitialize"),
   Call(45, 5, "pass"), Call(45, 5, "fail"), Call(0, 6, "areaFail")}

Long(p, n) == p \in Seq(AnyCall) /\ Len(p) \in Nat /\ Len(p) >= n /\ Len(p) <= n

LEMMA Tuples ==
  /\ \A a \in AnyCall : Long(<< a >>, 1) /\ << a >>[1] = a
  /\ \A a \in AnyCall, b \in AnyCall :
        Long(<< a, b >>, 2) /\ << a, b >>[1] = a /\ << a, b >>[2] = b
  /\ \A a \in AnyCall, b \in AnyCall, c \in AnyCall :
        /\ Long(<< a, b, c >>, 3)
        /\ << a, b, c >>[1] = a /\ << a, b, c >>[2] = b /\ << a, b, c >>[3] = c
PROOF
<1>1. \A a \in AnyCall : Long(<< a >>, 1) /\ << a >>[1] = a
  BY DEF Long
<1>2. \A a \in AnyCall, b \in AnyCall :
        Long(<< a, b >>, 2) /\ << a, b >>[1] = a /\ << a, b >>[2] = b
  BY DEF Long
<1>3. \A a \in AnyCall, b \in AnyCall, c \in AnyCall :
        /\ Long(<< a, b, c >>, 3)
        /\ << a, b, c >>[1] = a /\ << a, b, c >>[2] = b /\ << a, b, c >>[3] = c
  BY DEF Long
<1>. QED
  BY <1>1, <1>2, <1>3

LEMMA Calls ==
  /\ Call(0, 0, "MESSAGE1") \in AnyCall /\ Call(0, 1, "IMAGELOADINGMESSAGE") \in AnyCall
  /\ Call(20, 1, "DISKERRORMESSAGE") \in AnyCall
  /\ Call(20, 1, "LOADINGCOMPLETEMESSAGE") \in AnyCall
  /\ Call(0, 2, "SWITCHSUCCESSMESSAGE") \in AnyCall /\ Call(0, 3, "started") \in AnyCall
  /\ Call(0, 4, "memoryCheck") \in AnyCall /\ Call(45, 4, "pass") \in AnyCall
  /\ Call(45, 4, "fail") \in AnyCall /\ Call(0, 5, "notEnough") \in AnyCall
  /\ Call(0, 5, "areaInitialize") \in AnyCall /\ Call(45, 5, "pass") \in AnyCall
  /\ Call(45, 5, "fail") \in AnyCall /\ Call(0, 6, "areaFail") \in AnyCall
  BY DEF AnyCall

LEMMA KernelPathsKnown ==
  ASSUME NEW r \in KernelPaths
  PROVE  r \in Seq(AnyCall) /\ KernelPath(r)
PROOF
<1>. DEFINE start == << Call(0, 3, "started"), Call(0, 4, "memoryCheck") >>
            area  == << Call(45, 4, "pass"), Call(0, 5, "areaInitialize") >>
            none  == << Call(45, 4, "fail"), Call(0, 5, "notEnough") >>
            bad   == << Call(45, 5, "fail"), Call(0, 6, "areaFail") >>
            good  == << Call(45, 5, "pass") >>
<1>1. \/ r = start \o none
      \/ r = (start \o area) \o bad
      \/ r = (start \o area) \o good
  BY DEF KernelPaths
<1>2. /\ Long(start, 2) /\ Long(area, 2) /\ Long(none, 2) /\ Long(bad, 2) /\ Long(good, 1)
      /\ start[1] = Call(0, 3, "started") /\ start[2] = Call(0, 4, "memoryCheck")
      /\ area[1] = Call(45, 4, "pass") /\ area[2] = Call(0, 5, "areaInitialize")
      /\ none[1] = Call(45, 4, "fail") /\ none[2] = Call(0, 5, "notEnough")
      /\ bad[1] = Call(45, 5, "fail") /\ bad[2] = Call(0, 6, "areaFail")
      /\ good[1] = Call(45, 5, "pass")
  BY Tuples, Calls
<1>. HIDE DEF start, area, none, bad, good
<1>3. CASE r = start \o none
  <2>1. /\ Long(r, 4)
        /\ r[1] = start[1] /\ r[2] = start[2] /\ r[3] = none[1] /\ r[4] = none[2]
    BY <1>2, <1>3 DEF Long
  <2>. QED
    BY <2>1, <1>2 DEF KernelPath, Long
<1>. DEFINE s == start \o area
<1>4. /\ Long(s, 4)
      /\ s[1] = start[1] /\ s[2] = start[2] /\ s[3] = area[1] /\ s[4] = area[2]
  BY <1>2 DEF Long
<1>5. ASSUME r = s \o bad
      PROVE  r \in Seq(AnyCall) /\ KernelPath(r)
  <2>. HIDE DEF s
  <2>1. /\ Long(r, 6)
        /\ r[1] = s[1] /\ r[2] = s[2] /\ r[3] = s[3] /\ r[4] = s[4]
        /\ r[5] = bad[1] /\ r[6] = bad[2]
    BY <1>2, <1>4, <1>5 DEF Long
  <2>. QED
    BY <2>1, <1>2, <1>4 DEF KernelPath, Long
<1>6. ASSUME r = s \o good
      PROVE  r \in Seq(AnyCall) /\ KernelPath(r)
  <2>. HIDE DEF s
  <2>1. /\ Long(r, 5)
        /\ r[1] = s[1] /\ r[2] = s[2] /\ r[3] = s[3] /\ r[4] = s[4]
        /\ r[5] = good[1]
    BY <1>2, <1>4, <1>6 DEF Long
  <2>. QED
    BY <2>1, <1>2, <1>4 DEF KernelPath, Long
<1>. QED
  BY <1>1, <1>3, <1>5, <1>6

LEMMA BootPathsKnown ==
  ASSUME NEW p \in BootPaths
  PROVE  BootPath(p)
PROOF
<1>. DEFINE begin   == << Call(0, 0, "MESSAGE1"), Call(0, 1, "IMAGELOADINGMESSAGE"),
                          Call(20, 1, "LOADINGCOMPLETEMESSAGE") >>
            failing == << Call(0, 0, "MESSAGE1"), Call(0, 1, "IMAGELOADINGMESSAGE"),
                          Call(20, 1, "DISKERRORMESSAGE") >>
            entry   == << Call(0, 2, "SWITCHSUCCESSMESSAGE") >>
<1>m. LoaderPaths = {begin, failing}
  BY DEF LoaderPaths, OutcomeColumn
<1>e. EntryPaths = {entry}
  BY DEF EntryPaths
<1>2. /\ Long(begin, 3) /\ Long(failing, 3) /\ Long(entry, 1)
      /\ begin[1] = Call(0, 0, "MESSAGE1") /\ begin[2] = Call(0, 1, "IMAGELOADINGMESSAGE")
      /\ begin[3] = Call(20, 1, "LOADINGCOMPLETEMESSAGE")
      /\ failing[1] = Call(0, 0, "MESSAGE1") /\ failing[2] = Call(0, 1, "IMAGELOADINGMESSAGE")
      /\ failing[3] = Call(20, 1, "DISKERRORMESSAGE")
      /\ entry[1] = Call(0, 2, "SWITCHSUCCESSMESSAGE")
  BY Tuples, Calls
<1>n. Len(begin) = 3 /\ Len(failing) = 3
  OBVIOUS
<1>. HIDE DEF begin, failing, entry
<1>3. begin[3].message # "DISKERRORMESSAGE" /\ failing[3].message = "DISKERRORMESSAGE"
  BY <1>2 DEF Call
<1>4. \/ p = failing
      \/ \E r \in KernelPaths : p = (begin \o entry) \o r
  <2>1. \/ \E a \in LoaderPaths : a[Len(a)].message = "DISKERRORMESSAGE" /\ p = a
        \/ \E a \in LoaderPaths, b \in EntryPaths, r \in KernelPaths :
              a[Len(a)].message # "DISKERRORMESSAGE" /\ p = (a \o b) \o r
    BY DEF BootPaths
  <2>. QED
    BY <2>1, <1>m, <1>e, <1>n, <1>3
<1>5. CASE p = failing
  BY <1>5, <1>2 DEF BootPath, Long
<1>. DEFINE s == begin \o entry
<1>6. Long(s, 4) /\ s[1] = begin[1] /\ s[2] = begin[2] /\ s[3] = begin[3] /\ s[4] = entry[1]
  BY <1>2 DEF Long
<1>7. ASSUME NEW r \in KernelPaths, p = s \o r
      PROVE  BootPath(p)
  <2>. HIDE DEF s
  <2>1. r \in Seq(AnyCall) /\ KernelPath(r)
    BY KernelPathsKnown
  <2>2. Len(p) = 4 + Len(r)
    BY <2>1, <1>6, <1>7 DEF Long, KernelPath
  <2>3. /\ p[1] = s[1] /\ p[2] = s[2] /\ p[3] = s[3] /\ p[4] = s[4]
        /\ p[5] = r[1] /\ p[6] = r[2] /\ p[7] = r[3] /\ p[8] = r[4]
        /\ Len(r) > 4 => p[9] = r[5]
        /\ Len(r) > 5 => p[10] = r[6]
    BY <2>1, <1>6, <1>7 DEF Long, KernelPath
  <2>. QED
    BY <2>1, <2>2, <2>3, <1>2, <1>6 DEF KernelPath, BootPath
<1>. QED
  BY <1>4, <1>5, <1>7

-----------------------------------------------------------------------------
\* the messages

Names == {"MESSAGE1", "IMAGELOADINGMESSAGE", "LOADINGCOMPLETEMESSAGE", "DISKERRORMESSAGE",
          "SWITCHSUCCESSMESSAGE", "started", "memoryCheck", "notEnough", "areaInitialize",
          "areaFail", "pass", "fail"}

LEMMA MessagesKnown ==
  ASSUME NEW m \in Names
  PROVE  /\ Length[m] \in Nat /\ Length[m] >= 4 /\ Length[m] <= 62
         /\ Text[m] \in Nat /\ Text[m] >= 100
  BY DEF Names, Length, Text

\* the bytes of a message, and the 0 behind them
LEMMA BytesOfMessages ==
  ASSUME NEW m \in Names, NEW j \in 0..Length[m]
  PROVE  TextByte(Text[m] + j) = IF j < Length[m] THEN Text[m] + j ELSE 0
PROOF
<1>1. DOMAIN Text = Names
  BY DEF Text, Names
<1>2. CASE j < Length[m]
  <2>1. Text[m] + j \in Text[m]..(Text[m] + Length[m] - 1)
    BY <1>2, MessagesKnown
  <2>. QED
    BY <1>1, <1>2, <2>1 DEF TextByte
<1>3. CASE ~(j < Length[m])
  <2>1. j = Length[m]
    BY <1>3, MessagesKnown
  <2>2. ASSUME NEW n \in Names
        PROVE  Text[m] + Length[m] \notin Text[n]..(Text[n] + Length[n] - 1)
    BY DEF Names, Length, Text
  <2>. QED
    BY <1>1, <1>3, <2>1, <2>2 DEF TextByte
<1>. QED
  BY <1>2, <1>3

\* what a call of a boot may ask for, and which program makes it
LEMMA CallsKnown ==
  ASSUME NEW p \in BootPaths, NEW k \in Nat, k >= 1, k <= Len(p)
  PROVE  /\ p[k].message \in Names
         /\ p[k].x \in Nat /\ p[k].y \in Nat
         /\ p[k].x + Length[p[k].message] <= 80 /\ p[k].y <= 6
         /\ k <= 3 => p[k].message \in Messages["loader"]
         /\ k = 4 => p[k].message \in Messages["entry"]
         /\ k >= 5 => p[k].message \in Messages["kernel"]
PROOF
<1>0. BootPath(p)
  BY BootPathsKnown
<1>1. k \in 1..10 /\ Len(p) \in Nat
  BY <1>0 DEF BootPath
<1>2. \/ k = 1 \/ k = 2 \/ k = 3 \/ k = 4 \/ k = 5 \/ k = 6 \/ k = 7 \/ k = 8 \/ k = 9 \/ k = 10
  BY <1>1
<1>3. \A x, y, m : /\ Call(x, y, m).message = m
                                   /\ Call(x, y, m).x = x /\ Call(x, y, m).y = y
  BY DEF Call
<1>4. p[k] \in AnyCall
  BY <1>0, <1>2, Calls DEF BootPath
<1>5. \A c \in AnyCall :
        /\ c.message \in Names /\ c.x \in Nat /\ c.y \in Nat
        /\ c.x + Length[c.message] <= 80 /\ c.y <= 6
  <2>. TAKE c \in AnyCall
  <2>1. \E x \in {0, 20, 45}, y \in 0..6, m \in Names : c = Call(x, y, m) /\ x + Length[m] <= 80
    BY DEF AnyCall, Names, Length
  <2>. QED
    BY <2>1, <1>3
<1>6. k <= 3 => p[k].message \in Messages["loader"]
  <2>1. \/ k > 3
        \/ p[k] \in {Call(0, 0, "MESSAGE1"), Call(0, 1, "IMAGELOADINGMESSAGE"),
                     Call(20, 1, "DISKERRORMESSAGE"), Call(20, 1, "LOADINGCOMPLETEMESSAGE")}
    BY <1>0, <1>2 DEF BootPath
  <2>. QED
    BY <2>1, <1>3 DEF Messages
<1>7. k = 4 => p[k].message \in Messages["entry"]
  BY <1>0, <1>3 DEF BootPath, Messages
<1>8. k >= 5 => p[k].message \in Messages["kernel"]
  <2>1. \/ k < 5
        \/ p[k] \in AnyCall \ {Call(0, 0, "MESSAGE1"), Call(0, 1, "IMAGELOADINGMESSAGE"),
                     Call(20, 1, "DISKERRORMESSAGE"), Call(20, 1, "LOADINGCOMPLETEMESSAGE"),
                     Call(0, 2, "SWITCHSUCCESSMESSAGE")}
    BY <1>0, <1>2 DEF BootPath, AnyCall, Call
  <2>. QED
    BY <2>1, <1>3 DEF Messages, AnyCall
<1>. QED
  BY <1>4, <1>5, <1>6, <1>7, <1>8

\* no message belongs to two programs
LEMMA ProgramsApart ==
  /\ Messages["loader"] \cap Messages["entry"] = {}
  /\ Messages["loader"] \cap Messages["kernel"] = {}
  /\ Messages["entry"] \cap Messages["kernel"] = {}
  BY DEF Messages

-----------------------------------------------------------------------------
\* the stack, from the caller's word down

Registers == {"es", "bp", "si", "di", "ax", "cx", "dx"}

\* where BP points in PRINTMESSAGE, and what it pushes more in real mode
Base == StackTop - 5
Low  == IF RealMode THEN 1 ELSE 0

InRoutine == {"locate", "MESSAGELOOP", "MESSAGEEND"}

\* the parameters and the place to come back to
Passed ==
  LET c == calls[made + 1]
  IN  /\ stack[StackTop - 1] = Text[c.message]
      /\ stack[StackTop - 2] = c.y
      /\ stack[StackTop - 3] = c.x
      /\ stack[StackTop - 4] = made + 1

\* the caller's registers
Kept ==
  /\ stack[Base] = CallerReg["bp"]
  /\ RealMode => stack[Base - 1] = CallerReg["es"]
  /\ stack[Base - Low - 1] = CallerReg["si"]
  /\ stack[Base - Low - 2] = CallerReg["di"]
  /\ stack[Base - Low - 3] = CallerReg["ax"]
  /\ stack[Base - Low - 4] = CallerReg["cx"]
  /\ stack[Base - Low - 5] = CallerReg["dx"]

\* which program prints, and that it has something to print
Turn ==
  /\ calls \in BootPaths
  /\ made \in Nat /\ made <= Len(calls)
  /\ pc \in {"caller", "PRINTMESSAGE", "return", "entry", "for"} \cup InRoutine
  /\ pc = "PRINTMESSAGE" \/ pc \in InRoutine =>
       made < Len(calls) /\ (Prints("loader") \/ Prints("entry"))
  /\ pc \in {"entry", "for"} => made < Len(calls) /\ Prints("kernel")

StackInv ==
  /\ DOMAIN stack = 0..StackTop
  /\ DOMAIN reg = Registers
  /\ pc \in {"caller", "entry", "for"} => sp = StackTop
  /\ pc = "return" => sp = StackTop - 3
  /\ pc = "PRINTMESSAGE" => sp = StackTop - 4
  /\ pc \in InRoutine => sp = Base - Low - 5
  /\ pc \notin InRoutine => reg = CallerReg
  /\ pc \in InRoutine => reg["bp"] = Base /\ (~RealMode => reg["es"] = CallerReg["es"])
  /\ pc = "PRINTMESSAGE" \/ pc \in InRoutine => Passed
  /\ pc \in InRoutine => Kept

\* where the next character goes
PlaceInv ==
  LET c == calls[made + 1]
  IN  /\ pc = "MESSAGELOOP" =>
           \E s \in 0..Length[c.message] :
             /\ reg["si"] = Text[c.message] + s
             /\ reg["di"] = 160 * c.y + 2 * c.x + 2 * s
             /\ RealMode => reg["es"] = VideoSegment
      /\ pc = "entry" => pstScreen = VideoBase
      /\ pc = "for" =>
           /\ pstScreen = VideoBase + 2 * (80 * c.y + c.x)
           /\ i \in 0..Length[c.message]

PrintInv == Turn /\ StackInv /\ PlaceInv

\* what PRINTMESSAGE saves, one by one
LEMMA SavedKnown ==
  /\ RealMode => /\ Len(Saved) = 6 /\ Saved[1] = "es" /\ Saved[2] = "si" /\ Saved[3] = "di"
                 /\ Saved[4] = "ax" /\ Saved[5] = "cx" /\ Saved[6] = "dx"
  /\ ~RealMode => /\ Len(Saved) = 5 /\ Saved[1] = "si" /\ Saved[2] = "di"
                  /\ Saved[3] = "ax" /\ Saved[4] = "cx" /\ Saved[5] = "dx"
PROOF
<1>1. CASE RealMode
  BY <1>1 DEF Saved
<1>2. CASE ~RealMode
  BY <1>2 DEF Saved
<1>. QED
  BY <1>1, <1>2

LEMMA RestoredKnown ==
  /\ RealMode => /\ Len(Restored) = 7 /\ Restored[1] = "dx" /\ Restored[2] = "cx"
                 /\ Restored[3] = "ax" /\ Restored[4] = "di" /\ Restored[5] = "si"
                 /\ Restored[6] = "es" /\ Restored[7] = "bp"
  /\ ~RealMode => /\ Len(Restored) = 6 /\ Restored[1] = "dx" /\ Restored[2] = "cx"
                  /\ Restored[3] = "ax" /\ Restored[4] = "di" /\ Restored[5] = "si"
                  /\ Restored[6] = "bp"
PROOF
<1>1. CASE RealMode
  BY <1>1 DEF Restored
<1>2. CASE ~RealMode
  BY <1>2 DEF Restored
<1>. QED
  BY <1>1, <1>2

LEMMA Behind ==
  ASSUME NEW S, NEW a \in S, NEW n \in Nat, NEW f \in [1..n -> S]
  PROVE  /\ Len(<<a>> \o f) = n + 1
         /\ (<<a>> \o f)[1] = a
         /\ \A k \in 1..n : (<<a>> \o f)[k + 1] = f[k]
PROOF
<1>1. f \in Seq(S) /\ Len(f) = n
  OBVIOUS
<1>. QED
  BY <1>1

\* what Enter pushes
Pushed == <<reg["bp"]>> \o [k \in 1..Len(Saved) |-> reg[Saved[k]]]

LEMMA PushedKnown ==
  ASSUME NEW n \in Nat, Len(Saved) = n
  PROVE  /\ Len(Pushed) = n + 1
         /\ Pushed[1] = reg["bp"]
         /\ \A k \in 1..n : Pushed[k + 1] = reg[Saved[k]]
PROOF
<1>1. PICK a : a = reg["bp"]
  OBVIOUS
<1>2. PICK f : f = [k \in 1..n |-> reg[Saved[k]]]
  OBVIOUS
<1>3. PICK S : S = {a} \cup {f[k] : k \in 1..n}
  OBVIOUS
<1>4. a \in S /\ f \in [1..n -> S]
  BY <1>2, <1>3
<1>5. /\ Len(<<a>> \o f) = n + 1
      /\ (<<a>> \o f)[1] = a
      /\ \A k \in 1..n : (<<a>> \o f)[k + 1] = f[k]
  BY <1>4, Behind
<1>6. Pushed = <<a>> \o f
  BY <1>1, <1>2 DEF Pushed
<1>7. \A k \in 1..n : f[k] = reg[Saved[k]]
  BY <1>2
<1>. QED
  BY <1>1, <1>5, <1>6, <1>7, Zenon

LEMMA SameCall ==
  ASSUME UNCHANGED <<calls, made>>
  PROVE  /\ RealMode' <=> RealMode
         /\ Low' = Low
         /\ Message' = Message
         /\ Prints("entry")' <=> Prints("entry")
         /\ Prints("kernel")' <=> Prints("kernel")
         /\ Prints("loader")' <=> Prints("loader")
  BY DEF RealMode, Low, Message, Prints

LEMMA StackBounds ==
  /\ StackTop \in Nat /\ StackTop >= 11
  /\ Base \in Nat /\ Base = StackTop - 5 /\ Base >= 6
  /\ Low \in {0, 1} /\ (RealMode => Low = 1) /\ (~RealMode => Low = 0)
  BY StackAssumption DEF Base, Low

\* CallPrintMessage: three pushes and the call
LEMMA CallKeeps ==
  ASSUME PrintInv, CallPrintMessage
  PROVE  Turn' /\ StackInv'
PROOF
<1>. Turn /\ StackInv
  BY DEF PrintInv
<1>. USE StackBounds
<1>1. PICK c : c = calls[made + 1]
  OBVIOUS
<1>2. PICK words : words = <<Text[c.message], c.y, c.x, made + 1>>
  OBVIOUS
<1>3. /\ Len(words) = 4 /\ words[1] = Text[c.message] /\ words[2] = c.y /\ words[3] = c.x
      /\ words[4] = made + 1
  BY <1>2
<1>4. pc = "caller" /\ sp = StackTop /\ reg = CallerReg
  BY DEF CallPrintMessage, StackInv, InRoutine
<1>5. /\ sp' = sp - Len(words)
      /\ stack' = [w \in DOMAIN stack |->
                     IF w \in sp' .. (sp - 1) THEN words[sp - w] ELSE stack[w]]
  BY <1>1, <1>2 DEF CallPrintMessage, Push
<1>6. sp' = StackTop - 4
  BY <1>3, <1>4, <1>5
<1>7. /\ DOMAIN stack' = 0..StackTop
      /\ \A w \in (StackTop - 4)..(StackTop - 1) : stack'[w] = words[StackTop - w]
  BY <1>4, <1>5, <1>6 DEF StackInv
<1>8. pc' = "PRINTMESSAGE" /\ UNCHANGED <<calls, made, reg>>
  BY DEF CallPrintMessage
<1>9. Passed'
  <2>1. /\ stack'[StackTop - 1] = words[1] /\ stack'[StackTop - 2] = words[2]
        /\ stack'[StackTop - 3] = words[3] /\ stack'[StackTop - 4] = words[4]
    BY <1>7
  <2>. QED
    BY <2>1, <1>1, <1>3, <1>8 DEF Passed
<1>10. StackInv'
  BY <1>4, <1>6, <1>7, <1>8, <1>9 DEF StackInv, InRoutine
<1>11. Turn'
  BY <1>8, SameCall DEF Turn, CallPrintMessage, InRoutine, Prints
<1>. QED
  BY <1>10, <1>11

\* Enter: BP and the registers of Saved
LEMMA EnterKeeps ==
  ASSUME PrintInv, Enter
  PROVE  Turn' /\ StackInv'
PROOF
<1>. Turn /\ StackInv
  BY DEF PrintInv
<1>. USE StackBounds
<1>1. pc = "PRINTMESSAGE" /\ sp = StackTop - 4 /\ reg = CallerReg /\ Passed
  BY DEF Enter, StackInv, InRoutine
<1>2. pc' = "locate" /\ UNCHANGED <<calls, made>> /\ reg' = [reg EXCEPT !["bp"] = sp - 1]
  BY DEF Enter
<1>3. /\ sp' = sp - Len(Pushed)
      /\ stack' = [w \in DOMAIN stack |->
                     IF w \in sp' .. (sp - 1) THEN Pushed[sp - w] ELSE stack[w]]
  BY DEF Enter, Push, Pushed
<1>4. ASSUME NEW n \in Nat, Len(Saved) = n, n <= 6
      PROVE  /\ sp' = StackTop - 5 - n
             /\ DOMAIN stack' = 0..StackTop
             /\ stack'[Base] = CallerReg["bp"]
             /\ \A k \in 1..n : stack'[Base - k] = CallerReg[Saved[k]]
             /\ \A w \in (StackTop - 4)..StackTop : stack'[w] = stack[w]
  <2>1. /\ Len(Pushed) = n + 1 /\ Pushed[1] = CallerReg["bp"]
        /\ \A k \in 1..n : Pushed[k + 1] = CallerReg[Saved[k]]
    BY <1>1, <1>4, PushedKnown
  <2>2. sp' = StackTop - 5 - n
    BY <1>1, <1>3, <2>1
  <2>3. /\ DOMAIN stack' = 0..StackTop
        /\ \A w \in (Base - n)..Base : stack'[w] = Pushed[(StackTop - 4) - w]
        /\ \A w \in (StackTop - 4)..StackTop : stack'[w] = stack[w]
    <3>1. DOMAIN stack = 0..StackTop
      BY DEF StackInv
    <3>2. stack' = [w \in 0..StackTop |->
                      IF w \in (Base - n)..Base THEN Pushed[(StackTop - 4) - w] ELSE stack[w]]
      <4>1. sp' = Base - n /\ sp - 1 = Base /\ sp = StackTop - 4
        BY <1>1, <2>2
      <4>. QED
        BY <4>1, <3>1, <1>3
    <3>. QED
      BY <3>2, <1>4
  <2>4. stack'[Base] = CallerReg["bp"]
    <3>1. (StackTop - 4) - Base = 1 /\ Base \in (Base - n)..Base
      OBVIOUS
    <3>. QED
      BY <3>1, <2>1, <2>3
  <2>5. ASSUME NEW k \in 1..n
        PROVE  stack'[Base - k] = CallerReg[Saved[k]]
    <3>1. (StackTop - 4) - (Base - k) = k + 1 /\ Base - k \in (Base - n)..Base
      OBVIOUS
    <3>. QED
      BY <3>1, <2>1, <2>3
  <2>. QED
    BY <2>2, <2>3, <2>4, <2>5
<1>5. RealMode' <=> RealMode
  BY <1>2, SameCall
<1>6. Kept' /\ sp' = Base - Low - 5 /\ DOMAIN stack' = 0..StackTop
      /\ \A w \in (StackTop - 4)..StackTop : stack'[w] = stack[w]
  <2>1. CASE RealMode
    <3>1. /\ sp' = StackTop - 5 - 6
          /\ DOMAIN stack' = 0..StackTop
          /\ stack'[Base] = CallerReg["bp"]
          /\ \A k \in 1..6 : stack'[Base - k] = CallerReg[Saved[k]]
          /\ \A w \in (StackTop - 4)..StackTop : stack'[w] = stack[w]
      BY <1>4, <2>1, SavedKnown
    <3>2. /\ stack'[Base - 1] = CallerReg["es"] /\ stack'[Base - 2] = CallerReg["si"]
          /\ stack'[Base - 3] = CallerReg["di"] /\ stack'[Base - 4] = CallerReg["ax"]
          /\ stack'[Base - 5] = CallerReg["cx"] /\ stack'[Base - 6] = CallerReg["dx"]
      BY <3>1, <2>1, SavedKnown
    <3>3. Low = 1 /\ Low' = 1
      BY <2>1, <1>5 DEF Low
    <3>4. /\ Base - Low' - 1 = Base - 2 /\ Base - Low' - 2 = Base - 3
          /\ Base - Low' - 3 = Base - 4 /\ Base - Low' - 4 = Base - 5
          /\ Base - Low' - 5 = Base - 6 /\ Base - Low - 5 = StackTop - 5 - 6
      BY <3>3
    <3>5. Kept'
      BY <3>1, <3>2, <3>4, Zenon DEF Kept
    <3>. QED
      BY <3>1, <3>4, <3>5, Zenon
  <2>2. CASE ~RealMode
    <3>1. /\ sp' = StackTop - 5 - 5
          /\ DOMAIN stack' = 0..StackTop
          /\ stack'[Base] = CallerReg["bp"]
          /\ \A k \in 1..5 : stack'[Base - k] = CallerReg[Saved[k]]
          /\ \A w \in (StackTop - 4)..StackTop : stack'[w] = stack[w]
      <4>1. Len(Saved) = 5 /\ 5 \in Nat /\ 5 <= 6
        BY <2>2, SavedKnown
      <4>. HIDE StackBounds
      <4>. QED
        BY <4>1, <1>4
    <3>2. /\ stack'[Base - 1] = CallerReg["si"]
          /\ stack'[Base - 2] = CallerReg["di"] /\ stack'[Base - 3] = CallerReg["ax"]
          /\ stack'[Base - 4] = CallerReg["cx"] /\ stack'[Base - 5] = CallerReg["dx"]
      BY <3>1, <2>2, SavedKnown
    <3>3. Low = 0 /\ Low' = 0
      BY <2>2, <1>5 DEF Low
    <3>4. /\ Base - Low' - 1 = Base - 1 /\ Base - Low' - 2 = Base - 2
          /\ Base - Low' - 3 = Base - 3 /\ Base - Low' - 4 = Base - 4
          /\ Base - Low' - 5 = Base - 5 /\ Base - Low - 5 = StackTop - 5 - 5
      BY <3>3
    <3>5. Kept'
      BY <3>1, <3>2, <3>4, <2>2, <1>5, Zenon DEF Kept
    <3>. QED
      BY <3>1, <3>4, <3>5, Zenon
  <2>. QED
    BY <2>1, <2>2
<1>7. Passed'
  BY <1>1, <1>2, <1>6 DEF Passed
<1>8. DOMAIN reg' = Registers /\ reg'["bp"] = Base /\ reg'["es"] = CallerReg["es"]
  BY <1>1, <1>2 DEF StackInv, Registers
<1>9. StackInv'
  BY <1>2, <1>6, <1>7, <1>8, SameCall DEF StackInv, InRoutine
<1>10. Turn'
  BY <1>1, <1>2, SameCall DEF Turn, InRoutine
<1>. QED
  BY <1>9, <1>10

\* Leave: the registers come back, each from the word it was pushed to
LEMMA RestoredFrom ==
  ASSUME Leave, NEW n \in Nat, Len(Restored) = n, NEW k \in 1..n, Restored[k] \in DOMAIN reg,
         \A a \in 1..n, b \in 1..n : Restored[a] = Restored[b] => a = b
  PROVE  reg'[Restored[k]] = stack[sp + k - 1]
PROOF
<1>1. PICK r : r = Restored[k]
  OBVIOUS
<1>2. reg' = [q \in DOMAIN reg |->
                IF \E a \in 1..n : Restored[a] = q
                  THEN stack[sp + (CHOOSE a \in 1..n : Restored[a] = q) - 1]
                  ELSE reg[q]]
  BY DEF Leave
<1>3. (CHOOSE a \in 1..n : Restored[a] = r) = k
  <2>1. \E a \in 1..n : Restored[a] = r
    BY <1>1
  <2>. QED
    BY <1>1, <2>1
<1>. QED
  BY <1>1, <1>2, <1>3

LEMMA LeaveRegisters ==
  ASSUME PrintInv, Leave
  PROVE  /\ reg' = CallerReg
         /\ sp' = StackTop - 3 /\ made' = made + 1
PROOF
<1>. USE StackBounds
<1>1. /\ pc = "MESSAGEEND" /\ sp = Base - Low - 5 /\ DOMAIN reg = Registers /\ Kept /\ Passed
      /\ ~RealMode => reg["es"] = CallerReg["es"]
  BY DEF PrintInv, StackInv, Leave, InRoutine
<1>2. /\ DOMAIN reg' = Registers
      /\ \A r \in Registers : (\A k \in 1..Len(Restored) : Restored[k] # r) => reg'[r] = reg[r]
      /\ reg' = [r \in Registers |-> reg'[r]]
  BY <1>1 DEF Leave
<1>3. CASE RealMode
  <2>0. /\ Len(Restored) = 7 /\ Restored[1] = "dx" /\ Restored[2] = "cx"
        /\ Restored[3] = "ax" /\ Restored[4] = "di" /\ Restored[5] = "si"
        /\ Restored[6] = "es" /\ Restored[7] = "bp"
    BY <1>3, RestoredKnown
  <2>1. PICK n \in Nat : n = 7 /\ Len(Restored) = n
    BY <2>0
  <2>2. \A a \in 1..n, b \in 1..n : Restored[a] = Restored[b] => a = b
    BY <2>0, <2>1
  <2>3. \A k \in 1..n : Restored[k] \in DOMAIN reg
    BY <2>0, <2>1, <1>1 DEF Registers
  <2>4. \A k \in 1..n : reg'[Restored[k]] = stack[sp + k - 1]
    BY <2>1, <2>2, <2>3, RestoredFrom
  <2>5. Low = 1 /\ sp = Base - 6
    BY <1>1, <1>3 DEF Low
  <2>6. /\ reg'["dx"] = stack[Base - 6] /\ reg'["cx"] = stack[Base - 5]
        /\ reg'["ax"] = stack[Base - 4] /\ reg'["di"] = stack[Base - 3]
        /\ reg'["si"] = stack[Base - 2] /\ reg'["es"] = stack[Base - 1]
        /\ reg'["bp"] = stack[Base]
    <3>1. /\ reg'[Restored[1]] = stack[sp + 1 - 1] /\ reg'[Restored[2]] = stack[sp + 2 - 1]
          /\ reg'[Restored[3]] = stack[sp + 3 - 1] /\ reg'[Restored[4]] = stack[sp + 4 - 1]
          /\ reg'[Restored[5]] = stack[sp + 5 - 1] /\ reg'[Restored[6]] = stack[sp + 6 - 1]
          /\ reg'[Restored[7]] = stack[sp + 7 - 1]
      BY <2>1, <2>4
    <3>2. /\ sp + 1 - 1 = Base - 6 /\ sp + 2 - 1 = Base - 5 /\ sp + 3 - 1 = Base - 4
          /\ sp + 4 - 1 = Base - 3 /\ sp + 5 - 1 = Base - 2 /\ sp + 6 - 1 = Base - 1
          /\ sp + 7 - 1 = Base
      BY <2>5
    <3>. QED
      BY <3>1, <3>2, <2>0
  <2>7. reg' = CallerReg
    <3>1. \A r \in Registers : reg'[r] = CallerReg[r]
      BY <2>5, <2>6, <1>1, <1>3 DEF Kept, Registers
    <3>2. CallerReg = [r \in Registers |-> CallerReg[r]]
      BY DEF CallerReg, Registers
    <3>. QED
      BY <3>1, <3>2, <1>2
  <2>8. made' = stack[sp + n] /\ sp' = sp + n + 1
    BY <2>1 DEF Leave
  <2>9. sp + n = StackTop - 4 /\ sp + n + 1 = StackTop - 3
    BY <2>1, <2>5
  <2>. QED
    BY <2>7, <2>8, <2>9, <1>1 DEF Passed
<1>4. CASE ~RealMode
  <2>0. /\ Len(Restored) = 6 /\ Restored[1] = "dx" /\ Restored[2] = "cx"
        /\ Restored[3] = "ax" /\ Restored[4] = "di" /\ Restored[5] = "si"
        /\ Restored[6] = "bp"
    BY <1>4, RestoredKnown
  <2>1. PICK n \in Nat : n = 6 /\ Len(Restored) = n
    BY <2>0
  <2>2. \A a \in 1..n, b \in 1..n : Restored[a] = Restored[b] => a = b
    BY <2>0, <2>1
  <2>3. \A k \in 1..n : Restored[k] \in DOMAIN reg
    BY <2>0, <2>1, <1>1 DEF Registers
  <2>4. \A k \in 1..n : reg'[Restored[k]] = stack[sp + k - 1]
    BY <2>1, <2>2, <2>3, RestoredFrom
  <2>5. Low = 0 /\ sp = Base - 5
    BY <1>1, <1>4 DEF Low
  <2>6. /\ reg'["dx"] = stack[Base - 5] /\ reg'["cx"] = stack[Base - 4]
        /\ reg'["ax"] = stack[Base - 3] /\ reg'["di"] = stack[Base - 2]
        /\ reg'["si"] = stack[Base - 1] /\ reg'["bp"] = stack[Base]
    <3>1. /\ reg'[Restored[1]] = stack[sp + 1 - 1] /\ reg'[Restored[2]] = stack[sp + 2 - 1]
          /\ reg'[Restored[3]] = stack[sp + 3 - 1] /\ reg'[Restored[4]] = stack[sp + 4 - 1]
          /\ reg'[Restored[5]] = stack[sp + 5 - 1] /\ reg'[Restored[6]] = stack[sp + 6 - 1]
      BY <2>1, <2>4
    <3>2. /\ sp + 1 - 1 = Base - 5 /\ sp + 2 - 1 = Base - 4 /\ sp + 3 - 1 = Base - 3
          /\ sp + 4 - 1 = Base - 2 /\ sp + 5 - 1 = Base - 1 /\ sp + 6 - 1 = Base
      BY <2>5
    <3>. QED
      BY <3>1, <3>2, <2>0
  <2>7. reg'["es"] = CallerReg["es"]
    <3>1. \A k \in 1..Len(Restored) : Restored[k] # "es"
      BY <2>0, <2>1
    <3>2. "es" \in Registers
      BY DEF Registers
    <3>. QED
      BY <3>1, <3>2, <1>1, <1>2, <1>4
  <2>8. reg' = CallerReg
    <3>1. \A r \in Registers : reg'[r] = CallerReg[r]
      BY <2>5, <2>6, <2>7, <1>1 DEF Kept, Registers
    <3>2. CallerReg = [r \in Registers |-> CallerReg[r]]
      BY DEF CallerReg, Registers
    <3>. QED
      BY <3>1, <3>2, <1>2
  <2>9. made' = stack[sp + n] /\ sp' = sp + n + 1
    BY <2>1 DEF Leave
  <2>10. sp + n = StackTop - 4 /\ sp + n + 1 = StackTop - 3
    BY <2>1, <2>5
  <2>. QED
    BY <2>8, <2>9, <2>10, <1>1 DEF Passed
<1>. QED
  BY <1>3, <1>4

\* one call further, or none left
LEMMA NextCall ==
  ASSUME Turn, made < Len(calls)
  PROVE  made + 1 \in Nat /\ made + 1 <= Len(calls) /\ Len(calls) \in Nat
  BY BootPathsKnown DEF Turn, BootPath

LEMMA LeaveKeeps ==
  ASSUME PrintInv, Leave
  PROVE  Turn' /\ StackInv'
PROOF
<1>. Turn /\ StackInv
  BY DEF PrintInv
<1>1. reg' = CallerReg /\ sp' = StackTop - 3 /\ made' = made + 1
  BY LeaveRegisters
<1>2. pc = "MESSAGEEND" /\ pc' = "return" /\ UNCHANGED <<calls, stack>>
  BY DEF Leave
<1>3. DOMAIN reg' = Registers
  BY <1>1 DEF CallerReg, Registers
<1>4. StackInv'
  BY <1>1, <1>2, <1>3 DEF StackInv, InRoutine
<1>5. made < Len(calls)
  BY <1>2 DEF Turn, InRoutine
<1>6. Turn'
  BY <1>1, <1>2, <1>5, NextCall DEF Turn, InRoutine
<1>. QED
  BY <1>4, <1>6

LEMMA RemoveArgumentsKeeps ==
  ASSUME PrintInv, RemoveArguments
  PROVE  Turn' /\ StackInv'
PROOF
<1>1. StackInv'
  BY StackBounds DEF PrintInv, StackInv, InRoutine, RemoveArguments, Removed
<1>2. Turn'
  BY DEF PrintInv, Turn, InRoutine, RemoveArguments
<1>. QED
  BY <1>1, <1>2

\* the steps that leave the stack and its pointer alone
LEMMA QuietKeeps ==
  ASSUME PrintInv, Locate \/ DrawCharacter \/ MessageEnd
  PROVE  Turn' /\ StackInv'
PROOF
<1>. Turn /\ StackInv
  BY DEF PrintInv
<1>1. pc \in InRoutine /\ pc' \in InRoutine /\ UNCHANGED <<calls, made, sp, stack>>
  BY DEF Locate, DrawCharacter, MessageEnd, InRoutine
<1>2. Passed' /\ Kept' /\ Low' = Low /\ (RealMode' <=> RealMode)
  <2>1. Passed /\ Kept
    BY <1>1 DEF StackInv
  <2>. QED
    BY <1>1, <2>1, SameCall DEF Passed, Kept
<1>3. DOMAIN reg' = Registers /\ reg'["bp"] = Base /\ (~RealMode => reg'["es"] = CallerReg["es"])
  <2>1. DOMAIN reg = Registers /\ reg["bp"] = Base /\ (~RealMode => reg["es"] = CallerReg["es"])
    BY <1>1 DEF StackInv
  <2>2. CASE Locate
    BY <2>1, <2>2 DEF Locate, Registers
  <2>3. CASE DrawCharacter
    BY <2>1, <2>3 DEF DrawCharacter, Registers
  <2>4. CASE MessageEnd
    BY <2>1, <2>4 DEF MessageEnd, Registers
  <2>. QED
    BY <2>2, <2>3, <2>4
<1>4. StackInv'
  BY <1>1, <1>2, <1>3 DEF StackInv, InRoutine
<1>5. Turn'
  BY <1>1, SameCall DEF Turn, InRoutine
<1>. QED
  BY <1>4, <1>5

\* an interrupt reaches the words below SP only
LEMMA InterruptKeeps ==
  ASSUME PrintInv, Interrupt
  PROVE  Turn' /\ StackInv'
PROOF
<1>. Turn /\ StackInv
  BY DEF PrintInv
<1>. USE StackBounds
<1>1. UNCHANGED <<pc, calls, made, sp, reg>>
  BY DEF Interrupt
<1>s. sp \in Int
  BY DEF Turn, StackInv, InRoutine
<1>2. /\ DOMAIN stack' = 0..StackTop
      /\ \A w \in 0..StackTop : w >= sp => stack'[w] = stack[w]
  BY <1>s DEF Interrupt, StackInv
<1>3. pc = "PRINTMESSAGE" \/ pc \in InRoutine => Passed'
  <2>1. SUFFICES ASSUME pc = "PRINTMESSAGE" \/ pc \in InRoutine
                 PROVE  Passed'
    OBVIOUS
  <2>2. Passed /\ (sp = StackTop - 4 \/ sp = Base - Low - 5)
    BY <2>1 DEF StackInv
  <2>3. \A w \in (StackTop - 4)..StackTop : stack'[w] = stack[w]
    BY <1>2, <2>2
  <2>. QED
    BY <1>1, <2>2, <2>3 DEF Passed
<1>4. pc \in InRoutine => Kept'
  <2>1. SUFFICES ASSUME pc \in InRoutine
                 PROVE  Kept'
    OBVIOUS
  <2>2. Kept /\ sp = Base - Low - 5
    BY <2>1 DEF StackInv
  <2>3. \A w \in (Base - Low - 5)..Base : stack'[w] = stack[w]
    BY <1>2, <2>2
  <2>4. /\ stack'[Base] = stack[Base] /\ (RealMode => stack'[Base - 1] = stack[Base - 1])
        /\ stack'[Base - Low - 1] = stack[Base - Low - 1]
        /\ stack'[Base - Low - 2] = stack[Base - Low - 2]
        /\ stack'[Base - Low - 3] = stack[Base - Low - 3]
        /\ stack'[Base - Low - 4] = stack[Base - Low - 4]
        /\ stack'[Base - Low - 5] = stack[Base - Low - 5]
    BY <2>3
  <2>. QED
    BY <1>1, <2>2, <2>4, SameCall DEF Kept
<1>5. StackInv'
  <2>1. Low' = Low /\ (RealMode' <=> RealMode)
    BY <1>1, SameCall
  <2>. QED
    BY <1>1, <1>2, <1>3, <1>4, <2>1 DEF StackInv
<1>6. Turn'
  BY <1>1, SameCall DEF Turn
<1>. QED
  BY <1>5, <1>6

\* kPrintString does not touch the words of this stack
LEMMA KernelKeeps ==
  ASSUME PrintInv, CallPrintString \/ LocateElement \/ PutCharacter \/ ReturnToMain
  PROVE  Turn' /\ StackInv'
PROOF
<1>. Turn /\ StackInv
  BY DEF PrintInv
<1>1. /\ pc \in {"caller", "entry", "for"} /\ pc' \in {"caller", "entry", "for"}
      /\ UNCHANGED <<calls, assembler>>
  BY DEF CallPrintString, LocateElement, PutCharacter, ReturnToMain
<1>2. StackInv'
  BY <1>1 DEF StackInv, InRoutine, assembler
<1>3. CASE ReturnToMain
  <2>1. made < Len(calls) /\ made' = made + 1 /\ pc' = "caller"
    BY <1>3 DEF Turn, ReturnToMain
  <2>. QED
    BY <2>1, <1>1, <1>2, NextCall DEF Turn, InRoutine
<1>4. CASE CallPrintString \/ LocateElement \/ PutCharacter
  <2>1. UNCHANGED <<calls, made>>
    BY <1>4 DEF CallPrintString, LocateElement, PutCharacter
  <2>2. Prints("kernel") /\ made < Len(calls)
    BY <1>4 DEF Turn, CallPrintString, LocateElement, PutCharacter, Prints
  <2>3. Turn'
    BY <1>1, <2>1, <2>2, SameCall DEF Turn, InRoutine
  <2>. QED
    BY <1>2, <2>3
<1>. QED
  BY <1>3, <1>4

\* the call being made
LEMMA TheCall ==
  ASSUME Turn, made < Len(calls)
  PROVE  LET c == calls[made + 1]
         IN  /\ c.message \in Names /\ Message = c.message
             /\ c.x \in Nat /\ c.y \in Nat
             /\ c.x + Length[c.message] <= 80 /\ c.y <= 6
  BY NextCall, CallsKnown DEF Turn, Message

LEMMA LocatePlace ==
  ASSUME PrintInv, Locate
  PROVE  PlaceInv'
PROOF
<1>. USE StackBounds
<1>1. pc = "locate" /\ Passed /\ reg["bp"] = Base /\ DOMAIN reg = Registers /\ made < Len(calls)
  BY DEF PrintInv, Turn, StackInv, Locate, InRoutine
<1>2. PICK c : c = calls[made + 1]
  OBVIOUS
<1>3. c.message \in Names /\ c.x \in Nat /\ c.y \in Nat
  BY <1>1, <1>2, TheCall DEF PrintInv
<1>4. /\ stack[Base + 2] = c.x /\ stack[Base + 3] = c.y /\ stack[Base + 4] = Text[c.message]
  <2>1. Base + 2 = StackTop - 3 /\ Base + 3 = StackTop - 2 /\ Base + 4 = StackTop - 1
    OBVIOUS
  <2>. QED
    BY <2>1, <1>1, <1>2 DEF Passed
<1>5. /\ reg' = [reg EXCEPT !["es"] = IF RealMode THEN VideoSegment ELSE @,
                            !["di"] = c.y * 160 + c.x * 2, !["ax"] = c.x * 2, !["dx"] = 0,
                            !["si"] = Text[c.message]]
      /\ UNCHANGED <<calls, made>> /\ pc' = "MESSAGELOOP"
  BY <1>1, <1>4 DEF Locate, ParameterWord
<1>6. /\ reg'["si"] = Text[c.message]
      /\ reg'["di"] = c.y * 160 + c.x * 2
      /\ RealMode => reg'["es"] = VideoSegment
  BY <1>1, <1>5 DEF Registers
<1>7. /\ reg'["si"] = Text[c.message] + 0
      /\ reg'["di"] = 160 * c.y + 2 * c.x + 2 * 0
      /\ 0 \in 0..Length[c.message]
  BY <1>3, <1>6, MessagesKnown
<1>. QED
  BY <1>2, <1>5, <1>6, <1>7, SameCall DEF PlaceInv

LEMMA DrawPlace ==
  ASSUME PrintInv, DrawCharacter
  PROVE  PlaceInv'
PROOF
<1>1. /\ pc = "MESSAGELOOP" /\ DOMAIN reg = Registers /\ made < Len(calls)
      /\ TextByte(reg["si"]) # 0
  BY DEF PrintInv, Turn, StackInv, DrawCharacter, InRoutine
<1>2. PICK c : c = calls[made + 1]
  OBVIOUS
<1>3. c.message \in Names /\ c.x \in Nat /\ c.y \in Nat
  BY <1>1, <1>2, TheCall DEF PrintInv
<1>4. PICK s \in 0..Length[c.message] :
        /\ reg["si"] = Text[c.message] + s
        /\ reg["di"] = 160 * c.y + 2 * c.x + 2 * s
        /\ RealMode => reg["es"] = VideoSegment
  BY <1>1, <1>2 DEF PrintInv, PlaceInv
<1>5. s < Length[c.message]
  BY <1>1, <1>3, <1>4, BytesOfMessages
<1>6. /\ reg' = [reg EXCEPT !["cx"] = TextByte(reg["si"]), !["si"] = @ + 1, !["di"] = @ + 2]
      /\ UNCHANGED <<pc, calls, made>>
  BY DEF DrawCharacter
<1>7. /\ reg'["si"] = Text[c.message] + (s + 1)
      /\ reg'["di"] = 160 * c.y + 2 * c.x + 2 * (s + 1)
      /\ RealMode => reg'["es"] = VideoSegment
      /\ s + 1 \in 0..Length[c.message]
  <2>1. /\ reg'["si"] = reg["si"] + 1 /\ reg'["di"] = reg["di"] + 2 /\ reg'["es"] = reg["es"]
    BY <1>1, <1>6 DEF Registers
  <2>2. Text[c.message] \in Nat /\ Length[c.message] \in Nat
    BY <1>3, MessagesKnown
  <2>. QED
    BY <2>1, <2>2, <1>3, <1>4, <1>5
<1>. QED
  BY <1>1, <1>2, <1>6, <1>7, SameCall DEF PlaceInv

LEMMA KernelPlace ==
  ASSUME PrintInv, CallPrintString \/ LocateElement \/ PutCharacter \/ ReturnToMain
  PROVE  PlaceInv'
PROOF
<1>1. CASE CallPrintString
  BY <1>1 DEF CallPrintString, PlaceInv
<1>2. CASE LocateElement
  <2>1. pc = "entry" /\ pstScreen = VideoBase /\ made < Len(calls)
    BY <1>2 DEF PrintInv, PlaceInv, Turn, LocateElement
  <2>2. PICK c : c = calls[made + 1]
    OBVIOUS
  <2>3. c.message \in Names /\ c.x \in Nat /\ c.y \in Nat
    BY <2>1, <2>2, TheCall DEF PrintInv
  <2>4. /\ pstScreen' = VideoBase + (c.y * 80 + c.x) * 2
        /\ i' = 0 /\ pc' = "for" /\ UNCHANGED <<calls, made>>
    BY <1>2, <2>1, <2>2 DEF LocateElement, Element, CharacterBytes, Columns
  <2>5. pstScreen' = VideoBase + 2 * (80 * c.y + c.x) /\ 0 \in 0..Length[c.message]
    BY <2>3, <2>4, MessagesKnown DEF VideoBase
  <2>. QED
    BY <2>2, <2>4, <2>5 DEF PlaceInv
<1>3. CASE PutCharacter
  <2>1. pc = "for" /\ made < Len(calls) /\ TextByte(Text[Message] + i) # 0
    BY <1>3 DEF PrintInv, Turn, PutCharacter
  <2>2. PICK c : c = calls[made + 1]
    OBVIOUS
  <2>3. c.message \in Names /\ Message = c.message
    BY <2>1, <2>2, TheCall DEF PrintInv
  <2>4. i \in 0..Length[c.message] /\ pstScreen = VideoBase + 2 * (80 * c.y + c.x)
    BY <2>1, <2>2 DEF PrintInv, PlaceInv
  <2>5. i < Length[c.message]
    BY <2>1, <2>3, <2>4, BytesOfMessages
  <2>6. i + 1 \in 0..Length[c.message]
    BY <2>3, <2>4, <2>5, MessagesKnown
  <2>. QED
    BY <1>3, <2>2, <2>4, <2>6 DEF PutCharacter, PlaceInv, assembler
<1>4. CASE ReturnToMain
  BY <1>4 DEF ReturnToMain, PlaceInv
<1>. QED
  BY <1>1, <1>2, <1>3, <1>4

LEMMA OtherPlace ==
  ASSUME PrintInv,
         \/ CallPrintMessage \/ Enter \/ MessageEnd \/ Leave \/ RemoveArguments \/ Interrupt
         \/ UNCHANGED vars
  PROVE  PlaceInv'
PROOF
<1>1. CASE CallPrintMessage \/ Enter \/ MessageEnd \/ Leave \/ RemoveArguments
  <2>1. pc' \notin {"MESSAGELOOP", "entry", "for"}
    BY <1>1 DEF CallPrintMessage, Enter, MessageEnd, Leave, RemoveArguments
  <2>. QED
    BY <2>1 DEF PlaceInv
<1>2. CASE Interrupt \/ UNCHANGED vars
  <2>1. UNCHANGED <<pc, calls, made, reg, pstScreen, i>>
    BY <1>2 DEF Interrupt, vars, assembler, kernel
  <2>. QED
    BY <2>1, SameCall DEF PrintInv, PlaceInv
<1>. QED
  BY <1>1, <1>2

LEMMA InitPrint ==
  ASSUME Init
  PROVE  PrintInv
PROOF
<1>. pc = "caller" /\ calls \in BootPaths /\ made = 0 /\ sp = StackTop /\ reg = CallerReg
  BY DEF Init
<1>1. Turn
  BY BootPathsKnown DEF Turn, BootPath, InRoutine
<1>2. StackInv
  <2>1. DOMAIN stack = 0..StackTop /\ DOMAIN reg = Registers
    BY DEF Init, CallerReg, Registers
  <2>. QED
    BY <2>1 DEF StackInv, InRoutine
<1>3. PlaceInv
  BY DEF PlaceInv
<1>. QED
  BY <1>1, <1>2, <1>3 DEF PrintInv

LEMMA NextPrint ==
  ASSUME PrintInv, [Next]_vars
  PROVE  PrintInv'
PROOF
<1>1. CASE CallPrintMessage
  BY <1>1, CallKeeps, OtherPlace DEF PrintInv
<1>2. CASE Enter
  BY <1>2, EnterKeeps, OtherPlace DEF PrintInv
<1>3. CASE Locate
  BY <1>3, QuietKeeps, LocatePlace DEF PrintInv
<1>4. CASE DrawCharacter
  BY <1>4, QuietKeeps, DrawPlace DEF PrintInv
<1>5. CASE MessageEnd
  BY <1>5, QuietKeeps, OtherPlace DEF PrintInv
<1>6. CASE Leave
  BY <1>6, LeaveKeeps, OtherPlace DEF PrintInv
<1>7. CASE RemoveArguments
  BY <1>7, RemoveArgumentsKeeps, OtherPlace DEF PrintInv
<1>8. CASE CallPrintString \/ LocateElement \/ PutCharacter \/ ReturnToMain
  BY <1>8, KernelKeeps, KernelPlace DEF PrintInv
<1>9. CASE Interrupt
  BY <1>9, InterruptKeeps, OtherPlace DEF PrintInv
<1>10. CASE UNCHANGED vars
  <2>1. Turn' /\ StackInv'
    BY <1>10, SameCall
       DEF PrintInv, Turn, StackInv, Passed, Kept, Low, vars, assembler, kernel
  <2>. QED
    BY <2>1, <1>10, OtherPlace DEF PrintInv
<1>. QED
  BY <1>1, <1>2, <1>3, <1>4, <1>5, <1>6, <1>7, <1>8, <1>9, <1>10 DEF Next, Step

\* The programs find their stack and their seven registers as they left them,
\* whatever an interrupt leaves below SP (BootLoader.asm 167-225, EntryPoint.s
\* 80-132), on a stack of any size that has room for one call.
THEOREM CallerUndisturbedHolds == Safety => []CallerUndisturbed
PROOF
<1>1. PrintInv => CallerUndisturbed
  BY DEF PrintInv, StackInv, InRoutine, CallerUndisturbed
<1>. QED
  BY <1>1, InitPrint, NextPrint, PTL DEF Safety

-----------------------------------------------------------------------------
\* the three routines print as Screen says

LEMMA SameNames ==
  /\ Scr!Length = Length /\ Scr!Text = Text /\ Scr!Columns = Columns
  /\ \A m : Scr!Hole(m) = Hole(m)
  /\ \A s, a, ch : Scr!Written(s, a, ch) = Written(s, a, ch)
  /\ \A c : Scr!Cell(c) = c.y * 80 + c.x
  /\ Scr!Current = calls[made + 1]
  BY DEF Scr!Length, Length, Scr!Text, Text, Scr!Columns, Columns, Scr!Hole, Hole,
         Scr!Written, Written, Scr!Cell, Scr!Current

\* the cells, and where each of them is
Places  == 0..1999
Address == [n \in Places |-> VideoBase + 2 * n]

\* a character written to one of the addresses appears in one of the places
LEMMA Seen ==
  ASSUME NEW S, NEW A, NEW v, NEW n \in S, NEW ch, \A m \in S : A[m] = A[n] => m = n
  PROVE  LET w == Written(v, A[n], ch)
         IN  [m \in {m \in S : A[m] \in DOMAIN w} |-> w[A[m]]]
               = Written([m \in {m \in S : A[m] \in DOMAIN v} |-> v[A[m]]], n, ch)
PROOF
<1>1. PICK d : d = DOMAIN v
  BY Zenon
<1>2. PICK w : w = Written(v, A[n], ch)
  BY Zenon
<1>3. DOMAIN w = d \cup {A[n]} /\ \A a \in d \cup {A[n]} : w[a] = IF a = A[n] THEN ch ELSE v[a]
  BY <1>1, <1>2 DEF Written
<1>4. {m \in S : A[m] \in DOMAIN w} = {m \in S : A[m] \in d} \cup {n}
  BY <1>3
<1>5. \A m \in {m \in S : A[m] \in d} \cup {n} : w[A[m]] = IF m = n THEN ch ELSE v[A[m]]
  BY <1>3
<1>6. Written([m \in {m \in S : A[m] \in d} |-> v[A[m]]], n, ch)
        = [m \in {m \in S : A[m] \in d} \cup {n} |-> IF m = n THEN ch ELSE v[A[m]]]
  BY DEF Written
<1>7. [m \in {m \in S : A[m] \in DOMAIN w} |-> w[A[m]]]
        = Written([m \in {m \in S : A[m] \in d} |-> v[A[m]]], n, ch)
  BY <1>4, <1>5, <1>6
<1>. QED
  BY <1>1, <1>2, <1>7

LEMMA CellWritten ==
  ASSUME NEW n \in Places, NEW ch, video' = Written(video, Address[n], ch)
  PROVE  Cells' = Written(Cells, n, ch)
PROOF
<1>1. \A m \in Places : Address[m] = Address[n] => m = n
  <2>1. \A m \in Places : m \in Nat /\ Address[m] = VideoBase + 2 * m
    <3>1. \A m \in Places : m \in Nat
      BY SMT DEF Places
    <3>2. \A m \in Places : Address[m] = VideoBase + 2 * m
      BY DEF Address
    <3>. QED
      BY <3>1, <3>2
  <2>2. VideoBase \in Nat
    BY SMT DEF VideoBase
  <2>. QED
    BY <2>1, <2>2
<1>2. /\ Cells = [m \in {m \in Places : Address[m] \in DOMAIN video} |-> video[Address[m]]]
      /\ Cells' = [m \in {m \in Places : Address[m] \in DOMAIN video'} |-> video'[Address[m]]]
  <2>1. Places = 0..(Columns * Rows - 1)
    BY SMT DEF Columns, Rows, Places
  <2>2. /\ Cells = [m \in {m \in Places : VideoBase + 2 * m \in DOMAIN video}
                      |-> video[VideoBase + 2 * m]]
        /\ Cells' = [m \in {m \in Places : VideoBase + 2 * m \in DOMAIN video'}
                       |-> video'[VideoBase + 2 * m]]
    BY <2>1 DEF Cells
  <2>3. \A m \in Places : Address[m] = VideoBase + 2 * m
    BY DEF Address
  <2>. QED
    BY <2>2, <2>3
<1>3. LET w == Written(video, Address[n], ch)
      IN  [m \in {m \in Places : Address[m] \in DOMAIN w} |-> w[Address[m]]]
               = Written([m \in {m \in Places : Address[m] \in DOMAIN video}
                            |-> video[Address[m]]], n, ch)
  BY <1>1, Seen
<1>. QED
  BY <1>2, <1>3, Zenon

LEMMA CellsStay ==
  ASSUME UNCHANGED video
  PROVE  Cells' = Cells
  BY DEF Cells

LEMMA InitScreen ==
  ASSUME Init
  PROVE  Scr!Init
PROOF
<1>1. Shown = 0
  BY DEF Init, Shown
<1>2. Cells = << >>
  <2>1. {c \in 0..(Columns * Rows - 1) : VideoBase + 2 * c \in DOMAIN video} = {}
    BY DEF Init
  <2>. QED
    BY <2>1 DEF Cells
<1>. QED
  BY <1>1, <1>2 DEF Init, Scr!Init

\* character s of the current message is written where call c asks for it
Writes(c, s) == video' = Written(video, VideoBase + 2 * (80 * c.y + c.x + s), Text[Message] + s)

\* one more character of the current message
LEMMA PutOnScreen ==
  ASSUME NEW c, NEW s \in Nat,
         Turn /\ made < Len(calls) /\ c = calls[made + 1] /\ s < Length[Message],
         Shown = s /\ Shown' = s + 1 /\ UNCHANGED <<calls, made>>, Writes(c, s)
  PROVE  Scr!Put
PROOF
<1>1. /\ c.message \in Names /\ Message = c.message
      /\ c.x \in Nat /\ c.y \in Nat
      /\ c.x + Length[c.message] <= 80 /\ c.y <= 6
  BY TheCall
<1>2. PICK n : n = 80 * c.y + c.x + s
  BY Zenon
<1>3. n \in Places /\ Address[n] = VideoBase + 2 * (80 * c.y + c.x + s) /\ n = (c.y * 80 + c.x) + s
  <2>1. Length[c.message] \in Nat /\ s < Length[c.message]
    BY <1>1, MessagesKnown
  <2>2. PICK x \in Nat, y \in Nat, l \in Nat : x = c.x /\ y = c.y /\ l = Length[c.message]
    BY <1>1, <2>1
  <2>3. x \in Nat /\ y \in Nat /\ l \in Nat /\ s \in Nat /\ y <= 6 /\ x + l <= 80 /\ s < l
    BY <1>1, <2>1, <2>2
  <2>4. 80 * y + x + s \in Places
    BY <2>3, SMT DEF Places
  <2>5. 80 * y + x + s = (y * 80 + x) + s
    BY <2>3
  <2>6. \A m \in Places : Address[m] = VideoBase + 2 * m
    BY DEF Address
  <2>. QED
    BY <2>2, <2>4, <2>5, <2>6, <1>2, Zenon
<1>4. Cells' = Written(Cells, n, Text[Message] + s)
  <2>1. video' = Written(video, Address[n], Text[Message] + s)
    BY <1>3, Zenon DEF Writes
  <2>. QED
    BY <2>1, <1>3, CellWritten, Zenon
<1>5. Scr!Cell(Scr!Current) + Shown = n /\ Scr!Text[Scr!Current.message] + Shown = Text[Message] + s
  BY <1>1, <1>3, SameNames
<1>6. Cells' = Scr!Written(Cells, Scr!Cell(Scr!Current) + Shown,
                            Scr!Text[Scr!Current.message] + Shown)
  BY <1>4, <1>5, SameNames, Zenon
<1>7. Shown < Scr!Length[Scr!Current.message]
  BY <1>1, SameNames
<1>. QED
  BY <1>6, <1>7 DEF Scr!Put

LEMMA StepOnScreen ==
  ASSUME PrintInv, [Next]_vars
  PROVE  [Scr!Next]_Scr!vars
PROOF
<1>. Turn /\ StackInv /\ PlaceInv
  BY DEF PrintInv
<1>1. ASSUME UNCHANGED <<calls, made, video>>, Shown' = Shown
      PROVE  UNCHANGED Scr!vars
  BY <1>1, CellsStay DEF Scr!vars
<1>2. CASE CallPrintMessage \/ Enter \/ CallPrintString \/ RemoveArguments
  <2>1. UNCHANGED <<calls, made, video>>
    BY <1>2 DEF CallPrintMessage, Enter, CallPrintString, RemoveArguments
  <2>2. /\ pc \notin {"MESSAGELOOP", "MESSAGEEND", "for"}
        /\ pc' \notin {"MESSAGELOOP", "MESSAGEEND", "for"}
    BY <1>2 DEF CallPrintMessage, Enter, CallPrintString, RemoveArguments
  <2>3. Shown = 0 /\ Shown' = 0
    BY <2>2 DEF Shown
  <2>. QED
    BY <1>1, <2>1, <2>3
<1>3. CASE Locate
  <2>1. /\ pc = "locate" /\ pc' = "MESSAGELOOP" /\ made < Len(calls)
        /\ UNCHANGED <<calls, made, video>>
    BY <1>3 DEF Locate, Turn, InRoutine
  <2>2. Passed /\ reg["bp"] = Base /\ DOMAIN reg = Registers
    BY <2>1 DEF StackInv, InRoutine
  <2>3. reg'["si"] = Text[Message]
    <3>1. reg'["si"] = stack[Base + 4]
      BY <1>3, <2>2 DEF Locate, Registers, ParameterWord
    <3>2. Base + 4 = StackTop - 1
      BY StackBounds
    <3>. QED
      BY <3>1, <3>2, <2>2 DEF Passed, Message
  <2>4. Shown = 0 /\ Shown' = Text[Message] - Text[Message]
    BY <2>1, <2>3, SameCall DEF Shown
  <2>5. Message \in Names
    BY <2>1, TheCall
  <2>6. Text[Message] - Text[Message] = 0
    BY <2>5, MessagesKnown
  <2>. QED
    BY <1>1, <2>1, <2>4, <2>6
<1>4. CASE DrawCharacter
  <2>1. /\ pc = "MESSAGELOOP" /\ pc' = "MESSAGELOOP" /\ made < Len(calls) /\ DOMAIN reg = Registers
        /\ UNCHANGED <<calls, made>>
    BY <1>4 DEF DrawCharacter, Turn, StackInv, InRoutine
  <2>2. PICK c : c = calls[made + 1]
    OBVIOUS
  <2>3. c.message \in Names /\ Message = c.message /\ c.x \in Nat /\ c.y \in Nat
    BY <2>1, <2>2, TheCall
  <2>4. PICK s \in 0..Length[c.message] :
          /\ reg["si"] = Text[c.message] + s
          /\ reg["di"] = 160 * c.y + 2 * c.x + 2 * s
          /\ RealMode => reg["es"] = VideoSegment
    BY <2>1, <2>2 DEF PlaceInv
  <2>5. s < Length[c.message] /\ TextByte(reg["si"]) = Text[c.message] + s
    BY <1>4, <2>3, <2>4, BytesOfMessages DEF DrawCharacter
  <2>6. s \in 0..61 /\ Text[c.message] \in Nat
    BY <2>3, <2>5, MessagesKnown
  <2>7. reg'["si"] = Text[c.message] + s + 1
    BY <1>4, <2>1, <2>4, <2>6 DEF DrawCharacter, Registers
  <2>8. Shown = s /\ Shown' = s + 1
    <3>1. Shown = reg["si"] - Text[Message] /\ Shown' = reg'["si"] - Text[Message]
      BY <2>1, SameCall DEF Shown
    <3>. QED
      BY <3>1, <2>3, <2>4, <2>6, <2>7
  <2>9. Target = VideoBase + 2 * (80 * c.y + c.x + s)
    <3>1. Target = VideoBase + reg["di"]
      <4>1. RealMode => 16 * reg["es"] = VideoBase
        BY <2>4 DEF VideoSegment, VideoBase
      <4>. QED
        BY <4>1 DEF Target
    <3>2. VideoBase + (160 * c.y + 2 * c.x + 2 * s) = VideoBase + 2 * (80 * c.y + c.x + s)
      BY <2>3, <2>6 DEF VideoBase
    <3>. QED
      BY <3>1, <3>2, <2>4
  <2>10. Writes(c, s)
    BY <1>4, <2>3, <2>5, <2>9 DEF DrawCharacter, Writes
  <2>11. Scr!Put
    BY <2>1, <2>2, <2>3, <2>5, <2>6, <2>8, <2>10, PutOnScreen
  <2>. QED
    BY <2>11 DEF Scr!Next
<1>5. CASE MessageEnd
  <2>1. /\ pc = "MESSAGELOOP" /\ pc' = "MESSAGEEND" /\ made < Len(calls)
        /\ UNCHANGED <<calls, made, video>>
    BY <1>5 DEF MessageEnd, Turn, InRoutine
  <2>2. PICK c : c = calls[made + 1]
    OBVIOUS
  <2>3. c.message \in Names /\ Message = c.message
    BY <2>1, <2>2, TheCall
  <2>4. PICK s \in 0..Length[c.message] : reg["si"] = Text[c.message] + s
    BY <2>1, <2>2 DEF PlaceInv
  <2>5. /\ Text[c.message] \in Nat /\ Text[c.message] >= 100 /\ Length[c.message] \in Nat
    BY <2>3, MessagesKnown
  <2>6. s = Length[c.message]
    <3>1. ~(s < Length[c.message])
      <4>1. TextByte(Text[c.message] + s) = 0
        BY <1>5, <2>4 DEF MessageEnd
      <4>2. s < Length[c.message] => TextByte(Text[c.message] + s) = Text[c.message] + s
        BY <2>3, BytesOfMessages
      <4>3. Text[c.message] + s # 0
        BY <2>5
      <4>. QED
        BY <4>1, <4>2, <4>3
    <3>. QED
      BY <3>1, <2>5
  <2>7. Shown = reg["si"] - Text[Message] /\ Shown' = Length[Message]
    BY <2>1, SameCall DEF Shown
  <2>8. Shown = Length[Message]
    BY <2>3, <2>4, <2>5, <2>6, <2>7
  <2>. QED
    BY <1>1, <2>1, <2>7, <2>8
<1>6. CASE Leave
  <2>1. pc = "MESSAGEEND" /\ pc' = "return" /\ UNCHANGED <<calls, video>> /\ made < Len(calls)
    BY <1>6 DEF Leave, Turn, InRoutine
  <2>2. made' = made + 1
    BY <1>6, LeaveRegisters
  <2>3. Shown = Length[Message] /\ Shown' = 0
    BY <2>1 DEF Shown
  <2>4. Scr!Return
    BY <2>1, <2>2, <2>3, CellsStay, SameNames DEF Scr!Return, Message
  <2>. QED
    BY <2>4 DEF Scr!Next
<1>7. CASE LocateElement
  <2>1. pc = "entry" /\ pc' = "for" /\ i' = 0 /\ UNCHANGED <<calls, made, video>>
    BY <1>7 DEF LocateElement
  <2>2. Shown = 0 /\ Shown' = 0
    BY <2>1 DEF Shown
  <2>. QED
    BY <1>1, <2>1, <2>2
<1>8. CASE PutCharacter
  <2>1. /\ pc = "for" /\ pc' = "for" /\ i' = i + 1 /\ made < Len(calls)
        /\ UNCHANGED <<calls, made>>
        /\ TextByte(Text[Message] + i) # 0
        /\ video' = Written(video, Element(i), TextByte(Text[Message] + i))
    BY <1>8 DEF PutCharacter, Turn
  <2>2. PICK c : c = calls[made + 1]
    OBVIOUS
  <2>3. c.message \in Names /\ Message = c.message /\ c.x \in Nat /\ c.y \in Nat
    BY <2>1, <2>2, TheCall
  <2>4. i \in 0..Length[c.message] /\ pstScreen = VideoBase + 2 * (80 * c.y + c.x)
    BY <2>1, <2>2 DEF PlaceInv
  <2>5. i < Length[c.message] /\ TextByte(Text[Message] + i) = Text[Message] + i
    BY <2>1, <2>3, <2>4, BytesOfMessages
  <2>6. i \in 0..61
    BY <2>3, <2>4, <2>5, MessagesKnown
  <2>7. Element(i) = VideoBase + 2 * (80 * c.y + c.x + i)
    BY <2>3, <2>4, <2>6 DEF Element, CharacterBytes, VideoBase
  <2>8. Shown = i /\ Shown' = i + 1
    BY <2>1 DEF Shown
  <2>9. Scr!Put
    <3>1. Writes(c, i)
      BY <2>1, <2>5, <2>7, Zenon DEF Writes
    <3>2. i \in Nat /\ i < Length[Message]
      BY <2>3, <2>5, <2>6
    <3>. QED
      BY <3>1, <3>2, <2>1, <2>2, <2>8, PutOnScreen
  <2>. QED
    BY <2>9 DEF Scr!Next
<1>9. CASE ReturnToMain
  <2>1. /\ pc = "for" /\ pc' = "caller" /\ made' = made + 1 /\ made < Len(calls)
        /\ UNCHANGED <<calls, video>> /\ TextByte(Text[Message] + i) = 0
    BY <1>9 DEF ReturnToMain, Turn
  <2>2. PICK c : c = calls[made + 1]
    OBVIOUS
  <2>3. c.message \in Names /\ Message = c.message
    BY <2>1, <2>2, TheCall
  <2>4. i \in 0..Length[c.message]
    BY <2>1, <2>2 DEF PlaceInv
  <2>5. /\ Text[c.message] \in Nat /\ Text[c.message] >= 100 /\ Length[c.message] \in Nat
    BY <2>3, MessagesKnown
  <2>6. i = Length[c.message]
    <3>1. i < Length[c.message] => TextByte(Text[c.message] + i) = Text[c.message] + i
      BY <2>3, <2>4, BytesOfMessages
    <3>2. Text[c.message] + i # 0
      BY <2>4, <2>5
    <3>. QED
      BY <3>1, <3>2, <2>1, <2>3, <2>4, <2>5
  <2>7. Shown = Length[Message] /\ Shown' = 0
    BY <2>1, <2>3, <2>6 DEF Shown
  <2>8. Scr!Return
    BY <2>1, <2>7, CellsStay, SameNames DEF Scr!Return, Message
  <2>. QED
    BY <2>8 DEF Scr!Next
<1>10. CASE Interrupt \/ UNCHANGED vars
  <2>1. UNCHANGED <<pc, calls, made, reg, i, video>>
    BY <1>10 DEF Interrupt, vars, assembler, kernel
  <2>2. Shown' = Shown
    BY <2>1, SameCall DEF Shown
  <2>. QED
    BY <1>1, <2>1, <2>2
<1>. QED
  BY <1>2, <1>3, <1>4, <1>5, <1>6, <1>7, <1>8, <1>9, <1>10 DEF Next, Step

\* Whichever routine prints, the characters of each message of the boot appear
\* one by one from the place that was asked for, and nothing else changes on
\* the screen (BootLoader.asm 167-225, EntryPoint.s 80-132, Main.c 43-54).
THEOREM PrintsAsAsked == Safety => Scr!Safety
PROOF
<1>1. Init => Scr!Init
  BY InitScreen
<1>2. PrintInv /\ [Next]_vars => [Scr!Next]_Scr!vars
  BY StepOnScreen
<1>. QED
  BY <1>1, <1>2, InitPrint, NextPrint, PTL DEF Safety, Scr!Safety

-----------------------------------------------------------------------------
\* what stays on the screen

\* the first cell of call k, and how many characters of it have appeared
First(k)    == calls[k].y * 80 + calls[k].x
Appeared(k) == IF k <= made THEN Length[calls[k].message] ELSE Shown

\* What has appeared is there, except that a bracket may have been filled in.
ScreenInv ==
  /\ Shown \in Nat
  /\ \A k \in Nat : k >= 1 /\ k <= made + 1 /\ k <= Len(calls) =>
       \A j \in Nat : j < Appeared(k) =>
         /\ First(k) + j \in DOMAIN Cells
         /\ j \notin Hole(calls[k].message) =>
              Cells[First(k) + j] = Text[calls[k].message] + j

\* the row of each call of a boot
RowOf == <<0, 1, 1, 2, 3, 4, 4, 5, 5, 6>>

LEMMA RowsKnown ==
  ASSUME NEW p \in BootPaths, NEW k \in Nat, k >= 1, k <= Len(p)
  PROVE  k \in 1..10 /\ p[k].y = RowOf[k]
PROOF
<1>0. BootPath(p)
  BY BootPathsKnown
<1>1. k \in 1..10 /\ Len(p) \in Nat
  BY <1>0 DEF BootPath
<1>2. \/ k = 1 \/ k = 2 \/ k = 3 \/ k = 4 \/ k = 5 \/ k = 6 \/ k = 7 \/ k = 8 \/ k = 9 \/ k = 10
  BY <1>1
<1>3. \A x, y, m : Call(x, y, m).y = y
  BY DEF Call
<1>. QED
  BY <1>0, <1>1, <1>2, <1>3 DEF BootPath, RowOf

\* which calls share a row
LEMMA RowsShared ==
  ASSUME NEW j \in 1..10, NEW k \in 1..10, j < k, RowOf[j] = RowOf[k]
  PROVE  (j = 2 /\ k = 3) \/ (j = 6 /\ k = 7) \/ (j = 8 /\ k = 9)
  BY DEF RowOf

\* a later call of the same row comes behind the earlier message, or into its bracket
LEMMA Beside ==
  ASSUME NEW p \in BootPaths, NEW j \in Nat, NEW k \in Nat, j >= 1, j < k, k <= Len(p),
         p[j].y = p[k].y,
         NEW a \in Nat, a < Length[p[j].message], a \notin Hole(p[j].message),
         NEW b \in Nat, b < Length[p[k].message]
  PROVE  p[j].x + a # p[k].x + b
PROOF
<1>0. BootPath(p)
  BY BootPathsKnown
<1>1. Len(p) \in Nat /\ Len(p) <= 10
  BY <1>0 DEF BootPath
<1>2. (j = 2 /\ k = 3) \/ (j = 6 /\ k = 7) \/ (j = 8 /\ k = 9)
  <2>1. j \in 1..10 /\ k \in 1..10 /\ RowOf[j] = RowOf[k]
    BY <1>1, RowsKnown
  <2>. QED
    BY <2>1, RowsShared
<1>c. \A x, y, m : Call(x, y, m).x = x /\ Call(x, y, m).message = m
  BY DEF Call
<1>3. CASE j = 2 /\ k = 3
  <2>1. p[j].x = 0 /\ p[j].message = "IMAGELOADINGMESSAGE" /\ p[k].x = 20
    BY <1>0, <1>1, <1>3, <1>c DEF BootPath
  <2>2. Length["IMAGELOADINGMESSAGE"] = 19
    BY DEF Length
  <2>. QED
    BY <2>1, <2>2
<1>4. CASE j = 6 /\ k = 7
  <2>1. /\ p[j].x = 0 /\ p[j].message = "memoryCheck"
        /\ p[k].x = 45 /\ p[k].message \in {"pass", "fail"}
    BY <1>0, <1>1, <1>4, <1>c DEF BootPath
  <2>2. Length[p[k].message] = 4 /\ Hole("memoryCheck") = 45..48
    BY <2>1 DEF Length, Hole
  <2>3. a \notin 45..48 /\ b < 4
    BY <2>1, <2>2
  <2>. QED
    BY <2>1, <2>3
<1>5. CASE j = 8 /\ k = 9
  <2>1. /\ p[j].x = 0 /\ p[j].message = "areaInitialize"
        /\ p[k].x = 45 /\ p[k].message \in {"pass", "fail"}
    BY <1>0, <1>1, <1>5, <1>c DEF BootPath
  <2>2. Length[p[k].message] = 4 /\ Hole("areaInitialize") = 45..48
    BY <2>1 DEF Length, Hole
  <2>3. a \notin 45..48 /\ b < 4
    BY <2>1, <2>2
  <2>. QED
    BY <2>1, <2>3
<1>. QED
  BY <1>2, <1>3, <1>4, <1>5

\* cells of different rows, or of different columns of one row
LEMMA CellsDiffer ==
  ASSUME NEW y1 \in Nat, NEW x1 \in Nat, NEW l1 \in Nat, NEW a \in Nat, x1 + l1 <= 80, a < l1,
         NEW y2 \in Nat, NEW x2 \in Nat, NEW l2 \in Nat, NEW b \in Nat, x2 + l2 <= 80, b < l2,
         y1 # y2 \/ x1 + a # x2 + b
  PROVE  (y1 * 80 + x1) + a # (y2 * 80 + x2) + b
  OBVIOUS

LEMMA Apart ==
  ASSUME NEW p \in BootPaths, NEW j \in Nat, NEW k \in Nat, j >= 1, j < k, k <= Len(p),
         NEW a \in Nat, a < Length[p[j].message], a \notin Hole(p[j].message),
         NEW b \in Nat, b < Length[p[k].message]
  PROVE  (p[j].y * 80 + p[j].x) + a # (p[k].y * 80 + p[k].x) + b
PROOF
<1>0. Len(p) \in Nat
  BY BootPathsKnown DEF BootPath
<1>1. /\ p[j].message \in Names /\ p[j].x \in Nat /\ p[j].y \in Nat
      /\ p[j].x + Length[p[j].message] <= 80
      /\ p[k].message \in Names /\ p[k].x \in Nat /\ p[k].y \in Nat
      /\ p[k].x + Length[p[k].message] <= 80
  BY <1>0, CallsKnown
<1>2. p[j].y # p[k].y \/ p[j].x + a # p[k].x + b
  BY Beside
<1>3. Length[p[j].message] \in Nat /\ Length[p[k].message] \in Nat
  BY <1>1, MessagesKnown
<1>. QED
  <2>1. PICK y1 \in Nat, x1 \in Nat, l1 \in Nat :
          y1 = p[j].y /\ x1 = p[j].x /\ l1 = Length[p[j].message]
    BY <1>1, <1>3
  <2>2. PICK y2 \in Nat, x2 \in Nat, l2 \in Nat :
          y2 = p[k].y /\ x2 = p[k].x /\ l2 = Length[p[k].message]
    BY <1>1, <1>3
  <2>3. /\ x1 + l1 <= 80 /\ x2 + l2 <= 80 /\ a < l1 /\ b < l2
        /\ y1 # y2 \/ x1 + a # x2 + b
    BY <2>1, <2>2, <1>1, <1>2
  <2>4. (y1 * 80 + x1) + a # (y2 * 80 + x2) + b
    BY <2>3, CellsDiffer
  <2>. QED
    BY <2>1, <2>2, <2>4, Zenon

LEMMA InitScreenInv ==
  ASSUME Init
  PROVE  ScreenInv
PROOF
<1>1. Shown = 0 /\ made = 0
  BY DEF Init, Shown
<1>2. ASSUME NEW k \in Nat, k >= 1, k <= made + 1, NEW j \in Nat, j < Appeared(k)
      PROVE  FALSE
  BY <1>1, <1>2 DEF Appeared
<1>. QED
  BY <1>1, <1>2 DEF ScreenInv

LEMMA PutKeepsScreen ==
  ASSUME Turn, ScreenInv, Scr!Put
  PROVE  ScreenInv'
PROOF
<1>1. /\ made < Len(calls) /\ Shown < Length[Message]
      /\ Cells' = Written(Cells, First(made + 1) + Shown, Text[Message] + Shown)
      /\ Shown' = Shown + 1 /\ UNCHANGED <<calls, made>>
  <2>1. /\ Scr!Length[Scr!Current.message] = Length[Message]
        /\ Scr!Text[Scr!Current.message] = Text[Message]
    BY SameNames DEF Message
  <2>2. Scr!Cell(Scr!Current) = First(made + 1)
    BY SameNames DEF First
  <2>. QED
    BY <2>1, <2>2, SameNames DEF Scr!Put
<1>2. PICK n : n = First(made + 1) + Shown
  BY Zenon
<1>3. /\ DOMAIN Cells' = DOMAIN Cells \cup {n}
      /\ \A a \in DOMAIN Cells : a # n => Cells'[a] = Cells[a]
      /\ Cells'[n] = Text[Message] + Shown
  BY <1>1, <1>2 DEF Written
<1>4. Shown \in Nat /\ made \in Nat /\ calls \in BootPaths
  BY DEF ScreenInv, Turn
<1>5. Len(calls) \in Nat
  BY <1>4, BootPathsKnown DEF BootPath
<1>6. \A k : First(k)' = First(k)
  BY <1>1 DEF First
<1>7. /\ \A k \in Nat : k <= made => /\ Appeared(k)' = Length[calls[k].message]
                                    /\ Appeared(k) = Length[calls[k].message]
      /\ \A k : k = made + 1 => Appeared(k) = Shown /\ Appeared(k)' = Shown + 1
  BY <1>1, <1>4 DEF Appeared
<1>8. ASSUME NEW k \in Nat, k >= 1, k <= made + 1, k <= Len(calls),
             NEW j \in Nat, j < Appeared(k)'
      PROVE  /\ First(k) + j \in DOMAIN Cells'
             /\ j \notin Hole(calls[k].message) =>
                  Cells'[First(k) + j] = Text[calls[k].message] + j
  <2>1. CASE k <= made
    <3>1. j < Length[calls[k].message] /\ j < Appeared(k)
      BY <1>7, <1>8, <2>1
    <3>2. /\ First(k) + j \in DOMAIN Cells
          /\ j \notin Hole(calls[k].message) =>
               Cells[First(k) + j] = Text[calls[k].message] + j
      BY <1>8, <3>1 DEF ScreenInv
    <3>3. j \notin Hole(calls[k].message) => First(k) + j # n
      <4>1. k < made + 1 /\ made + 1 \in Nat /\ made + 1 <= Len(calls)
        BY <1>1, <1>4, <1>5, <2>1
      <4>2. Shown < Length[calls[made + 1].message]
        BY <1>1 DEF Message
      <4>. QED
        BY <3>1, <4>1, <4>2, <1>2, <1>4, <1>8, Apart DEF First
    <3>. QED
      BY <1>3, <3>2, <3>3
  <2>2. CASE k = made + 1 /\ j < Shown
    <3>1. j < Appeared(k)
      BY <1>7, <2>2
    <3>2. /\ First(k) + j \in DOMAIN Cells
          /\ j \notin Hole(calls[k].message) =>
               Cells[First(k) + j] = Text[calls[k].message] + j
      BY <1>8, <3>1 DEF ScreenInv
    <3>3. First(k) + j # n
      <4>1. First(made + 1) \in Nat
        BY <1>1, TheCall DEF First
      <4>. QED
        BY <4>1, <2>2, <1>2, <1>4
    <3>. QED
      BY <1>3, <3>2, <3>3
  <2>3. CASE k = made + 1 /\ j = Shown
    <3>1. First(k) + j = n /\ Text[calls[k].message] + j = Text[Message] + Shown
      BY <2>3, <1>2 DEF Message
    <3>. QED
      BY <3>1, <1>3
  <2>. QED
    <3>1. k = made + 1 => j < Shown + 1
      BY <1>7, <1>8
    <3>. QED
      BY <2>1, <2>2, <2>3, <3>1, <1>4, <1>8
<1>9. Shown' \in Nat
  BY <1>1, <1>4
<1>. QED
  BY <1>1, <1>6, <1>8, <1>9 DEF ScreenInv

LEMMA ReturnKeepsScreen ==
  ASSUME Turn, ScreenInv, Scr!Return
  PROVE  ScreenInv'
PROOF
<1>1. /\ made < Len(calls) /\ Shown = Length[Message]
      /\ made' = made + 1 /\ Shown' = 0 /\ UNCHANGED <<calls, Cells>>
  <2>1. Scr!Length[Scr!Current.message] = Length[Message]
    BY SameNames DEF Message
  <2>. QED
    BY <2>1 DEF Scr!Return
<1>2. Shown \in Nat /\ made \in Nat
  BY DEF ScreenInv, Turn
<1>3. ASSUME NEW k \in Nat, k >= 1, k <= made' + 1, k <= Len(calls),
             NEW j \in Nat, j < Appeared(k)'
      PROVE  k <= made + 1 /\ j < Appeared(k)
  <2>1. CASE k <= made
    BY <1>1, <1>2, <1>3, <2>1 DEF Appeared
  <2>2. CASE k = made + 1
    BY <1>1, <1>2, <1>3, <2>2 DEF Appeared, Message
  <2>3. CASE k = made + 2
    BY <1>1, <1>2, <1>3, <2>3 DEF Appeared
  <2>. QED
    BY <1>1, <1>2, <1>3, <2>1, <2>2, <2>3
<1>4. \A k : First(k)' = First(k)
  BY <1>1 DEF First
<1>. QED
  BY <1>1, <1>2, <1>3, <1>4 DEF ScreenInv

LEMMA NextScreenInv ==
  ASSUME PrintInv, ScreenInv, [Next]_vars
  PROVE  ScreenInv'
PROOF
<1>1. Turn
  BY DEF PrintInv
<1>2. CASE Scr!Put
  BY <1>1, <1>2, PutKeepsScreen
<1>3. CASE Scr!Return
  BY <1>1, <1>3, ReturnKeepsScreen
<1>4. CASE UNCHANGED Scr!vars
  <2>1. UNCHANGED <<calls, made, Shown, Cells>>
    BY <1>4 DEF Scr!vars
  <2>. QED
    BY <2>1 DEF ScreenInv, First, Appeared
<1>. QED
  BY <1>2, <1>3, <1>4, StepOnScreen DEF Scr!Next

LEMMA ReadableNow ==
  ASSUME Turn, ScreenInv
  PROVE  Readable
PROOF
<1>1. ASSUME NEW k \in 1..made, NEW j \in 0..(Length[calls[k].message] - 1) \ Hole(calls[k].message)
      PROVE  /\ calls[k].x + j < 80
             /\ Cells[(calls[k].y * 80 + calls[k].x) + j] = Text[calls[k].message] + j
  <2>1. calls \in BootPaths /\ made \in Nat /\ made <= Len(calls) /\ Len(calls) \in Nat
    BY BootPathsKnown DEF Turn, BootPath
  <2>2. k \in Nat /\ k >= 1 /\ k <= made /\ k <= Len(calls) /\ k <= made + 1
    BY <2>1
  <2>3. /\ calls[k].message \in Names /\ calls[k].x \in Nat
        /\ calls[k].x + Length[calls[k].message] <= 80
    BY <2>1, <2>2, CallsKnown
  <2>4. Length[calls[k].message] \in Nat
    BY <2>3, MessagesKnown
  <2>5. j \in Nat /\ j < Length[calls[k].message]
    BY <2>4
  <2>6. calls[k].x + j < 80
    BY <2>3, <2>4, <2>5
  <2>7. j < Appeared(k)
    BY <2>2, <2>5 DEF Appeared
  <2>. QED
    BY <2>2, <2>5, <2>6, <2>7 DEF ScreenInv, First
<1>2. Columns = 80
  BY DEF Columns
<1>. QED
  BY <1>1, <1>2, SameNames DEF Readable, Scr!Readable

LEMMA OutcomesNow ==
  ASSUME Turn, Readable
  PROVE  OutcomesFilledIn
PROOF
<1>1. SUFFICES ASSUME made = Len(calls), NEW k \in 1..made, NEW j \in Hole(calls[k].message)
               PROVE  Cells[(calls[k].y * 80 + calls[k].x) + j] # Text[calls[k].message] + j
  BY SameNames DEF OutcomesFilledIn, Scr!OutcomesFilledIn
<1>2. BootPath(calls) /\ calls \in BootPaths
  BY BootPathsKnown DEF Turn
<1>3. k \in 1..10 /\ Len(calls) \in Nat /\ made \in Nat
  BY <1>1, <1>2 DEF BootPath, Turn
<1>c. \A x, y, m : /\ Call(x, y, m).x = x /\ Call(x, y, m).y = y
                                   /\ Call(x, y, m).message = m
  BY DEF Call
<1>4. /\ j \in 45..48 /\ calls[k].message \in {"memoryCheck", "areaInitialize"}
  <2>1. calls[k].message \in {"memoryCheck", "areaInitialize"}
    BY <1>1 DEF Hole
  <2>. QED
    BY <2>1, <1>1 DEF Hole
<1>5. /\ k + 1 <= made /\ calls[k].x = 0 /\ calls[k].y \in Nat
      /\ calls[k + 1].x = 45 /\ calls[k + 1].y = calls[k].y
      /\ calls[k + 1].message \in {"pass", "fail"}
  <2>1. k = 6 \/ (k = 8 /\ Len(calls) > 8)
    <3>1. \/ k = 1 \/ k = 2 \/ k = 3 \/ k = 4 \/ k = 5 \/ k = 6 \/ k = 7 \/ k = 8 \/ k = 9 \/ k = 10
      BY <1>3
    <3>2. k <= Len(calls)
      BY <1>1, <1>3
    <3>3. k # 1 /\ k # 2 /\ k # 3 /\ k # 4 /\ k # 5
      BY <3>2, <1>2, <1>3, <1>4, <1>c DEF BootPath
    <3>4. k # 7 /\ k # 9 /\ k # 10
      BY <3>2, <1>2, <1>3, <1>4, <1>c DEF BootPath
    <3>5. k = 8 => Len(calls) > 8
      BY <3>2, <1>2, <1>3, <1>4, <1>c DEF BootPath
    <3>. QED
      BY <3>1, <3>3, <3>4, <3>5
  <2>2. CASE k = 6
    BY <1>1, <1>2, <1>3, <1>c, <2>2 DEF BootPath
  <2>3. CASE k = 8 /\ Len(calls) > 8
    BY <1>1, <1>2, <1>3, <1>c, <2>3 DEF BootPath
  <2>. QED
    BY <2>1, <2>2, <2>3
<1>6. PICK b : b = j - 45
  OBVIOUS
<1>7. b \in 0..3 /\ (calls[k].y * 80 + calls[k].x) + j = (calls[k + 1].y * 80 + calls[k + 1].x) + b
  BY <1>4, <1>5, <1>6
<1>8. /\ b \in 0..(Length[calls[k + 1].message] - 1) \ Hole(calls[k + 1].message)
      /\ k + 1 \in 1..made
  <2>1. Length[calls[k + 1].message] = 4 /\ Hole(calls[k + 1].message) = {}
    BY <1>5 DEF Length, Hole
  <2>. QED
    BY <2>1, <1>3, <1>5, <1>7
<1>9. Cells[(calls[k + 1].y * 80 + calls[k + 1].x) + b] = Text[calls[k + 1].message] + b
  BY <1>8, SameNames DEF Readable, Scr!Readable
<1>10. Text[calls[k + 1].message] + b # Text[calls[k].message] + j
  <2>1. Text[calls[k + 1].message] \in {1100, 1200} /\ Text[calls[k].message] \in {700, 900}
    BY <1>4, <1>5 DEF Text
  <2>. QED
    BY <2>1, <1>4, <1>7
<1>. QED
  BY <1>7, <1>9, <1>10, Zenon

\* No message of a boot runs into a message printed before it, except into the
\* brackets left for an outcome, nor over its row's end (BootLoader.asm 49-62,
\* 141-144, 157-160, EntryPoint.s 67-70, Main.c 19-38), whatever way the
\* programs take and whichever routine prints.
THEOREM ReadableHolds == Safety => []Readable
PROOF
<1>1. PrintInv /\ ScreenInv => Readable
  BY ReadableNow DEF PrintInv
<1>. QED
  BY <1>1, InitPrint, NextPrint, InitScreenInv, NextScreenInv, PTL DEF Safety

\* When all calls of a boot have returned, an outcome stands in every bracket
\* (Main.c 22-38).
THEOREM OutcomesFilledInHolds == Safety => []OutcomesFilledIn
PROOF
<1>1. PrintInv /\ ScreenInv => OutcomesFilledIn
  BY ReadableNow, OutcomesNow DEF PrintInv
<1>. QED
  BY <1>1, InitPrint, NextPrint, InitScreenInv, NextScreenInv, PTL DEF Safety
=============================================================================
