--------------------------- MODULE Kernel32Proofs ---------------------------
(***************************************************************************)
(* What holds of the 32-bit kernel for every size of RAM, every set of     *)
(* broken words and every layout LayoutAssumption allows.  Inv adds to the *)
(* properties how far each loop has come and what it has established.      *)
(***************************************************************************)
EXTENDS Kernel32, TLAPS

\* The probe stands at the first word of an MB, and the MBs before it work.
ProbeInv ==
  pc = "kIsMemoryEnough" =>
    /\ \E m \in 1..CheckEnd : pdwCurrentAddress = m * MB
    /\ \A w \in Probes : w < pdwCurrentAddress => Works(Phys(w))

\* The words before the pointer are cleared; with the gate shut the pointer
\* never gets past the word that aliases itself.
ClearInv ==
  pc = "kInitializeKernel64Area" =>
    /\ memoryRow = "Pass"
    /\ pdwCurrentAddress \in FirstWord..(AreaEnd * MB)
    /\ a20 => \A w \in FirstWord..(pdwCurrentAddress - 1) : Loaded(mem, w) = "zero"
    /\ ~a20 => pdwCurrentAddress =< MB + StackWord
    /\ ~a20 /\ pdwCurrentAddress # FirstWord => Loaded(mem, FirstWord) = "zero"

RowInv == memoryRow = "Pass" => pc \in {"kInitializeKernel64Area", "areaFailed", "done"}

Inv ==
  /\ TypeOK /\ ProbeInv /\ ClearInv /\ RowInv /\ ProbesWork
  /\ LowMemoryIntact /\ CodeNeverCleared /\ KernelAreaReady /\ NoFalseAlarm

-----------------------------------------------------------------------------
\* The bounds of the two loops, in words.
LEMMA Bounds ==
  /\ MB \in Nat /\ MB >= 3 /\ FirstWord = MB
  /\ CheckEnd * MB \in Nat /\ AreaEnd * MB \in Nat
  /\ 2 * MB =< AreaEnd * MB
  /\ AreaEnd * MB + MB =< CheckEnd * MB
<1>1. MB \in Nat /\ MB >= 3 /\ FirstWord = MB
  BY LayoutAssumption DEF FirstWord
<1>2. PICK x \in Nat : AreaEnd = 2 + x
  <2>1. AreaEnd - 2 \in Nat
    BY LayoutAssumption
  <2> QED BY <2>1, LayoutAssumption
<1>3. PICK y \in Nat : CheckEnd = AreaEnd + 1 + y
  <2>1. CheckEnd - AreaEnd - 1 \in Nat
    BY LayoutAssumption
  <2> QED BY <2>1, LayoutAssumption
<1>4. AreaEnd * MB = 2 * MB + x * MB /\ x * MB \in Nat
  BY <1>1, <1>2
<1>5. CheckEnd * MB = AreaEnd * MB + MB + y * MB /\ y * MB \in Nat
  BY <1>1, <1>3, LayoutAssumption
<1> QED BY <1>1, <1>4, <1>5

\* An address reaches a word of its own MB or of the MB below.
LEMMA PhysRange ==
  ASSUME NEW w \in Nat, w >= MB
  PROVE  /\ Phys(w) \in {w, w - MB}
         /\ Phys(w) \in Nat
         /\ a20 => Phys(w) = w
BY Bounds DEF Phys

\* In the second MB a shut gate gives the word of the first.
LEMMA PhysFirst ==
  ASSUME NEW w \in Nat, MB =< w, w < 2 * MB, ~a20
  PROVE  Phys(w) = w - MB
<1>1. w \div MB = 1
  BY Bounds
<1> QED BY <1>1 DEF Phys

\* A multiple of MB strictly between 0 and MB does not exist.
LEMMA NoMultipleInside ==
  ASSUME NEW m \in Nat, m * MB < MB
  PROVE  m * MB = 0
<1>1. CASE m = 0
  BY <1>1, Bounds
<1>2. CASE m # 0
  <2>1. PICK k \in Nat : m = k + 1
    <3>1. m - 1 \in Nat
      BY <1>2
    <3> QED BY <3>1
  <2>2. m * MB = k * MB + MB /\ k * MB \in Nat
    BY <2>1, Bounds
  <2> QED BY <2>2, Bounds
<1> QED BY <1>1, <1>2

\* A store changes at most the word it reaches, to the value stored.
LEMMA StoreFacts ==
  ASSUME TypeOK, NEW w \in Nat, w >= MB,
         NEW value \in {"pattern", "zero"}, mem' = Stored(w, value)
  PROVE  /\ mem' \in [0..(ram - 1) -> {"orig", "pattern", "zero"}]
         /\ Works(Phys(w)) => mem'[Phys(w)] = value
         /\ \A p \in 0..(ram - 1) : p # Phys(w) => mem'[p] = mem[p]
<1>1. ram \in Nat
  BY MachineAssumption DEF TypeOK
<1>2. Works(Phys(w)) => Phys(w) \in 0..(ram - 1)
  BY <1>1, PhysRange DEF Works
<1> QED BY <1>1, <1>2 DEF TypeOK, Stored

\* The pointer is a word address from 1 MB on, and RAM reaches that far.
LEMMA PointerRange ==
  ASSUME TypeOK
  PROVE  /\ pdwCurrentAddress \in Nat /\ pdwCurrentAddress >= MB
         /\ ram \in Nat /\ ram >= MB
<1>1. ram \in Nat /\ ram >= MB
  BY MachineAssumption DEF TypeOK
<1>2. PICK e \in Nat : e = CheckEnd * MB
  BY Bounds
<1>3. pdwCurrentAddress \in MB..e
  BY <1>2, Bounds DEF TypeOK
<1>4. MB \in Nat
  BY Bounds
<1> QED BY <1>1, <1>3, <1>4

LEMMA InitInv == Init => Inv
BY Bounds, MachineAssumption, LayoutAssumption
   DEF Init, Inv, TypeOK, ProbeInv, ClearInv, RowInv, ProbesWork,
       LowMemoryIntact, CodeNeverCleared, KernelAreaReady, NoFalseAlarm

-----------------------------------------------------------------------------
\* A probe is a store to the first word of an MB from 1 on: it leaves the words
\* below 1 MB alone, but for word 0 when the gate is shut.
LEMMA ProbeStep ==
  ASSUME Inv, Probe
  PROVE  Inv'
<1> DEFINE c == pdwCurrentAddress
<1> USE DEF machine
<1>1. /\ pc = "kIsMemoryEnough" /\ c < CheckEnd * MB
      /\ UNCHANGED <<a20, ram, broken, void>>
      /\ mem' = Stored(c, "pattern")
      /\ TypeOK
  BY DEF Probe, Inv
<1>2. PICK m \in 1..CheckEnd : c = m * MB
  BY <1>1 DEF Inv, ProbeInv
<1>3. /\ c \in Nat /\ c >= MB /\ ram \in Nat /\ ram >= MB
  BY <1>1, PointerRange
<1>4. /\ mem' \in [0..(ram - 1) -> {"orig", "pattern", "zero"}]
      /\ Works(Phys(c)) => mem'[Phys(c)] = "pattern"
      /\ \A p \in 0..(ram - 1) : p # Phys(c) => mem'[p] = mem[p]
  BY <1>1, <1>3, StoreFacts
<1>5. m \in 1..(CheckEnd - 1) /\ c \in Probes
  <2>1. m # CheckEnd
    BY <1>1, <1>2, Bounds
  <2> QED BY <1>2, <2>1, LayoutAssumption DEF Probes
<1>6. \A p \in 0..(MB - 1) : (a20 \/ p # 0) => mem'[p] = mem[p]
  <2> SUFFICES ASSUME NEW p \in 0..(MB - 1), a20 \/ p # 0, p = Phys(c)
               PROVE  FALSE
    BY <1>3, <1>4, Bounds
  <2>1. CASE Phys(c) = c
    BY <1>3, <2>1, Bounds
  <2>2. CASE Phys(c) = c - MB /\ ~a20
    <3>1. PICK k \in Nat : m = k + 1
      <4>1. m - 1 \in Nat
        BY <1>5
      <4> QED BY <4>1
    <3>2. c - MB = k * MB
      BY <1>2, <3>1, Bounds
    <3> QED BY <2>2, <3>1, <3>2, NoMultipleInside, Bounds
  <2> QED BY <1>3, <2>1, <2>2, PhysRange
<1>7. /\ \A w \in Nat : Phys(w)' = Phys(w)
      /\ \A p : Works(p)' = Works(p)
  BY <1>1 DEF Phys, Works
<1>8. LowMemoryIntact' /\ CodeNeverCleared'
  BY <1>1, <1>6, LayoutAssumption, Bounds DEF Inv, LowMemoryIntact, CodeNeverCleared
<1>9. CASE Loaded(mem', c) # "pattern"
  <2>1. /\ pc' = "notEnough" /\ memoryRow' = "Fail" /\ c' = c
        /\ areaRow' = "Not Enough Memory"
    BY <1>9 DEF Probe
  <2>2. ~Works(Phys(c))
    BY <1>4, <1>9 DEF Loaded
  <2>3. NoFalseAlarm'
    BY <1>5, <1>7, <2>1, <2>2, <1>3 DEF NoFalseAlarm, Probes
  <2> QED
    BY <1>1, <1>4, <1>8, <2>1, <2>3
       DEF Inv, TypeOK, ProbeInv, ClearInv, RowInv, ProbesWork, KernelAreaReady
<1>10. CASE Loaded(mem', c) = "pattern"
  <2>1. /\ c' = c + MB /\ UNCHANGED <<pc, memoryRow, areaRow>>
    BY <1>10 DEF Probe
  <2>2. Works(Phys(c))
    BY <1>1, <1>10 DEF Loaded, TypeOK
  <2>3. c' = (m + 1) * MB /\ m + 1 \in 1..CheckEnd
    <3>1. (m + 1) * MB = m * MB + MB
      BY <1>5, Bounds
    <3>2. m + 1 \in 1..CheckEnd
      BY <1>5, LayoutAssumption
    <3> QED BY <1>2, <2>1, <3>1, <3>2
  <2>4. c' \in FirstWord..(CheckEnd * MB)
    <3>1. PICK k \in Nat : CheckEnd = m + 1 + k
      <4>1. CheckEnd - (m + 1) \in Nat
        BY <2>3, LayoutAssumption
      <4> QED BY <4>1, <2>3, LayoutAssumption
    <3>2. CheckEnd * MB = (m + 1) * MB + k * MB /\ k * MB \in Nat
      BY <3>1, Bounds
    <3> QED BY <1>3, <2>1, <2>3, <3>2, Bounds
  <2>5. TypeOK'
    BY <1>1, <1>4, <2>1, <2>4 DEF TypeOK
  <2>6. ASSUME NEW w \in Probes, w < c'
        PROVE  Works(Phys(w))
    <3>1. CASE w < c
      BY <1>1, <3>1 DEF Inv, ProbeInv
    <3>2. CASE w >= c
      <4>1. PICK k \in 1..(CheckEnd - 1) : w = k * MB
        BY DEF Probes
      <4>2. k = m
        <5>1. CASE k < m
          <6>1. PICK x \in Nat : m = k + 1 + x
            <7>1. m - k - 1 \in Nat
              BY <5>1
            <7> QED BY <7>1
          <6>2. m * MB = k * MB + MB + x * MB /\ x * MB \in Nat /\ k * MB \in Nat
            BY <6>1, Bounds
          <6> QED BY <1>2, <3>2, <4>1, <6>2, Bounds
        <5>2. CASE k > m
          <6>1. PICK x \in Nat : k = m + 1 + x
            <7>1. k - m - 1 \in Nat
              BY <5>2
            <7> QED BY <7>1
          <6>2. k * MB = (m + 1) * MB + x * MB /\ x * MB \in Nat /\ (m + 1) * MB \in Nat
            BY <6>1, Bounds
          <6> QED BY <2>3, <2>6, <4>1, <6>2, Bounds
        <5> QED BY <5>1, <5>2
      <4> QED BY <1>2, <2>2, <4>1, <4>2
    <3>3. w \in Nat
      BY Bounds DEF Probes
    <3> QED BY <1>3, <3>1, <3>2, <3>3
  <2>7. ProbeInv'
    <3>1. \A w \in Probes : w \in Nat
      BY Bounds DEF Probes
    <3> QED BY <1>7, <2>3, <2>6, <3>1 DEF ProbeInv, Probes
  <2>8. RowInv' /\ ProbesWork' /\ KernelAreaReady' /\ ClearInv' /\ NoFalseAlarm'
    BY <1>1, <2>1 DEF Inv, RowInv, ProbesWork, KernelAreaReady, ClearInv, NoFalseAlarm
  <2> QED BY <1>8, <2>5, <2>7, <2>8 DEF Inv
<1> QED BY <1>9, <1>10

\* When the loop ends every probe has passed.
LEMMA ProbeEndStep ==
  ASSUME Inv, ProbeEnd
  PROVE  Inv'
<1> USE DEF machine
<1>1. \A w \in Probes : w \in Nat /\ w < CheckEnd * MB
  <2> SUFFICES ASSUME NEW m \in 1..(CheckEnd - 1)
               PROVE  m * MB \in Nat /\ m * MB < CheckEnd * MB
    BY DEF Probes
  <2>1. PICK k \in Nat : CheckEnd = m + 1 + k
    <3>1. CheckEnd - (m + 1) \in Nat
      BY LayoutAssumption
    <3> QED BY <3>1, LayoutAssumption
  <2>2. /\ CheckEnd * MB = m * MB + MB + k * MB
        /\ k * MB \in Nat /\ m * MB \in Nat
    BY <2>1, Bounds
  <2> QED BY <2>2, Bounds
<1>2. \A w \in Probes : Works(Phys(w))
  <2> SUFFICES ASSUME NEW w \in Probes PROVE w < pdwCurrentAddress
    BY DEF Inv, ProbeEnd, ProbeInv
  <2>1. PICK e \in Nat : e = CheckEnd * MB
    BY Bounds
  <2>2. w \in Nat /\ w < e /\ pdwCurrentAddress \in Nat /\ pdwCurrentAddress >= e
    BY <1>1, <2>1, PointerRange DEF Inv, ProbeEnd
  <2> QED BY <2>2
<1>3. ProbesWork'
  BY <1>2 DEF ProbeEnd, ProbesWork, Phys, Works
<1>4. FirstWord \in FirstWord..(CheckEnd * MB) /\ FirstWord \in FirstWord..(AreaEnd * MB)
  <2>1. PICK e \in Nat, a \in Nat : e = CheckEnd * MB /\ a = AreaEnd * MB
    BY Bounds
  <2>2. 2 * MB =< a /\ a + MB =< e /\ FirstWord = MB /\ MB \in Nat
    BY <2>1, Bounds
  <2> QED BY <2>1, <2>2
<1>5. TypeOK' /\ ClearInv'
  <2>1. FirstWord..(FirstWord - 1) = {}
    BY Bounds
  <2>2. FirstWord =< MB + StackWord
    BY Bounds, LayoutAssumption
  <2> QED BY <1>4, <2>1, <2>2 DEF Inv, ProbeEnd, TypeOK, ClearInv
<1>6. /\ ProbeInv' /\ RowInv' /\ LowMemoryIntact' /\ CodeNeverCleared'
      /\ KernelAreaReady' /\ NoFalseAlarm'
  BY DEF Inv, ProbeEnd, ProbeInv, RowInv, LowMemoryIntact, CodeNeverCleared,
         KernelAreaReady, NoFalseAlarm
<1> QED BY <1>3, <1>5, <1>6 DEF Inv

-----------------------------------------------------------------------------
\* Where a turn of the clearing loop stores and where the pointer is after it.
LEMMA ClearTarget ==
  ASSUME TypeOK, ClearInv, pc = "kInitializeKernel64Area"
  PROVE  /\ a20 => /\ Phys(pdwCurrentAddress) = pdwCurrentAddress
                   /\ AfterStore(pdwCurrentAddress) = pdwCurrentAddress
         /\ ~a20 => /\ Phys(pdwCurrentAddress) \in 0..StackWord
                    /\ AfterStore(pdwCurrentAddress) + 1 =< MB + StackWord
         /\ AfterStore(pdwCurrentAddress) \in {FirstWord, pdwCurrentAddress}
<1> DEFINE c == pdwCurrentAddress
<1>1. c \in Nat /\ c >= MB
  BY PointerRange
<1>2. StackWord \in Nat /\ 1 =< StackWord /\ StackWord < MB /\ FirstWord = MB /\ MB \in Nat
  BY LayoutAssumption, Bounds
<1>3. CASE a20
  <2>1. Phys(c) = c
    BY <1>1, <1>3, PhysRange
  <2> QED BY <1>1, <1>2, <1>3, <2>1 DEF AfterStore
<1>4. CASE ~a20
  <2>1. c =< MB + StackWord
    BY <1>4 DEF ClearInv
  <2>2. Phys(c) = c - MB
    BY <1>1, <1>2, <1>4, <2>1, PhysFirst
  <2> QED BY <1>1, <1>2, <1>4, <2>1, <2>2 DEF AfterStore
<1> QED BY <1>3, <1>4

LEMMA ClearStep ==
  ASSUME Inv, Clear
  PROVE  Inv'
<1> DEFINE c == pdwCurrentAddress
           w == AfterStore(c)
<1> USE DEF machine
<1>1. /\ pc = "kInitializeKernel64Area" /\ c < AreaEnd * MB
      /\ UNCHANGED <<a20, ram, broken, void, memoryRow>>
      /\ mem' = Stored(c, "zero")
      /\ TypeOK /\ ClearInv /\ ProbesWork
      /\ c \in FirstWord..(AreaEnd * MB)
  BY DEF Clear, Inv, ClearInv
<1>2. c \in Nat /\ c >= MB /\ ram \in Nat /\ ram >= MB
  BY <1>1, PointerRange
<1>3. /\ mem' \in [0..(ram - 1) -> {"orig", "pattern", "zero"}]
      /\ \A p \in 0..(ram - 1) : p # Phys(c) => mem'[p] = mem[p]
      /\ Works(Phys(c)) => mem'[Phys(c)] = "zero"
  BY <1>1, <1>2, StoreFacts
<1>4. /\ a20 => Phys(c) = c /\ w = c
      /\ ~a20 => Phys(c) \in 0..StackWord /\ w + 1 =< MB + StackWord
      /\ w \in {FirstWord, c}
  BY <1>1, ClearTarget
<1>5. /\ \A v : Phys(v)' = Phys(v)
      /\ \A p : Works(p)' = Works(p)
  BY <1>1 DEF Phys, Works
<1>6. LowMemoryIntact'
  <2> SUFFICES ASSUME a20, NEW p \in 0..(MB - 1) PROVE mem'[p] = "orig"
    BY <1>1 DEF LowMemoryIntact
  <2>1. p \in 0..(ram - 1) /\ p # Phys(c)
    BY <1>2, <1>4, Bounds
  <2> QED BY <1>3, <2>1 DEF Inv, LowMemoryIntact
<1>7. CodeNeverCleared'
  <2> SUFFICES ASSUME NEW p \in CodeWord..(MB - 1) PROVE mem'[p] = "orig"
    BY DEF CodeNeverCleared
  <2>1. p \in 0..(ram - 1) /\ p # Phys(c)
    BY <1>2, <1>4, Bounds, LayoutAssumption
  <2> QED BY <1>3, <2>1 DEF Inv, CodeNeverCleared
<1>8. ProbesWork'
  BY <1>1, <1>5 DEF ProbesWork
<1>9. /\ w \in FirstWord..(AreaEnd * MB) /\ w + 1 \in FirstWord..(AreaEnd * MB)
      /\ w \in FirstWord..(CheckEnd * MB) /\ w + 1 \in FirstWord..(CheckEnd * MB)
  <2>1. PICK e \in Nat, a \in Nat : e = CheckEnd * MB /\ a = AreaEnd * MB
    BY Bounds
  <2>2. 2 * MB =< a /\ a + MB =< e /\ FirstWord = MB /\ MB \in Nat /\ MB >= 3
    BY <2>1, Bounds
  <2>3. c < a
    BY <1>1, <2>1
  <2>4. w \in Nat /\ w >= MB /\ w < a
    BY <1>2, <1>4, <2>2, <2>3
  <2> HIDE DEF w, c
  <2> QED BY <2>1, <2>2, <2>4
<1>10. Works(Phys(c)) => Loaded(mem', c) = "zero"
  BY <1>3 DEF Loaded
<1>11. ~a20 /\ c # FirstWord => Loaded(mem', FirstWord) = "zero"
  <2> SUFFICES ASSUME ~a20, c # FirstWord PROVE Loaded(mem', FirstWord) = "zero"
    OBVIOUS
  <2>1. Loaded(mem, FirstWord) = "zero"
    BY <1>1 DEF ClearInv
  <2>2. Works(Phys(FirstWord)) => Phys(FirstWord) \in 0..(ram - 1)
    BY <1>2, PhysRange, Bounds DEF Works
  <2>3. CASE Phys(FirstWord) = Phys(c)
    BY <1>3, <2>1, <2>3 DEF Loaded
  <2>4. CASE Phys(FirstWord) # Phys(c)
    BY <1>3, <2>1, <2>2, <2>4 DEF Loaded
  <2> QED BY <2>3, <2>4
<1>12. CASE Loaded(mem', w) # "zero"
  <2>1. areaRow' = "Fail" /\ pc' = "areaFailed" /\ c' = w
    BY <1>12 DEF Clear
  <2>2. TypeOK'
    BY <1>1, <1>3, <1>9, <2>1 DEF TypeOK
  <2>3. w = c /\ ~Works(Phys(c))
    <3>1. w = c
      BY <1>4, <1>11, <1>12
    <3> HIDE DEF w
    <3> QED BY <1>10, <1>12, <3>1
  <2>4. c \in AreaWord
    <3>1. PICK a \in Nat : a = AreaEnd * MB
      BY Bounds
    <3>2. c \in MB..(a - 1)
      BY <1>1, <1>2, <3>1, Bounds
    <3> QED BY <3>1, <3>2, Bounds DEF AreaWord
  <2>5. NoFalseAlarm'
    BY <1>5, <2>1, <2>3, <2>4 DEF NoFalseAlarm, AreaWord, FirstWord
  <2> QED
    BY <1>6, <1>7, <1>8, <2>1, <2>2, <2>5
       DEF Inv, ProbeInv, ClearInv, RowInv, KernelAreaReady
<1>13. CASE Loaded(mem', w) = "zero"
  <2>1. c' = w + 1 /\ UNCHANGED <<pc, areaRow>>
    BY <1>13 DEF Clear
  <2>2. TypeOK'
    BY <1>1, <1>3, <1>9, <2>1 DEF TypeOK
  <2>3. ASSUME a20, NEW v \in FirstWord..(c' - 1)
        PROVE  Loaded(mem', v) = "zero"
    <3>1. v \in Nat /\ v >= MB /\ v =< c
      BY <1>2, <1>4, <2>1, <2>3, Bounds
    <3>2. Phys(v) = v
      BY <2>3, <3>1, PhysRange
    <3>3. CASE v = c
      BY <1>4, <1>13, <2>3, <3>3
    <3>4. CASE v # c
      <4>1. Loaded(mem, v) = "zero"
        <5>1. v \in FirstWord..(c - 1)
          BY <1>2, <3>1, <3>4, Bounds
        <5> QED BY <1>1, <2>3, <5>1 DEF ClearInv
      <4>2. Works(v) => mem'[v] = mem[v]
        BY <1>2, <1>3, <1>4, <2>3, <3>1, <3>4 DEF Works
      <4> QED BY <3>2, <4>1, <4>2 DEF Loaded
    <3> QED BY <3>3, <3>4
  <2>4. ClearInv'
    <3>1. ASSUME NEW v PROVE Loaded(mem, v)' = Loaded(mem', v)
      BY <1>1 DEF Loaded, Phys, Works
    <3>2. ~a20 => c' =< MB + StackWord
      BY <1>4, <2>1
    <3>3. ~a20 => Loaded(mem', FirstWord) = "zero"
      <4>1. CASE c = FirstWord
        BY <1>4, <1>13, <4>1
      <4> QED BY <1>11, <4>1
    <3> QED BY <1>1, <1>9, <2>1, <2>3, <3>1, <3>2, <3>3 DEF ClearInv, FirstWord
  <2> QED
    BY <1>1, <1>6, <1>7, <1>8, <2>1, <2>2, <2>4
       DEF Inv, ProbeInv, RowInv, KernelAreaReady, NoFalseAlarm
<1> QED BY <1>12, <1>13

\* Only an open gate lets the loop end, and then the whole area is cleared; it
\* lies below a word that was probed, hence within RAM.
LEMMA ClearEndStep ==
  ASSUME Inv, ClearEnd
  PROVE  Inv'
<1> USE DEF machine
<1>1. PICK e \in Nat, a \in Nat : e = CheckEnd * MB /\ a = AreaEnd * MB
  BY Bounds
<1>2. 2 * MB =< a /\ a + MB =< e /\ FirstWord = MB /\ MB \in Nat /\ MB >= 3
  BY <1>1, Bounds
<1>3. /\ pc = "kInitializeKernel64Area" /\ pdwCurrentAddress >= a
      /\ TypeOK /\ ClearInv /\ ProbesWork /\ memoryRow = "Pass"
  BY <1>1 DEF Inv, ClearEnd, ClearInv
<1>4. pdwCurrentAddress \in Nat /\ ram \in Nat
  BY <1>3, PointerRange
<1>5. a20
  BY <1>2, <1>3, <1>4, LayoutAssumption DEF ClearInv
<1>6. e - MB \in Probes /\ a =< e - MB
  <2>1. e - MB = (CheckEnd - 1) * MB
    BY <1>1, Bounds, LayoutAssumption
  <2> QED BY <1>2, <2>1, LayoutAssumption DEF Probes
<1>7. e - MB < ram
  <2>1. Works(Phys(e - MB))
    BY <1>3, <1>6 DEF ProbesWork
  <2>2. Phys(e - MB) = e - MB
    BY <1>5 DEF Phys
  <2> QED BY <2>1, <2>2 DEF Works
<1>8. \A w \in AreaWord : w < ram /\ Loaded(mem, w) = "zero"
  <2> SUFFICES ASSUME NEW w \in MB..(a - 1)
               PROVE  w < ram /\ Loaded(mem, w) = "zero"
    BY <1>1, <1>2 DEF AreaWord
  <2>1. w < ram
    BY <1>2, <1>4, <1>6, <1>7
  <2>2. w \in FirstWord..(pdwCurrentAddress - 1)
    BY <1>2, <1>3, <1>4
  <2> QED BY <1>3, <1>5, <2>1, <2>2 DEF ClearInv
<1>9. KernelAreaReady'
  BY <1>5, <1>8 DEF ClearEnd, KernelAreaReady, AreaWord, FirstWord, Loaded, Phys, Works
<1>10. TypeOK' /\ ProbesWork'
  BY DEF Inv, ClearEnd, TypeOK, ProbesWork, Phys, Works
<1> QED
  BY <1>3, <1>9, <1>10
     DEF Inv, ClearEnd, ProbeInv, ClearInv, RowInv, LowMemoryIntact,
         CodeNeverCleared, NoFalseAlarm

LEMMA MainStep ==
  ASSUME Inv, Main
  PROVE  Inv'
<1> USE DEF machine
<1>1. FirstWord \in FirstWord..(CheckEnd * MB)
  <2>1. PICK e \in Nat, a \in Nat : e = CheckEnd * MB /\ a = AreaEnd * MB
    BY Bounds
  <2>2. 2 * MB =< a /\ a + MB =< e /\ FirstWord = MB /\ MB \in Nat
    BY <2>1, Bounds
  <2> QED BY <2>1, <2>2
<1>2. ProbeInv'
  <2>1. 1 \in 1..CheckEnd /\ FirstWord = 1 * MB
    BY LayoutAssumption, Bounds
  <2>2. \A w \in Probes : ~(w < FirstWord)
    <3> SUFFICES ASSUME NEW m \in 1..(CheckEnd - 1) PROVE ~(m * MB < MB)
      BY Bounds DEF Probes
    <3>1. PICK k \in Nat : m = k + 1
      <4>1. m - 1 \in Nat
        OBVIOUS
      <4> QED BY <4>1
    <3>2. m * MB = k * MB + MB /\ k * MB \in Nat
      BY <3>1, Bounds
    <3> QED BY <3>2, Bounds
  <2> QED BY <2>1, <2>2 DEF Main, ProbeInv, Probes
<1> QED
  BY <1>1, <1>2
     DEF Inv, Main, TypeOK, ClearInv, RowInv, ProbesWork, LowMemoryIntact,
         CodeNeverCleared, KernelAreaReady, NoFalseAlarm

LEMMA NextInv == Inv /\ [Next]_vars => Inv'
<1>1. ASSUME Inv, UNCHANGED vars PROVE Inv'
  BY <1>1
     DEF Inv, vars, machine, TypeOK, ProbeInv, ClearInv, RowInv, ProbesWork,
         LowMemoryIntact, CodeNeverCleared, KernelAreaReady, NoFalseAlarm,
         Loaded, Phys, Works
<1> QED BY <1>1, MainStep, ProbeStep, ProbeEndStep, ClearStep, ClearEndStep DEF Next

\* The pointer stays between 1 MB and the end of the check on every machine.
THEOREM TypeCorrect == Spec => []TypeOK
<1>1. Inv => TypeOK
  BY DEF Inv
<1> QED BY <1>1, InitInv, NextInv, PTL DEF Spec

\* With the gate open nothing below 1 MB is ever written.
THEOREM LowMemoryIntactHolds == Spec => []LowMemoryIntact
<1>1. Inv => LowMemoryIntact
  BY DEF Inv
<1> QED BY <1>1, InitInv, NextInv, PTL DEF Spec

\* Even with the gate shut the kernel's code is not cleared.
THEOREM CodeNeverClearedHolds == Spec => []CodeNeverCleared
<1>1. Inv => CodeNeverCleared
  BY DEF Inv
<1> QED BY <1>1, InitInv, NextInv, PTL DEF Spec

\* "Pass" in row 5 means a cleared area within RAM, through an open gate.
THEOREM KernelAreaReadyHolds == Spec => []KernelAreaReady
<1>1. Inv => KernelAreaReady
  BY DEF Inv
<1> QED BY <1>1, InitInv, NextInv, PTL DEF Spec

\* "Pass" in row 4 means that every probed word keeps what is written.
THEOREM ProbesWorkHolds == Spec => []ProbesWork
<1>1. Inv => ProbesWork
  BY DEF Inv
<1> QED BY <1>1, InitInv, NextInv, PTL DEF Spec

\* "Fail" is never a false alarm, in either row and with the gate in either
\* position.
THEOREM NoFalseAlarmHolds == Spec => []NoFalseAlarm
<1>1. Inv => NoFalseAlarm
  BY DEF Inv
<1> QED BY <1>1, InitInv, NextInv, PTL DEF Spec
=============================================================================
