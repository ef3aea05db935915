--------------------------- MODULE VirtualOSProofs ---------------------------
(***************************************************************************)
(* The screen of VirtualOS is a true verdict for images of any length, any *)
(* number of digits, any track length and any medium.  LoaderInv is the    *)
(* loop invariant of the loader in C; Course says how far a right or wrong *)
(* image has run: straight so far, past a gap, or round in a loop.         *)
(***************************************************************************)
EXTENDS VirtualOS, TLAPS

T == TotalSectorCount

\* the disks the test is meant to tell apart
OneFault == Disks \subseteq {RightImage} \cup WrongImages

Loaded(k) ==
  /\ AddressOf(k) \in DOMAIN memory
  /\ memory[AddressOf(k)] = <<disk, k + 1>>

\* The counters name the next sector of the disk, the pointer its place, and
\* every sector counted is in its place.
LoaderInv ==
  /\ pc \in {"while", "HandleDiskError", "return"}
  /\ disk \in Disks
  /\ iTotalSectorCount \in 0..T
  /\ iSectorNumber \in 1..SectorsPerTrack
  /\ iHeadNumber \in 0..1
  /\ iTrackNumber \in Nat
  /\ pc = "while" =>
       /\ Lba(iSectorNumber, iHeadNumber, iTrackNumber) = Copied + 1
       /\ pcTargetAddress = AddressOf(Copied)
  /\ pc # "HandleDiskError" => \A k \in 0..(Copied - 1) : Loaded(k)
  /\ pc = "return" => iTotalSectorCount = 0

RightBefore(p) == \A r \in Places : r < p => disk[r] = r + 1
RightFrom(p)   == \A r \in Places : r >= p => disk[r] = r + 1

\* every place up to here has shown its digit
Straight ==
  /\ RightBefore(place)
  /\ sectorCount = place
  /\ screen = [n \in 0..(place - 1) |-> (n + 1) % Digits]

\* a place was passed over, so that digits will be missing
Gap ==
  /\ disk # RightImage
  /\ RightFrom(place)
  /\ sectorCount \in 0..(place - 1)
  /\ DOMAIN screen = 0..(sectorCount - 1)

\* control goes back to where it has been, over and over
Loop ==
  \E p \in Places :
    /\ place =< p /\ RightBefore(p)
    /\ disk[p] \in 1..p

Course ==
  /\ stage \in {"loader", "running", "halted", "lost"}
  /\ stage = "loader" => place = 0 /\ sectorCount = 0 /\ screen = [n \in {} |-> n]
  /\ stage # "loader" => pc = "return"
  /\ stage = "running" => place \in Places /\ (Straight \/ Gap \/ Loop)

VInv == LoaderInv /\ Course /\ VerdictTrue

-----------------------------------------------------------------------------
LEMMA Sizes ==
  /\ T \in Nat \ {0} /\ Digits \in Nat \ {0}
  /\ SectorsPerTrack \in Nat /\ SectorsPerTrack >= 2
  /\ Places = 0..(T - 1)
BY LoaderAssumption, VirtualAssumption DEF T, Places

\* Advancing by a sector moves to the next sector of the disk.
LEMMA AdvanceIsSuccessor ==
  ASSUME LoaderInv, AdvanceSector
  PROVE  /\ iSectorNumber' \in 1..SectorsPerTrack
         /\ iHeadNumber' \in 0..1
         /\ iTrackNumber' \in Nat
         /\ Lba(iSectorNumber', iHeadNumber', iTrackNumber')
              = Lba(iSectorNumber, iHeadNumber, iTrackNumber) + 1
<1> DEFINE n == SectorsPerTrack
           t == iTrackNumber
<1>1. n \in Nat /\ n >= 2 /\ t \in Nat /\ iHeadNumber \in 0..1 /\ iSectorNumber \in 1..n
  BY Sizes DEF LoaderInv
<1>2. CASE iSectorNumber + 1 < n + 1
  <2>1. /\ iSectorNumber' = iSectorNumber + 1 /\ iSectorNumber' \in 1..n
        /\ iHeadNumber' = iHeadNumber /\ iTrackNumber' = t
    BY <1>1, <1>2 DEF AdvanceSector
  <2>2. PICK m \in Nat : m = (2 * t + iHeadNumber) * n
    BY <1>1
  <2>3. m + (iSectorNumber + 1 - 1) = m + (iSectorNumber - 1) + 1
    BY <1>1, <2>2
  <2> QED BY <1>1, <2>1, <2>2, <2>3 DEF Lba
<1>3. CASE iSectorNumber = n /\ iHeadNumber = 0
  <2>1. iSectorNumber' = 1 /\ iHeadNumber' = 1 /\ iTrackNumber' = t
    BY <1>1, <1>3 DEF AdvanceSector, XorOne, NextTrack
  <2>2. (2 * t + 1) * n = (2 * t + 0) * n + n
    BY <1>1
  <2>3. (2 * t + 0) * n \in Nat
    BY <1>1
  <2> QED BY <1>1, <1>3, <2>1, <2>2, <2>3 DEF Lba
<1>4. CASE iSectorNumber = n /\ iHeadNumber = 1
  <2>1. iSectorNumber' = 1 /\ iHeadNumber' = 0 /\ iTrackNumber' = t + 1
    BY <1>1, <1>4 DEF AdvanceSector, XorOne, NextTrack
  <2>2. (2 * (t + 1) + 0) * n = (2 * t + 1) * n + n
    BY <1>1
  <2>3. (2 * t + 1) * n \in Nat
    BY <1>1
  <2> QED BY <1>1, <1>4, <2>1, <2>2, <2>3 DEF Lba
<1>5. \/ iSectorNumber + 1 < n + 1
      \/ iSectorNumber = n /\ iHeadNumber = 0
      \/ iSectorNumber = n /\ iHeadNumber = 1
  BY <1>1
<1> QED BY <1>2, <1>3, <1>4, <1>5

\* No two places have the same address.
LEMMA AddressInjective ==
  ASSUME NEW j \in Nat, NEW k \in Nat, AddressOf(j) = AddressOf(k)
  PROVE  j = k
BY DEF AddressOf, LoadBase, SectorBytes

LEMMA InitLoaderInv == Init => LoaderInv
<1> SUFFICES ASSUME Init PROVE LoaderInv
  OBVIOUS
<1>1. Copied = 0
  BY Sizes DEF Init, Copied, T
<1>2. Lba(2, 0, 0) = 1
  BY Sizes DEF Lba
<1>3. AddressOf(0) = LoadBase
  BY DEF AddressOf, LoadBase, SectorBytes
<1> QED BY <1>1, <1>2, <1>3, Sizes DEF Init, LoaderInv, T

\* A read that succeeds puts the next sector into its place.
LEMMA ReadStep ==
  ASSUME LoaderInv, ReadOneSector
  PROVE  /\ Copied \in 0..(T - 1) /\ Copied' = Copied + 1
         /\ memory' = Store(memory, AddressOf(Copied), <<disk, Copied + 1>>)
<1>1. iTotalSectorCount \in 1..T /\ iTotalSectorCount' = iTotalSectorCount - 1
  BY Sizes DEF LoaderInv, ReadOneSector
<1>2. Copied \in 0..(T - 1) /\ Copied' = Copied + 1
  BY <1>1, Sizes DEF Copied, T
<1> QED BY <1>2 DEF LoaderInv, ReadOneSector

LEMMA ReadLoaderInv == ASSUME LoaderInv, ReadOneSector PROVE LoaderInv'
<1> DEFINE c == Copied
<1>1. /\ c \in 0..(T - 1) /\ Copied' = c + 1 /\ T \in Nat
      /\ memory' = Store(memory, AddressOf(c), <<disk, c + 1>>)
  BY ReadStep, Sizes
<1>2. /\ pc = "while" /\ pc' = pc /\ disk' = disk /\ iTotalSectorCount' \in 0..T
  BY Sizes DEF ReadOneSector, LoaderInv
<1>3. /\ iSectorNumber' \in 1..SectorsPerTrack
      /\ iHeadNumber' \in 0..1
      /\ iTrackNumber' \in Nat
      /\ Lba(iSectorNumber', iHeadNumber', iTrackNumber') = c + 2
  BY <1>1, <1>2, AdvanceIsSuccessor DEF ReadOneSector, LoaderInv
<1>4. pcTargetAddress' = AddressOf(c + 1)
  <2>1. pcTargetAddress' = AddressOf(c) + SectorBytes
    BY <1>2 DEF LoaderInv, ReadOneSector
  <2>2. AddressOf(c) + SectorBytes = AddressOf(c + 1)
    BY <1>1 DEF AddressOf, LoadBase, SectorBytes
  <2> QED BY <2>1, <2>2
<1>5. ASSUME NEW k \in 0..c
      PROVE  /\ AddressOf(k) \in DOMAIN memory'
             /\ memory'[AddressOf(k)] = <<disk, k + 1>>
  <2>1. CASE k = c
    BY <1>1, <2>1 DEF Store
  <2>2. CASE k # c
    <3>1. k \in 0..(Copied - 1)
      BY <1>1, <2>2
    <3>2. Loaded(k)
      BY <1>2, <3>1 DEF LoaderInv
    <3>3. AddressOf(k) # AddressOf(c)
      BY <1>1, <2>2, AddressInjective
    <3> QED BY <1>1, <3>2, <3>3 DEF Store, Loaded
  <2> QED BY <2>1, <2>2
<1>6. \A k \in 0..(Copied' - 1) : Loaded(k)'
  <2>1. 0..(Copied' - 1) = 0..c
    BY <1>1
  <2> SUFFICES ASSUME NEW k \in 0..(Copied' - 1) PROVE Loaded(k)'
    OBVIOUS
  <2>2. k \in 0..c
    BY <2>1
  <2>3. /\ AddressOf(k) \in DOMAIN memory'
        /\ memory'[AddressOf(k)] = <<disk, k + 1>>
    BY <1>5, <2>2
  <2> QED BY <1>2, <2>3 DEF Loaded, AddressOf, LoadBase, SectorBytes
<1> QED
  <2>1. Lba(iSectorNumber, iHeadNumber, iTrackNumber)' = Copied' + 1
    BY <1>1, <1>3 DEF Lba
  <2>2. pcTargetAddress' = AddressOf(Copied')
    BY <1>1, <1>4
  <2> QED BY <1>2, <1>3, <1>6, <2>1, <2>2 DEF LoaderInv, AddressOf

LEMMA NextLoaderInv == LoaderInv /\ [Next]_vars => LoaderInv'
<1> SUFFICES ASSUME LoaderInv, [Next]_vars PROVE LoaderInv'
  OBVIOUS
<1>1. CASE ReadOneSector
  BY <1>1, ReadLoaderInv
<1>2. CASE HandleDiskError
  BY <1>2, Sizes DEF HandleDiskError, LoaderInv, Copied, Loaded
<1>3. CASE Break
  <2>1. Copied' = Copied
    BY <1>3 DEF Break, counters, Copied
  <2> QED BY <1>3, <2>1 DEF Break, counters, LoaderInv, Loaded, LastCount
<1>4. CASE UNCHANGED vars
  BY <1>4 DEF vars, counters, LoaderInv, Loaded, Copied, Lba
<1> QED BY <1>1, <1>2, <1>3, <1>4 DEF Next

-----------------------------------------------------------------------------
\* What one fault can be, seen from the first place that is wrong: everything
\* is right again where control goes on, unless it goes back.
LEMMA FirstFault ==
  ASSUME OneFault, disk \in Disks, NEW q \in Places, RightBefore(q), disk[q] # q + 1
  PROVE  /\ disk[q] \in 0..T
         /\ disk[q] = 0 => RightFrom(q + 1)
         /\ disk[q] > q + 1 => RightFrom(disk[q])
<1>1. T \in Nat /\ Places = 0..(T - 1) /\ q \in 0..(T - 1)
  BY Sizes
<1>2. RightImage[q] = q + 1 /\ \A r \in Places : RightImage[r] = r + 1
  BY DEF RightImage
<1>3. CASE \E p \in Places \ {0}, i \in 0..T : disk = [RightImage EXCEPT ![p] = i]
  <2>1. PICK p \in Places \ {0}, i \in 0..T : disk = [RightImage EXCEPT ![p] = i]
    BY <1>3
  <2>2. disk[p] = i /\ \A r \in Places : r # p => disk[r] = r + 1
    BY <1>2, <2>1 DEF RightImage
  <2>3. q = p
    BY <2>2
  <2> QED BY <1>1, <2>2, <2>3 DEF RightFrom
<1>4. CASE \E a, b \in Places \ {0} :
             disk = [RightImage EXCEPT ![a] = b + 1, ![b] = a + 1]
  <2>1. PICK a, b \in Places \ {0} :
          disk = [RightImage EXCEPT ![a] = b + 1, ![b] = a + 1]
    BY <1>4
  <2>2. /\ disk[b] = a + 1
        /\ a # b => disk[a] = b + 1
        /\ \A r \in Places : r \notin {a, b} => disk[r] = r + 1
    BY <1>2, <2>1 DEF RightImage
  <2>3. q \in {a, b} /\ a # b
    BY <2>2
  <2>4. CASE q = a
    <3>1. a =< b
      <4> SUFFICES ASSUME ~(a =< b) PROVE FALSE
        OBVIOUS
      <4>1. b < q /\ b \in Places
        BY <1>1, <2>4
      <4>2. disk[b] = b + 1
        BY <4>1 DEF RightBefore
      <4> QED BY <1>1, <2>2, <2>3, <4>2
    <3> QED BY <1>1, <2>2, <2>3, <2>4, <3>1 DEF RightFrom
  <2>5. CASE q = b
    <3>1. b =< a
      <4> SUFFICES ASSUME ~(b =< a) PROVE FALSE
        OBVIOUS
      <4>1. a < q /\ a \in Places
        BY <1>1, <2>5
      <4>2. disk[a] = a + 1
        BY <4>1 DEF RightBefore
      <4> QED BY <1>1, <2>2, <2>3, <4>2
    <3> QED BY <1>1, <2>2, <2>3, <2>5, <3>1 DEF RightFrom
  <2> QED BY <2>3, <2>4, <2>5
<1>5. disk # RightImage
  BY <1>2
<1> QED BY <1>3, <1>4, <1>5 DEF OneFault, WrongImages, T

\* The image in memory is the one on the disk.
LEMMA SectorAtPlace ==
  ASSUME LoaderInv, pc = "return", NEW p \in Places
  PROVE  SectorAt(p) = disk[p]
<1>1. p \in 0..(Copied - 1) /\ p \in Nat
  BY Sizes DEF LoaderInv, Copied, T
<1>2. Loaded(p)
  BY <1>1 DEF LoaderInv
<1>3. memory[AddressOf(p)][1] = disk /\ memory[AddressOf(p)][2] - 1 = p
  BY <1>1, <1>2 DEF Loaded
<1> QED BY <1>2, <1>3 DEF SectorAt, Loaded

LEMMA DiskTyped ==
  ASSUME OneFault, disk \in Disks
  PROVE  disk \in [Places -> 0..T] /\ disk[0] = 1
<1>1. RightImage \in [Places -> 0..T] /\ RightImage[0] = 1 /\ 0 \in Places
  BY Sizes DEF RightImage
<1>2. \A p \in Places : p + 1 \in 0..T
  BY Sizes
<1>3. CASE disk = RightImage
  BY <1>1, <1>3
<1>4. CASE disk \in WrongImages
  BY <1>1, <1>2, <1>4 DEF WrongImages, T
<1> QED BY <1>3, <1>4 DEF OneFault

\* A count below the image's length has not wrapped, and has a position of its
\* own on the screen.
LEMMA PositionFacts ==
  ASSUME NEW n \in 0..(T - 1)
  PROVE  Position(n) = n /\ (n + 1) % WordSize = n + 1
<1>1. /\ T \in Nat \ {0} /\ n \in Nat /\ n < T
      /\ WordSize \in Nat /\ WordSize > 2 * T
  BY VirtualAssumption, Sizes DEF T
<1>2. PICK h \in Nat : h = WordSize \div 2
  BY <1>1
<1>3. h >= T
  BY <1>1, <1>2
<1>4. n % h = n
  BY <1>1, <1>3
<1>5. (n + 1) % WordSize = n + 1
  BY <1>1
<1> QED BY <1>2, <1>4, <1>5 DEF Position

\* A digit at the place after the last adds one to the count and the screen.
LEMMA ShowFacts ==
  ASSUME NEW d, NEW c \in 0..(T - 1), sectorCount = c,
         DOMAIN screen = 0..(c - 1), Show(d)
  PROVE  /\ sectorCount' = c + 1
         /\ screen' = [m \in 0..c |-> IF m = c THEN d ELSE screen[m]]
<1>1. Position(c) = c /\ (c + 1) % WordSize = c + 1
  BY PositionFacts
<1>2. c \in Nat /\ 0..(c - 1) \cup {c} = 0..c
  BY Sizes
<1> QED BY <1>1, <1>2 DEF Show

-----------------------------------------------------------------------------
\* the situation in which a sector of the image runs
Running == VInv /\ OneFault /\ stage = "running"

LEMMA RunningFacts ==
  ASSUME Running
  PROVE  /\ pc = "return" /\ disk \in [Places -> 0..T] /\ disk[0] = 1
         /\ place \in 0..(T - 1) /\ Places = 0..(T - 1) /\ T \in Nat \ {0}
         /\ SectorAt(place) = disk[place] /\ disk[place] \in 0..T
         /\ Straight \/ Gap \/ Loop
<1>1. pc = "return" /\ disk \in Disks /\ place \in Places /\ (Straight \/ Gap \/ Loop)
  BY DEF Running, VInv, Course, LoaderInv
<1>2. SectorAt(place) = disk[place]
  BY <1>1, SectorAtPlace DEF Running, VInv
<1> QED BY <1>1, <1>2, DiskTyped, Sizes DEF Running

\* Where a straight run comes to a wrong sector it leaves a gap or goes back.
LEMMA StraightRun ==
  ASSUME Running, RunSector, Straight
  PROVE  Course' /\ VerdictTrue'
<1> DEFINE q == place
           i == disk[q]
           d == i % Digits
<1>1. /\ pc = "return" /\ disk \in [Places -> 0..T] /\ q \in 0..(T - 1)
      /\ Places = 0..(T - 1) /\ T \in Nat \ {0} /\ SectorAt(q) = i /\ i \in 0..T
  BY RunningFacts
<1>2. /\ pc' = pc /\ disk' = disk /\ i # 0 /\ Show(d)
      /\ \/ i = T /\ stage' = "halted" /\ place' = q
         \/ i # T /\ GoTo(i)
  BY <1>1 DEF RunSector, vars, IsLast, NextPlace, T
<1>3. /\ sectorCount' = q + 1
      /\ screen' = [m \in 0..q |-> IF m = q THEN d ELSE (m + 1) % Digits]
  <2>1. DOMAIN screen = 0..(q - 1) /\ sectorCount = q
    BY DEF Straight
  <2>2. /\ sectorCount' = q + 1
        /\ screen' = [m \in 0..q |-> IF m = q THEN d ELSE screen[m]]
    BY <1>1, <1>2, <2>1, ShowFacts
  <2>3. \A m \in 0..q : m # q => screen[m] = (m + 1) % Digits
    BY <1>1 DEF Straight
  <2> QED BY <2>2, <2>3
<1>4. RightBefore(q) /\ \A r \in Places : r < q => disk'[r] = r + 1
  BY <1>2 DEF Straight, RightBefore
<1>5. CASE i = q + 1
  <2>1. screen' = [m \in 0..q |-> (m + 1) % Digits]
    BY <1>3, <1>5
  <2>2. \A r \in Places : r < q + 1 => disk[r] = r + 1
    BY <1>1, <1>4, <1>5 DEF RightBefore
  <2>3. CASE i = T
    <3>1. q = T - 1
      BY <1>1, <1>5, <2>3
    <3>2. \A r \in Places : disk[r] = r + 1
      BY <1>1, <2>2, <3>1
    <3>3. disk = RightImage
      BY <1>1, <3>2 DEF RightImage
    <3>4. screen' = FullScreen
      BY <1>1, <2>1, <3>1 DEF FullScreen
    <3> QED BY <1>1, <1>2, <2>3, <3>3, <3>4 DEF Course, VerdictTrue, FullScreen
  <2>4. CASE i # T
    <3>1. place' = q + 1 /\ q + 1 \in Places /\ stage' = "running"
      BY <1>1, <1>2, <1>5, <2>4 DEF GoTo
    <3>2. 0..(place' - 1) = 0..q
      BY <1>1, <3>1
    <3>3. Straight'
      BY <1>2, <1>3, <2>1, <2>2, <3>1, <3>2 DEF Straight, RightBefore
    <3> QED BY <1>1, <1>2, <3>1, <3>3 DEF Course, VerdictTrue
  <2> QED BY <2>3, <2>4
<1>6. CASE i > q + 1
  <2>1. disk # RightImage
    BY <1>1, <1>6 DEF RightImage
  <2>2. RightFrom(i)
    BY <1>1, <1>4, <1>6, FirstFault DEF Running, VInv, LoaderInv
  <2>3. DOMAIN screen' = 0..(sectorCount' - 1)
    BY <1>1, <1>3
  <2>4. CASE i = T
    <3>1. DOMAIN screen' # Places
      <4>1. T - 1 \in Places /\ T - 1 \notin 0..q
        BY <1>1, <1>6, <2>4
      <4> QED BY <1>3, <4>1
    <3> QED BY <1>1, <1>2, <2>1, <2>4, <3>1 DEF Course, VerdictTrue, FullScreen
  <2>5. CASE i # T
    <3>1. place' = i /\ i \in Places /\ stage' = "running"
      BY <1>1, <1>2, <2>5 DEF GoTo
    <3>2. sectorCount' \in 0..(place' - 1)
      BY <1>1, <1>3, <1>6, <3>1
    <3>3. Gap'
      BY <1>2, <2>1, <2>2, <2>3, <3>1, <3>2 DEF Gap, RightFrom
    <3> QED BY <1>1, <1>2, <3>1, <3>3 DEF Course, VerdictTrue
  <2> QED BY <2>4, <2>5
<1>7. CASE i =< q
  <2>1. place' = i /\ i \in Places /\ stage' = "running"
    BY <1>1, <1>2, <1>7 DEF GoTo
  <2>2. i \in 1..q
    BY <1>1, <1>2, <1>7
  <2>3. Loop'
    <3>1. place' =< q
      BY <1>7, <2>1
    <3> QED BY <1>1, <1>2, <1>4, <2>2, <3>1 DEF Loop, RightBefore
  <2> QED BY <1>1, <1>2, <2>1, <2>3 DEF Course, VerdictTrue
<1>8. i = q + 1 \/ i > q + 1 \/ i =< q
  BY <1>1
<1> QED BY <1>5, <1>6, <1>7, <1>8

\* After a gap the run goes on to the last place, one digit short or more.
LEMMA GapRun ==
  ASSUME Running, RunSector, Gap
  PROVE  Course' /\ VerdictTrue'
<1> DEFINE q == place
           c == sectorCount
<1>1. /\ pc = "return" /\ q \in 0..(T - 1) /\ disk[q] = q + 1
      /\ Places = 0..(T - 1) /\ T \in Nat \ {0} /\ SectorAt(q) = q + 1
  BY RunningFacts DEF Gap, RightFrom
<1>2. /\ pc' = pc /\ disk' = disk /\ Show((q + 1) % Digits)
      /\ \/ q + 1 = T /\ stage' = "halted" /\ place' = q
         \/ q + 1 # T /\ GoTo(q + 1)
  BY <1>1 DEF RunSector, vars, IsLast, NextPlace, T
<1>3. sectorCount' = c + 1 /\ DOMAIN screen' = 0..c /\ c \in 0..(q - 1)
  <2>1. DOMAIN screen = 0..(c - 1) /\ c \in 0..(q - 1) /\ c \in 0..(T - 1)
    BY <1>1 DEF Gap
  <2>2. /\ sectorCount' = c + 1
        /\ screen' = [m \in 0..c |-> IF m = c THEN (q + 1) % Digits ELSE screen[m]]
    BY <1>2, <2>1, ShowFacts
  <2> QED BY <2>1, <2>2
<1>4. disk # RightImage
  BY DEF Gap
<1>5. CASE q + 1 = T
  <2>1. T - 1 \in Places /\ T - 1 \notin 0..c
    BY <1>1, <1>3, <1>5
  <2> QED BY <1>1, <1>2, <1>3, <1>4, <1>5, <2>1 DEF Course, VerdictTrue, FullScreen
<1>6. CASE q + 1 # T
  <2>1. place' = q + 1 /\ q + 1 \in Places /\ stage' = "running"
    BY <1>1, <1>2, <1>6 DEF GoTo
  <2>2. \A r \in Places : r >= q + 1 => disk[r] = r + 1
    BY <1>1 DEF Gap, RightFrom
  <2>3. 0..(sectorCount' - 1) = 0..c /\ sectorCount' \in 0..(place' - 1)
    BY <1>1, <1>3, <2>1
  <2>4. Gap'
    BY <1>2, <1>3, <1>4, <2>1, <2>2, <2>3 DEF Gap, RightFrom
  <2> QED BY <1>1, <1>2, <2>1, <2>4 DEF Course, VerdictTrue
<1> QED BY <1>5, <1>6

\* A loop is never left, so that the last sector is never run.
LEMMA LoopRun ==
  ASSUME Running, RunSector, Loop
  PROVE  Course' /\ VerdictTrue'
<1>1. PICK p \in Places : place =< p /\ RightBefore(p) /\ disk[p] \in 1..p
  BY DEF Loop
<1>2. /\ pc = "return" /\ place \in 0..(T - 1) /\ Places = 0..(T - 1)
      /\ T \in Nat \ {0} /\ SectorAt(place) = disk[place]
  BY RunningFacts
<1>3. disk[place] \in 1..p
  <2>1. CASE place = p
    BY <1>1, <2>1
  <2>2. CASE place < p
    BY <1>1, <1>2, <2>2 DEF RightBefore
  <2> QED BY <1>1, <1>2, <2>1, <2>2
<1>4. disk[place] # T /\ disk[place] \in Places
  BY <1>1, <1>2, <1>3
<1>5. /\ pc' = pc /\ disk' = disk /\ place' = disk[place] /\ stage' = "running"
  BY <1>2, <1>4 DEF RunSector, vars, IsLast, NextPlace, GoTo, T
<1>6. Loop'
  BY <1>1, <1>2, <1>3, <1>5 DEF Loop, RightBefore
<1> QED BY <1>2, <1>4, <1>5, <1>6 DEF Course, VerdictTrue

\* Zeros are met only where a straight run ends.
LEMMA ZerosRun ==
  ASSUME Running, RunZeros
  PROVE  Course' /\ VerdictTrue'
<1> DEFINE q == place
<1>1. /\ pc = "return" /\ disk[q] = 0 /\ q \in 0..(T - 1) /\ q \in Places
      /\ Places = 0..(T - 1) /\ T \in Nat \ {0} /\ (Straight \/ Gap \/ Loop)
  BY RunningFacts DEF RunZeros
<1>2. /\ pc' = pc /\ disk' = disk /\ sectorCount' = sectorCount /\ screen' = screen
      /\ GoTo(q + 1)
  BY DEF RunZeros, vars
<1>3. ~Gap /\ ~Loop
  <2>1. ~Gap
    BY <1>1 DEF Gap, RightFrom
  <2>2. ~Loop
    <3> SUFFICES ASSUME NEW p \in Places, q =< p, RightBefore(p), disk[p] \in 1..p
                 PROVE  FALSE
      BY DEF Loop
    <3>1. CASE q = p
      BY <1>1, <3>1
    <3>2. CASE q < p
      BY <1>1, <3>2 DEF RightBefore
    <3> QED BY <1>1, <3>1, <3>2
  <2> QED BY <2>1, <2>2
<1>4. RightFrom(q + 1) /\ disk # RightImage
  <2>1. RightBefore(q) /\ disk[q] # q + 1
    BY <1>1, <1>3 DEF Straight
  <2>2. RightFrom(q + 1)
    BY <1>1, <2>1, FirstFault DEF Running, VInv, LoaderInv
  <2> QED BY <1>1, <2>2 DEF RightImage
<1>5. CASE q + 1 \in Places
  <2>1. place' = q + 1 /\ stage' = "running"
    BY <1>2, <1>5 DEF GoTo
  <2>2. sectorCount = q /\ DOMAIN screen = 0..(q - 1)
    BY <1>1, <1>3 DEF Straight
  <2>3. sectorCount' \in 0..(place' - 1)
    BY <1>1, <1>2, <2>1, <2>2
  <2>4. Gap'
    BY <1>2, <1>4, <2>1, <2>2, <2>3 DEF Gap, RightFrom
  <2> QED BY <1>1, <1>2, <1>5, <2>1, <2>4 DEF Course, VerdictTrue
<1>6. CASE q + 1 \notin Places
  BY <1>1, <1>2, <1>6 DEF GoTo, Course, VerdictTrue
<1> QED BY <1>5, <1>6

-----------------------------------------------------------------------------
LEMMA InitVInv == VirtualInit => VInv
BY InitLoaderInv DEF VirtualInit, VInv, Course, VerdictTrue

LEMMA StartImageVInv == VInv /\ StartImage => VInv'
<1> SUFFICES ASSUME VInv, StartImage PROVE VInv'
  OBVIOUS
<1>1. LoaderInv'
  BY NextLoaderInv DEF VInv, StartImage
<1>2. place' = 0 /\ sectorCount' = 0 /\ screen' = [n \in {} |-> n] /\ stage' = "running"
  BY DEF VInv, Course, StartImage
<1>3. Straight'
  <2>1. \A r \in Places : ~(r < 0)
    BY Sizes
  <2>2. 0..(0 - 1) = {}
    OBVIOUS
  <2> QED BY <1>2, <2>1, <2>2 DEF Straight, RightBefore
<1>4. 0 \in Places /\ pc' = "return"
  BY Sizes DEF StartImage, vars
<1> QED BY <1>1, <1>2, <1>3, <1>4 DEF VInv, Course, VerdictTrue

LEMMA NextVInv ==
  ASSUME OneFault, VInv, [VirtualNext]_<<vars, virtual>>
  PROVE  VInv'
<1>1. LoaderInv'
  BY NextLoaderInv DEF VInv, VirtualNext, Load, StartImage, RunSector, RunZeros
<1>2. CASE Load
  BY <1>1, <1>2 DEF Load, virtual, VInv, Course, VerdictTrue
<1>3. CASE StartImage
  BY <1>3, StartImageVInv
<1>4. CASE RunSector
  <2>1. Running
    BY <1>4 DEF RunSector, Running
  <2> QED BY <1>1, <1>4, <2>1, RunningFacts, StraightRun, GapRun, LoopRun DEF VInv
<1>5. CASE RunZeros
  <2>1. Running
    BY <1>5 DEF RunZeros, Running
  <2> QED BY <1>1, <1>5, <2>1, ZerosRun DEF VInv
<1>6. CASE UNCHANGED <<vars, virtual>>
  BY <1>1, <1>6 DEF vars, virtual, VInv, Course, VerdictTrue, Straight, Gap, Loop,
                    RightBefore, RightFrom
<1> QED BY <1>2, <1>3, <1>4, <1>5, <1>6 DEF VirtualNext

\* Whatever single fault the loader or the disk may have, the screen of an image
\* that came to its end is full of the right digits exactly if nothing was wrong.
THEOREM VerdictTrueHolds ==
  ASSUME OneFault
  PROVE  VirtualSpec => []VerdictTrue
<1>1. VirtualInit => VInv
  BY InitVInv
<1>2. VInv /\ [VirtualNext]_<<vars, virtual>> => VInv'
  BY NextVInv
<1>3. VInv => VerdictTrue
  BY DEF VInv
<1> QED BY <1>1, <1>2, <1>3, PTL DEF VirtualSpec

-----------------------------------------------------------------------------
\* A turn of the loop copies the first place of those that are left.
LEMMA ReadCopies ==
  ASSUME LoaderInv, ReadOneSector
  PROVE  Copied \in Todo /\ SC!Copy(Copied)
<1>1. /\ Copied \in 0..(T - 1) /\ Copied' = Copied + 1
      /\ memory' = Store(memory, AddressOf(Copied), <<disk, Copied + 1>>)
  BY ReadStep
<1>2. /\ pc = "while" /\ pc' = pc /\ disk' = disk
      /\ Phase = "loading" /\ Phase' = "loading"
  BY DEF ReadOneSector, Phase
<1>3. /\ Todo = Copied..(TotalSectorCount - 1)
      /\ Todo' = (Copied + 1)..(TotalSectorCount - 1)
  BY <1>1, <1>2 DEF Todo
<1>4. Copied \in Todo /\ Todo' = Todo \ {Copied}
  BY <1>1, <1>3, Sizes DEF T
<1> QED BY <1>1, <1>2, <1>4 DEF SC!Copy, SC!Store, Store

LEMMA StepSimulation == LoaderInv /\ [Next]_vars => [SC!Next]_(SC!vars)
<1> SUFFICES ASSUME LoaderInv, [Next]_vars PROVE [SC!Next]_(SC!vars)
  OBVIOUS
<1>1. CASE ReadOneSector
  BY <1>1, ReadCopies DEF SC!Next, SC!Load
<1>2. CASE HandleDiskError
  BY <1>2 DEF HandleDiskError, Phase, Todo, SC!Next, SC!Load, SC!Fail
<1>3. CASE Break
  <2>1. Copied..(TotalSectorCount - 1) = {}
    BY <1>3, Sizes DEF Break, LastCount, Copied, T
  <2> QED BY <1>3, <2>1 DEF Break, Phase, Todo, SC!Next, SC!Load, SC!Finish
<1>4. CASE UNCHANGED vars
  BY <1>4 DEF vars, counters, Phase, Todo, Copied, SC!vars
<1> QED BY <1>1, <1>2, <1>3, <1>4 DEF Next

LEMMA InitSimulation == Init => SC!Init
<1> SUFFICES ASSUME Init PROVE SC!Init
  OBVIOUS
<1>1. Copied = 0
  BY Sizes DEF Init, Copied, T
<1> QED BY <1>1 DEF Init, Phase, Todo, SC!Init, SC!Places, SC!NoMemory

\* The safety part of the loader in C implements the abstract loader's, by itself
\* for every set of disks and length of image.
THEOREM ReferenceLoads == Spec => SC!Safety
<1>1. Init => LoaderInv
  BY InitLoaderInv
<1>2. LoaderInv /\ [Next]_vars => LoaderInv'
  BY NextLoaderInv
<1>3. Init => SC!Init
  BY InitSimulation
<1>4. LoaderInv /\ [Next]_vars => [SC!Next]_(SC!vars)
  BY StepSimulation
<1> QED BY <1>1, <1>2, <1>3, <1>4, PTL DEF Spec, SC!Safety

\* The same when the image then runs in the memory it has loaded.
THEOREM VirtualLoads == VirtualSpec => SC!Safety
<1>1. VirtualInit => LoaderInv
  BY InitLoaderInv DEF VirtualInit
<1>2. [VirtualNext]_<<vars, virtual>> => [Next]_vars
  BY DEF VirtualNext, Load, StartImage, RunSector, RunZeros
<1>3. LoaderInv /\ [Next]_vars => LoaderInv'
  BY NextLoaderInv
<1>4. VirtualInit => SC!Init
  BY InitSimulation DEF VirtualInit
<1>5. LoaderInv /\ [Next]_vars => [SC!Next]_(SC!vars)
  BY StepSimulation
<1> QED BY <1>1, <1>2, <1>3, <1>4, <1>5, PTL DEF VirtualSpec, SC!Safety
=============================================================================
