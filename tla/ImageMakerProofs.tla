-------------------------- MODULE ImageMakerProofs --------------------------
(***************************************************************************)
(* What holds of Disk.img for source files of every size, disks of every   *)
(* size and every sequence of failing calls: it carries no sector count    *)
(* before it is complete (CountInv), and at every step of the program its  *)
(* length and each of its bytes are known (ImageInv).                      *)
(*                                                                         *)
(* Then what is started from an image ImageMaker has left, finished or     *)
(* given up: Outcome says what the image is when the build has ended,      *)
(* BootInv what the boot sector has loaded of it, whatever it is.          *)
(***************************************************************************)
EXTENDS BuildAndBoot, SequenceTheorems, TLAPS

Building == {"open", "copy", "adjust", "fill", "information"}

Byte == ({"boot", "kernel", "zero"} \X Nat) \cup ({"count"} \X (0..(WordSize - 1)))

PaddedSize(f)    == BYTEOFSECTOR * RoundUp(fileSize[f])
PaddedByte(f, i) == IF i <= fileSize[f] THEN FileByte(f, i) ELSE Zero

\* byte i of the two padded files, one behind the other
PlainByte(i) ==
  IF i <= PaddedSize("boot") THEN PaddedByte("boot", i)
                             ELSE PaddedByte("kernel", i - PaddedSize("boot"))

\* where the file at hand begins in the image
SourceStart == IF source = "boot" THEN 0 ELSE PaddedSize("boot")

Typed ==
  /\ TypeOK
  /\ image \in Seq(Byte)
  /\ pc = "copy" => iSourceSize = offset

\* No count before the end: the old one is gone with the old image.
CountInv ==
  /\ pc = "main" => image = OldImage
  /\ pc \in Building => ~HasCount
  /\ pc = "failed" => image = OldImage \/ ~HasCount

\* How long the image is.
Length ==
  /\ pc = "open" => Len(image) = SourceStart
  /\ pc = "copy" => Len(image) = SourceStart + offset
  /\ pc = "adjust" => /\ Len(image) = SourceStart + fileSize[source]
                      /\ iSourceSize = fileSize[source]
  /\ pc = "fill" => /\ Len(image) + fill = SourceStart + PaddedSize(source)
                    /\ Len(image) >= SourceStart + fileSize[source]
                    /\ sectors = RoundUp(fileSize[source])
  /\ pc = "information" => /\ Len(image) = PaddedSize("boot") + PaddedSize("kernel")
                           /\ sectors = RoundUp(fileSize["kernel"])

Placed == \A i \in 1..Len(image) : image[i] = PlainByte(i)

ImageInv ==
  /\ pc = "main" => source = "boot"
  /\ pc \in Building /\ unnoticed = {} => Length /\ Placed

-----------------------------------------------------------------------------
LEMMA DivFacts ==
  ASSUME NEW m \in Int, NEW b \in Nat \ {0}
  PROVE  m \div b \in Int /\ m % b \in 0..(b-1) /\ m = (b * (m \div b)) + (m % b)
OBVIOUS

LEMMA DivUnique ==
  ASSUME NEW b \in Nat \ {0}, NEW k \in Int, NEW s \in 0..(b-1)
  PROVE  (b * k + s) \div b = k /\ (b * k + s) % b = s
<1> DEFINE m == b * k + s
<1>1. b * k \in Int OBVIOUS
<1>2. m \in Int BY <1>1
<1> HIDE DEF m
<1>3. m \div b \in Int /\ m % b \in 0..(b-1) /\ m = (b * (m \div b)) + (m % b) BY <1>2, DivFacts
<1>m. m = b * k + s BY DEF m
<1>4. PICK d \in Int : d = k - (m \div b) BY <1>3
<1>5. b * d = (m % b) - s
  <2>0. m \div b \in Int /\ b * (m \div b) \in Int BY <1>3
  <2>1. b * d = b * k - b * (m \div b) BY <1>3, <1>4
  <2> QED BY <2>0, <2>1, <1>3, <1>1, <1>m
<1>6. d = 0
  <2>1. CASE d >= 1
    <3>1. PICK e \in Nat : d = 1 + e 
      <4>1. d - 1 \in Nat /\ d = 1 + (d-1) BY <2>1
      <4> QED BY <4>1
    <3>2. b * d = b + b * e /\ b * e \in Nat BY <3>1
    <3> QED BY <3>2, <1>5, <1>3
  <2>2. CASE d <= -1
    <3>1. PICK e \in Nat : d = -1 - e
      <4>1. -1 - d \in Nat /\ d = -1 - (-1 -d) BY <2>2
      <4> QED BY <4>1
    <3>2. b * d = -b - b * e /\ b * e \in Nat BY <3>1
    <3> QED BY <3>2, <1>5, <1>3
  <2> QED BY <2>1, <2>2
<1>7. m \div b = k BY <1>2, <1>4, <1>6, <1>3
<1>9. m % b = s BY <1>2, <1>5, <1>6, <1>3
<1> QED BY <1>7, <1>9 DEF m

\* Padding makes the whole number of sectors that RoundUp says, and Count
\* counts them.
LEMMA PaddingFacts ==
  ASSUME NEW n \in Nat
  PROVE  /\ RoundUp(n) \in Nat
         /\ BYTEOFSECTOR * RoundUp(n) \in Nat
         /\ Padding(n) \in 0..(BYTEOFSECTOR - 1)
         /\ n + Padding(n) = BYTEOFSECTOR * RoundUp(n)
         /\ Count(n) = RoundUp(n)
<1> DEFINE b == BYTEOFSECTOR
           q == n \div b
           r == n % b
<1>1. b \in Nat \ {0} /\ b > 1 BY ImageAssumption
<1>2. q \in Int /\ r \in 0..(b - 1) /\ n = (b * q) + r BY <1>1, DivFacts
<1>3. Remainder(n) = r BY DEF Remainder
<1>4. b * q \in Int BY <1>1, <1>2
<1>5. q >= 0
  <2>1. SUFFICES ASSUME q <= -1 PROVE FALSE BY <1>2
  <2>2. -1 - q \in Nat /\ q = -1 - (-1 - q) BY <2>1, <1>2
  <2>3. PICK e \in Nat : q = -1 - e BY <2>2
  <2>4. b * q = -b - b * e /\ b * e \in Nat BY <2>3, <1>1
  <2> QED BY <2>4, <1>2, <1>1
<1>6. CASE r = 0
  <2>1. Padding(n) = 0 BY <1>6, <1>3 DEF Padding
  <2>2. b - 1 \in 0..(b - 1) BY <1>1
  <2>3. (b * q + (b - 1)) \div b = q BY <2>2, <1>1, <1>2, DivUnique
  <2>4. n + b - 1 = b * q + (b - 1) BY <1>2, <1>4, <1>6, <1>1
  <2>5. RoundUp(n) = q BY <2>3, <2>4 DEF RoundUp
  <2>6. n = b * q BY <1>2, <1>4, <1>6
  <2>7. Count(n) = q BY <2>1, <2>6, <1>2 DEF Count
  <2> QED BY <2>1, <2>5, <2>6, <2>7, <1>1, <1>2, <1>5
<1>7. CASE r # 0
  <2>1. Padding(n) = b - r BY <1>7, <1>3 DEF Padding
  <2>2. q + 1 \in Int /\ r - 1 \in 0..(b - 1) /\ 0 \in 0..(b - 1) BY <1>1, <1>2, <1>7
  <2>3. b * (q + 1) = b * q + b BY <1>1, <1>2
  <2>4. (b * (q + 1) + (r - 1)) \div b = q + 1 BY <2>2, <1>1, DivUnique
  <2>5. n + b - 1 = b * (q + 1) + (r - 1) BY <1>2, <1>4, <2>3, <1>1
  <2>6. RoundUp(n) = q + 1 BY <2>4, <2>5 DEF RoundUp
  <2>7. n + Padding(n) = b * (q + 1) BY <2>1, <2>3, <1>1, <1>2, <1>4
  <2>8. (b * (q + 1) + 0) \div b = q + 1 BY <2>2, <1>1, DivUnique
  <2>9. b * (q + 1) \in Nat BY <1>1, <1>2, <1>5
  <2>10. Count(n) = q + 1 BY <2>7, <2>8, <2>9 DEF Count
  <2> QED BY <2>1, <2>6, <2>7, <2>9, <2>10, <1>1, <1>2, <1>5, <1>7
<1> QED BY <1>6, <1>7

\* What AdjustInSectorSize makes of the size -1, a read that failed at once.
LEMMA PaddingOfFailure == Padding(-1) = BYTEOFSECTOR + 1 /\ Count(-1) = 1
<1> DEFINE b == BYTEOFSECTOR
<1>1. b \in Nat \ {0} /\ b > 1 BY ImageAssumption
<1>2. 1 % b = 1
  <2>1. (b * 0 + 1) % b = 1 BY <1>1, DivUnique
  <2> QED BY <2>1, <1>1
<1>3. Remainder(-1) = -1 BY <1>2 DEF Remainder
<1>4. Padding(-1) = b + 1 BY <1>1, <1>3 DEF Padding
<1>5. (b * 1 + 0) \div b = 1 BY <1>1, DivUnique
<1>6. -1 + Padding(-1) = b * 1 + 0 BY <1>1, <1>4
<1>7. Count(-1) = 1 BY <1>5, <1>6 DEF Count
<1> QED BY <1>4, <1>7

-----------------------------------------------------------------------------
\* What TypeOK says of the bytes of the image.
LEMMA BytesTyped ==
  ASSUME image \in Seq(Byte)
  PROVE  \A i \in DOMAIN image :
           /\ image[i][1] \in {"boot", "kernel", "zero", "count"}
           /\ image[i][2] \in Nat
           /\ IsCount(image[i]) => image[i][2] < WordSize
<1>1. SUFFICES ASSUME NEW i \in DOMAIN image
               PROVE  /\ image[i][1] \in {"boot", "kernel", "zero", "count"}
                      /\ image[i][2] \in Nat
                      /\ IsCount(image[i]) => image[i][2] < WordSize
  OBVIOUS
<1>2. image[i] \in Byte OBVIOUS
<1>3. CASE image[i] \in {"boot", "kernel", "zero"} \X Nat BY <1>3 DEF IsCount
<1>4. CASE image[i] \in {"count"} \X (0..(WordSize - 1)) BY <1>4, ImageAssumption
<1> QED BY <1>2, <1>3, <1>4 DEF Byte

LEMMA InitTyped == Init => Typed
<1>1. SUFFICES ASSUME Init PROVE Typed OBVIOUS
<1>2. image \in Seq(Byte)
  <2>1. CountByte(1) \in Byte BY ImageAssumption DEF CountByte, Byte
  <2> QED BY <1>1, <2>1 DEF Init, OldImage
<1>3. \A i \in DOMAIN image : IsCount(image[i]) => image[i][2] < WordSize
  BY <1>2, BytesTyped
<1> QED BY <1>1, <1>2, <1>3, BytesTyped, ImageAssumption DEF Init, Typed, TypeOK

LEMMA SizesTyped ==
  ASSUME TypeOK
  PROVE  /\ fileSize["boot"] \in Nat /\ fileSize["kernel"] \in Nat
         /\ fileSize[source] \in Nat /\ capacity \in Nat
BY ImageAssumption DEF TypeOK

\* Every turn of CopyFile that does not end in exit(-1) adds what it has read.
LEMMA CopyFacts ==
  ASSUME Typed, CopySector
  PROVE  LET iRead == Smaller(BYTEOFSECTOR, fileSize[source] - offset)
         IN  /\ iRead \in 0..BYTEOFSECTOR /\ offset + iRead \in 0..fileSize[source]
             /\ iRead # BYTEOFSECTOR => offset + iRead = fileSize[source]
             /\ Written(iRead) \in {-1} \cup (0..iRead)
             /\ Len(Bytes(source, offset, Written(iRead))) =
                  (IF Written(iRead) = -1 THEN 0 ELSE Written(iRead))
             /\ Bytes(source, offset, Written(iRead)) \in Seq(Byte)
<1> DEFINE iRead == Smaller(BYTEOFSECTOR, fileSize[source] - offset)
           iWrite == Written(iRead)
<1>1. pc = "copy" /\ source \in {"boot", "kernel"} BY DEF CopySector, Typed, TypeOK
<1>2. fileSize[source] \in Nat /\ capacity \in Nat /\ offset \in 0..fileSize[source]
  BY <1>1, SizesTyped DEF Typed, TypeOK
<1>3. /\ iRead \in 0..BYTEOFSECTOR /\ offset + iRead \in 0..fileSize[source]
      /\ iRead # BYTEOFSECTOR => offset + iRead = fileSize[source]
  BY <1>2, ImageAssumption DEF Smaller
<1>4. Room \in Int
  <2>1. Len(image) \in Nat BY LenProperties DEF Typed
  <2> QED BY <2>1, <1>2 DEF Room
<1>5. iWrite \in {-1} \cup (0..iRead)
  <2> HIDE DEF iRead
  <2>1. iRead \in Nat BY <1>3
  <2> QED BY <2>1, <1>4 DEF Written, Smaller
<1>6. /\ Bytes(source, offset, iWrite) \in Seq(Byte)
      /\ Len(Bytes(source, offset, iWrite)) = (IF iWrite = -1 THEN 0 ELSE iWrite)
  <2> HIDE DEF iRead, iWrite
  <2>1. PICK n \in Nat : 1..iWrite = 1..n /\ n = (IF iWrite = -1 THEN 0 ELSE iWrite)
    <3>1. CASE iWrite = -1 BY <3>1
    <3>2. CASE iWrite # -1 BY <3>2, <1>5, <1>3
    <3> QED BY <3>1, <3>2
  <2>2. \A i \in 1..n : FileByte(source, offset + i) \in Byte
    BY <1>1, <1>2 DEF FileByte, Byte
  <2>3. Bytes(source, offset, iWrite) = [i \in 1..n |-> FileByte(source, offset + i)]
    BY <2>1 DEF Bytes
  <2>4. Bytes(source, offset, iWrite) \in Seq(Byte) /\ Len(Bytes(source, offset, iWrite)) = n
    BY <2>2, <2>3
  <2> QED BY <2>1, <2>4
<1> QED BY <1>3, <1>5, <1>6

LEMMA OpenTyped == Typed /\ (Exit \/ OpenTarget \/ OpenSource) => Typed'
<1> SUFFICES ASSUME Typed, Exit \/ OpenTarget \/ OpenSource PROVE Typed'
  OBVIOUS
<1> USE DEF Typed, TypeOK, files
<1>1. CASE Exit BY <1>1 DEF Exit
<1>2. CASE OpenTarget
  <2>1. image' \in Seq(Byte) BY <1>2 DEF OpenTarget, Opened
  <2> QED BY <1>2, <2>1 DEF OpenTarget, Opened
<1>3. CASE OpenSource
  <2>1. 0 \in 0..fileSize[source] BY SizesTyped
  <2> QED BY <1>3, <2>1 DEF OpenSource
<1> QED BY <1>1, <1>2, <1>3

\* The bytes of the next image; BytesTyped for the state after a step.
LEMMA NextBytesTyped ==
  image' \in Seq(Byte) =>
    \A i \in DOMAIN image' :
      /\ image'[i][1] \in {"boot", "kernel", "zero", "count"}
      /\ image'[i][2] \in Nat
      /\ IsCount(image'[i]) => image'[i][2] < WordSize
<1>1. SUFFICES ASSUME image' \in Seq(Byte), NEW i \in DOMAIN image'
               PROVE  /\ image'[i][1] \in {"boot", "kernel", "zero", "count"}
                      /\ image'[i][2] \in Nat
                      /\ IsCount(image'[i]) => image'[i][2] < WordSize
  OBVIOUS
<1>2. image'[i] \in Byte BY <1>1
<1>3. CASE image'[i] \in {"boot", "kernel", "zero"} \X Nat BY <1>3 DEF IsCount
<1>4. CASE image'[i] \in {"count"} \X (0..(WordSize - 1)) BY <1>4, ImageAssumption
<1> QED BY <1>2, <1>3, <1>4 DEF Byte

LEMMA CopyTyped ==
  Typed /\ (CopySector \/ CopySectorReadFault \/ CopySectorWriteFault) => Typed'
<1> SUFFICES ASSUME Typed, CopySector \/ CopySectorReadFault \/ CopySectorWriteFault
             PROVE  Typed'
  OBVIOUS
<1>1. CASE CopySector
  <2> DEFINE iRead == Smaller(BYTEOFSECTOR, fileSize[source] - offset)
             iWrite == Written(iRead)
  <2>1. /\ iRead \in 0..BYTEOFSECTOR /\ offset + iRead \in 0..fileSize[source]
        /\ Bytes(source, offset, iWrite) \in Seq(Byte)
    BY <1>1, CopyFacts
  <2>2. image' \in Seq(Byte)
    <3>1. image' = image \o Bytes(source, offset, iWrite) BY <1>1 DEF CopySector
    <3> QED BY <3>1, <2>1, ConcatProperties DEF Typed
  <2>3. CASE pc' = "failed" /\ UNCHANGED <<offset, iSourceSize>>
    BY <1>1, <2>2, <2>3, NextBytesTyped DEF CopySector, Typed, TypeOK, files
  <2>4. CASE /\ offset' = offset + iRead
             /\ iSourceSize' = iSourceSize + iRead
             /\ pc' = IF iRead # BYTEOFSECTOR THEN "adjust" ELSE "copy"
    <3>1. iSourceSize = offset /\ offset \in Nat BY <1>1 DEF CopySector, Typed, TypeOK
    <3> HIDE DEF iRead
    <3>2. offset' = offset + iRead /\ iSourceSize' = offset' /\ offset' \in Nat
      BY <2>1, <2>4, <3>1
    <3> QED BY <1>1, <2>1, <2>2, <2>4, <3>2, NextBytesTyped DEF CopySector, Typed, TypeOK, files
  <2> QED BY <1>1, <2>3, <2>4 DEF CopySector
<1>2. CASE CopySectorReadFault
  <2>1. iSourceSize = offset /\ offset \in Nat BY <1>2 DEF CopySectorReadFault, Typed, TypeOK
  <2>2. iSourceSize' = offset - 1 BY <1>2, <2>1 DEF CopySectorReadFault
  <2>3. offset - 1 \in Nat \cup {-1} BY <2>1
  <2> QED BY <1>2, <2>2, <2>3 DEF CopySectorReadFault, Typed, TypeOK, files
<1>3. CASE CopySectorWriteFault
  BY <1>3 DEF CopySectorWriteFault, Typed, TypeOK, files
<1> QED BY <1>1, <1>2, <1>3

LEMMA FillTyped ==
  Typed /\ (AdjustInSectorSize \/ FillByte \/ FillEnd) => Typed'
<1> SUFFICES ASSUME Typed, AdjustInSectorSize \/ FillByte \/ FillEnd PROVE Typed'
  OBVIOUS
<1>1. CASE AdjustInSectorSize
  <2>1. iSourceSize \in Nat \cup {-1} BY DEF Typed, TypeOK
  <2>2. Padding(iSourceSize) \in 0..(BYTEOFSECTOR + 1)
    BY <2>1, PaddingFacts, PaddingOfFailure, ImageAssumption
  <2>3. Count(iSourceSize) \in Nat BY <2>1, PaddingFacts, PaddingOfFailure
  <2> QED BY <1>1, <2>2, <2>3 DEF AdjustInSectorSize, Typed, TypeOK, files
<1>2. CASE FillByte
  <2>1. image' \in Seq(Byte)
    <3>1. Zero \in Byte BY DEF Zero, Byte
    <3> QED BY <1>2, <3>1, AppendProperties DEF FillByte, Typed
  <2>2. fill' \in 0..(BYTEOFSECTOR + 1)
    BY <1>2, ImageAssumption DEF FillByte, Typed, TypeOK
  <2>3. unnoticed' \subseteq {"read", "fill", "count"} BY <1>2 DEF FillByte, Typed, TypeOK
  <2> QED BY <1>2, <2>1, <2>2, <2>3, NextBytesTyped DEF FillByte, Typed, TypeOK, files
<1>3. CASE FillEnd BY <1>3 DEF FillEnd, Typed, TypeOK, files
<1> QED BY <1>1, <1>2, <1>3

LEMMA InformationTyped ==
  Typed /\ (WriteKernelInformation \/ WriteKernelInformationFault) => Typed'
<1> SUFFICES ASSUME Typed, WriteKernelInformation \/ WriteKernelInformationFault
             PROVE  Typed'
  OBVIOUS
<1>1. CASE WriteKernelInformation
  <2>1. image' \in Seq(Byte)
    <3> DEFINE size == IF HeaderEnd <= Len(image) THEN Len(image) ELSE HeaderEnd
               byte(i) == IF i - 1 \in HeaderOffset..(HeaderOffset + 1)
                            THEN CountByte(UsData)
                            ELSE IF i \in DOMAIN image THEN image[i] ELSE Zero
    <3>1. size \in Nat
      <4>1. Len(image) \in Nat BY LenProperties DEF Typed
      <4> QED BY <4>1, ImageAssumption DEF HeaderEnd
    <3>2. \A i \in 1..size : byte(i) \in Byte
      <4>1. sectors % WordSize \in 0..(WordSize - 1)
        <5>1. sectors \in Int /\ WordSize \in Nat \ {0} BY ImageAssumption DEF Typed, TypeOK
        <5> QED BY <5>1, DivFacts
      <4>2. CountByte(UsData) \in Byte BY <4>1 DEF CountByte, UsData, Byte
      <4>3. Zero \in Byte BY DEF Zero, Byte
      <4>4. \A i \in DOMAIN image : image[i] \in Byte BY DEF Typed
      <4> QED BY <4>2, <4>3, <4>4
    <3>3. image' = [i \in 1..size |-> byte(i)] BY <1>1 DEF WriteKernelInformation
    <3> HIDE DEF size, byte
    <3> QED BY <3>1, <3>2, <3>3
  <2> QED BY <1>1, <2>1, NextBytesTyped DEF WriteKernelInformation, Typed, TypeOK, files
<1>2. CASE WriteKernelInformationFault
  BY <1>2 DEF WriteKernelInformationFault, Typed, TypeOK, files
<1> QED BY <1>1, <1>2

LEMMA NextTyped == Typed /\ [Next]_vars => Typed'
<1> SUFFICES ASSUME Typed, [Next]_vars PROVE Typed'
  OBVIOUS
<1>1. CASE UNCHANGED vars BY <1>1 DEF vars, files, Typed, TypeOK
<1>2. CASE Next
  BY <1>2, OpenTyped, CopyTyped, FillTyped, InformationTyped DEF Next
<1> QED BY <1>1, <1>2

\* TypeOK holds for all sizes of sectors, files and disks.
THEOREM TypeCorrect == Spec => []TypeOK
<1>1. Spec => []Typed BY InitTyped, NextTyped, PTL DEF Spec
<1>2. Typed => TypeOK BY DEF Typed
<1> QED BY <1>1, <1>2, PTL

-----------------------------------------------------------------------------
\* A byte that is added while the image is built is none of the count.
LEMMA NoCountAdded ==
  ASSUME NEW s \in Seq(Byte), NEW t \in Seq(Byte),
         \A i \in DOMAIN s : ~IsCount(s[i]), \A i \in DOMAIN t : ~IsCount(t[i])
  PROVE  \A i \in DOMAIN (s \o t) : ~IsCount((s \o t)[i])
<1>1. /\ Len(s) \in Nat /\ Len(t) \in Nat
      /\ DOMAIN s = 1..Len(s) /\ DOMAIN t = 1..Len(t)
  BY LenProperties
<1>2. DOMAIN (s \o t) = 1..(Len(s) + Len(t)) BY ConcatProperties, LenProperties
<1>3. SUFFICES ASSUME NEW i \in 1..(Len(s) + Len(t)) PROVE ~IsCount((s \o t)[i])
  BY <1>2
<1>4. (s \o t)[i] = IF i <= Len(s) THEN s[i] ELSE t[i - Len(s)]
  BY ConcatProperties
<1>5. CASE i <= Len(s)
  <2>1. i \in DOMAIN s BY <1>1, <1>5
  <2> QED BY <2>1, <1>4, <1>5
<1>6. CASE ~(i <= Len(s))
  <2>1. i - Len(s) \in DOMAIN t BY <1>1, <1>6
  <2> QED BY <2>1, <1>4, <1>6
<1> QED BY <1>5, <1>6

LEMMA InitCount == Init => CountInv
BY DEF Init, CountInv, Building

LEMMA NextCount == Typed /\ CountInv /\ [Next]_vars => CountInv'
<1> SUFFICES ASSUME Typed, CountInv, [Next]_vars PROVE CountInv'
  OBVIOUS
<1>1. CASE UNCHANGED vars BY <1>1 DEF vars, CountInv, Building, HasCount
<1>2. CASE OpenTarget BY <1>2 DEF OpenTarget, Opened, CountInv, Building, HasCount
<1>3. CASE UNCHANGED image /\ pc \in Building /\ pc' \in Building \cup {"failed", "done"}
  BY <1>3 DEF CountInv, Building, HasCount
<1>4. CASE Exit BY <1>4 DEF Exit, CountInv, Building, HasCount
<1>5. CASE CopySector
  <2> DEFINE t == Bytes(source, offset,
                        Written(Smaller(BYTEOFSECTOR, fileSize[source] - offset)))
  <2>1. image \in Seq(Byte) /\ t \in Seq(Byte) BY <1>5, CopyFacts DEF Typed
  <2>2. \A i \in DOMAIN t : ~IsCount(t[i])
    <3>1. source # "count" BY DEF Typed, TypeOK
    <3> QED BY <3>1 DEF Bytes, FileByte, IsCount
  <2>3. \A i \in DOMAIN image : ~IsCount(image[i])
    BY <1>5 DEF CopySector, CountInv, Building, HasCount
  <2> HIDE DEF t
  <2>4. \A i \in DOMAIN (image \o t) : ~IsCount((image \o t)[i])
    BY <2>1, <2>2, <2>3, NoCountAdded
  <2>5. image' = image \o t BY <1>5 DEF CopySector, t
  <2>6. ~HasCount' BY <2>4, <2>5 DEF HasCount
  <2>7. pc' \in {"failed", "adjust", "copy"} BY <1>5 DEF CopySector
  <2> QED BY <2>6, <2>7 DEF CountInv
<1>6. CASE FillByte
  <2>1. CASE UNCHANGED image BY <1>6, <2>1, <1>3 DEF FillByte, Building
  <2>2. CASE image' = Append(image, Zero)
    <3>1. Zero \in Byte BY DEF Zero, Byte
    <3>2. <<Zero>> \in Seq(Byte) BY <3>1
    <3>3. \A i \in DOMAIN <<Zero>> : ~IsCount(<<Zero>>[i]) BY DEF IsCount, Zero
    <3>4. \A i \in DOMAIN image : ~IsCount(image[i])
      BY <1>6 DEF FillByte, CountInv, Building, HasCount
    <3>5. image' = image \o <<Zero>> BY <2>2, <3>1, AppendIsConcat DEF Typed
    <3>6. ~HasCount'
      BY <3>2, <3>3, <3>4, <3>5, NoCountAdded DEF HasCount, Typed
    <3>7. pc' = "fill" BY <1>6 DEF FillByte
    <3> QED BY <3>6, <3>7 DEF CountInv
  <2> QED BY <1>6, <2>1, <2>2 DEF FillByte
<1>7. CASE WriteKernelInformation BY <1>7 DEF WriteKernelInformation, CountInv, Building
<1>8. CASE OpenSource BY <1>8, <1>3 DEF OpenSource, Building
<1>9. CASE CopySectorReadFault BY <1>9, <1>3 DEF CopySectorReadFault, Building
<1>10. CASE CopySectorWriteFault BY <1>10, <1>3 DEF CopySectorWriteFault, Building
<1>11. CASE AdjustInSectorSize BY <1>11, <1>3 DEF AdjustInSectorSize, Building
<1>12. CASE FillEnd BY <1>12, <1>3 DEF FillEnd, Building
<1>13. CASE WriteKernelInformationFault
  BY <1>13, <1>3 DEF WriteKernelInformationFault, Building
<1> QED BY <1>1, <1>2, <1>4, <1>5, <1>6, <1>7, <1>8, <1>9, <1>10, <1>11, <1>12, <1>13 DEF Next

\* An image that was begun and given up never carries a count.
THEOREM NoCountOnFailureHolds == Spec => []NoCountOnFailure
<1>1. Init => Typed /\ CountInv BY InitTyped, InitCount
<1>2. Typed /\ CountInv /\ [Next]_vars => (Typed /\ CountInv)' BY NextTyped, NextCount
<1>3. Typed /\ CountInv => NoCountOnFailure
  BY DEF Typed, TypeOK, CountInv, Building, NoCountOnFailure
<1> QED BY <1>1, <1>2, <1>3, PTL DEF Spec

-----------------------------------------------------------------------------
\* The header lies within a sector, and there is a boot file.
Sensible == HeaderEnd <= BYTEOFSECTOR /\ 0 \notin BootSizes

LEMMA PaddedFacts ==
  ASSUME TypeOK, NEW f \in {"boot", "kernel"}
  PROVE  /\ RoundUp(fileSize[f]) \in Nat
         /\ PaddedSize(f) \in Nat
         /\ fileSize[f] \in 0..PaddedSize(f)
<1>1. fileSize[f] \in Nat BY SizesTyped
<1>2. /\ RoundUp(fileSize[f]) \in Nat /\ PaddedSize(f) \in Nat
      /\ Padding(fileSize[f]) \in Nat
      /\ fileSize[f] + Padding(fileSize[f]) = PaddedSize(f)
  BY <1>1, PaddingFacts, ImageAssumption DEF PaddedSize
<1> QED BY <1>1, <1>2

\* Byte j of the file at hand is byte SourceStart + j of the image.
LEMMA PlainOfSource ==
  ASSUME TypeOK, NEW j \in 1..PaddedSize(source)
  PROVE  PlainByte(SourceStart + j) = PaddedByte(source, j)
<1>1. PaddedSize("boot") \in Nat BY PaddedFacts
<1>2. CASE source = "boot"
  <2>1. j \in Int /\ j <= PaddedSize("boot") /\ 0 + j = j BY <1>1, <1>2
  <2> QED BY <1>2, <2>1 DEF SourceStart, PlainByte
<1>3. CASE source = "kernel"
  <2>1. PaddedSize("kernel") \in Nat BY PaddedFacts
  <2>2. j \in 1..PaddedSize("kernel") BY <1>3
  <2>3. /\ ~(PaddedSize("boot") + j <= PaddedSize("boot"))
        /\ (PaddedSize("boot") + j) - PaddedSize("boot") = j
    BY <1>1, <2>1, <2>2
  <2> QED BY <1>3, <2>3 DEF SourceStart, PlainByte
<1> QED BY <1>2, <1>3 DEF TypeOK

LEMMA SourceStartTyped == TypeOK => SourceStart \in Nat
BY PaddedFacts DEF SourceStart

\* A step does not change what the image is to become.
LEMMA SameGoal ==
  ASSUME fileSize' = fileSize
  PROVE  /\ \A f : PaddedSize(f)' = PaddedSize(f)
         /\ \A i : PlainByte(i)' = PlainByte(i)
BY DEF PaddedSize, PlainByte, PaddedByte

\* Appending the bytes that come next keeps every byte in its place.
LEMMA PlacedAdded ==
  ASSUME fileSize' = fileSize, image \in Seq(Byte), NEW t \in Seq(Byte),
         image' = image \o t, Placed,
         \A i \in 1..Len(t) : t[i] = PlainByte(Len(image) + i)
  PROVE  Placed' /\ Len(image') = Len(image) + Len(t)
<1>1. Len(image) \in Nat /\ Len(t) \in Nat BY LenProperties
<1>2. Len(image') = Len(image) + Len(t) BY ConcatProperties
<1>3. ASSUME NEW i \in 1..(Len(image) + Len(t)) PROVE image'[i] = PlainByte(i)
  <2>1. image'[i] = IF i <= Len(image) THEN image[i] ELSE t[i - Len(image)]
    BY ConcatProperties
  <2>2. CASE i <= Len(image) BY <1>1, <2>1, <2>2 DEF Placed
  <2>3. CASE ~(i <= Len(image))
    <3>1. i - Len(image) \in 1..Len(t) /\ Len(image) + (i - Len(image)) = i
      BY <1>1, <2>3
    <3> QED BY <2>1, <2>3, <3>1
  <2> QED BY <2>2, <2>3
<1> QED BY <1>2, <1>3, SameGoal DEF Placed

LEMMA InitImage == Init => ImageInv
BY DEF Init, ImageInv, Building

LEMMA OpenImage == Typed /\ ImageInv /\ (OpenTarget \/ OpenSource) => ImageInv'
<1> SUFFICES ASSUME Typed, ImageInv, OpenTarget \/ OpenSource PROVE ImageInv'
  OBVIOUS
<1>1. CASE OpenTarget
  <2>1. image' = << >> /\ pc' = "open" /\ SourceStart' = 0
    BY <1>1 DEF OpenTarget, Opened, SourceStart, ImageInv
  <2>2. Len(image') = 0 BY <2>1
  <2> QED BY <2>1, <2>2 DEF ImageInv, Length, Placed
<1>2. CASE OpenSource
  <2>1. /\ UNCHANGED <<fileSize, source, image, unnoticed>>
        /\ pc = "open" /\ pc' = "copy" /\ offset' = 0
    BY <1>2 DEF OpenSource, files
  <2>2. SourceStart' = SourceStart /\ (Placed => Placed')
    BY <2>1, SameGoal DEF SourceStart, Placed
  <2>3. SourceStart \in Nat BY SourceStartTyped DEF Typed
  <2> QED BY <2>1, <2>2, <2>3 DEF ImageInv, Length, Building
<1> QED BY <1>1, <1>2

\* A turn of CopyFile, whether all was written or not, puts what it writes in
\* its place.
LEMMA CopyAdds ==
  ASSUME Typed, ImageInv, CopySector, unnoticed = {}
  PROVE  LET iRead == Smaller(BYTEOFSECTOR, fileSize[source] - offset)
         IN  /\ Placed'
             /\ Len(image) = SourceStart + offset
             /\ Len(image') = Len(image) + Len(Bytes(source, offset, Written(iRead)))
<1> DEFINE iRead == Smaller(BYTEOFSECTOR, fileSize[source] - offset)
           t == Bytes(source, offset, Written(iRead))
           n == IF Written(iRead) = -1 THEN 0 ELSE Written(iRead)
<1>1. UNCHANGED <<fileSize, source>> /\ pc = "copy" /\ image' = image \o t
  BY DEF CopySector, files
<1>2. /\ iRead \in 0..BYTEOFSECTOR /\ offset + iRead \in 0..fileSize[source]
      /\ Written(iRead) \in {-1} \cup (0..iRead) /\ Len(t) = n /\ t \in Seq(Byte)
  BY CopyFacts
<1>3. /\ image \in Seq(Byte) /\ offset \in Nat /\ SourceStart \in Nat
      /\ source \in {"boot", "kernel"} /\ n \in 0..iRead
  BY <1>2, SourceStartTyped DEF Typed, TypeOK
<1>4. Placed /\ Len(image) = SourceStart + offset
  BY <1>1 DEF ImageInv, Building, Length
<1>5. \A i \in 1..Len(t) : t[i] = PlainByte(Len(image) + i)
  <2>1. TAKE i \in 1..Len(t)
  <2>2. t[i] = FileByte(source, offset + i)
    <3> DEFINE w == Written(iRead)
    <3>1. t = [k \in 1..w |-> FileByte(source, offset + k)] BY DEF Bytes
    <3>2. i \in 1..w BY <1>2
    <3> HIDE DEF t, iRead, w
    <3> QED BY <3>1, <3>2
  <2>3. fileSize[source] \in 0..PaddedSize(source) /\ PaddedSize(source) \in Nat
    BY <1>3, PaddedFacts DEF Typed
  <2>4. i \in 1..n BY <1>2
  <2> HIDE DEF t, iRead, n
  <2>5. offset + i \in 1..PaddedSize(source) /\ offset + i <= fileSize[source]
    BY <1>2, <1>3, <2>3, <2>4
  <2>6. PlainByte(SourceStart + (offset + i)) = FileByte(source, offset + i)
    BY <2>5, PlainOfSource DEF Typed, PaddedByte
  <2>7. Len(image) + i = SourceStart + (offset + i) BY <1>3, <1>4, <2>4
  <2> QED BY <2>2, <2>6, <2>7
<1> HIDE DEF t
<1>6. Placed' /\ Len(image') = Len(image) + Len(t)
  BY <1>1, <1>2, <1>3, <1>4, <1>5, PlacedAdded
<1> QED BY <1>4, <1>6 DEF t

LEMMA CopyImage ==
  Typed /\ ImageInv /\ (CopySector \/ CopySectorReadFault \/ CopySectorWriteFault)
    => ImageInv'
<1> SUFFICES ASSUME Typed, ImageInv,
                    CopySector \/ CopySectorReadFault \/ CopySectorWriteFault
             PROVE  ImageInv'
  OBVIOUS
<1>1. CASE CopySectorReadFault BY <1>1 DEF CopySectorReadFault, ImageInv
<1>2. CASE CopySectorWriteFault BY <1>2 DEF CopySectorWriteFault, ImageInv, Building
<1>3. CASE CopySector
  <2> DEFINE iRead == Smaller(BYTEOFSECTOR, fileSize[source] - offset)
  <2>1. UNCHANGED <<fileSize, source, unnoticed>> /\ pc = "copy" /\ pc' # "main"
    BY <1>3 DEF CopySector, files
  <2>2. SUFFICES ASSUME unnoticed = {}, iRead = Written(iRead),
                        offset' = offset + iRead, iSourceSize' = iSourceSize + iRead,
                        pc' = IF iRead # BYTEOFSECTOR THEN "adjust" ELSE "copy"
                 PROVE  Length' /\ Placed'
    BY <1>3, <2>1 DEF CopySector, ImageInv, Building
  <2>3. /\ iRead \in 0..BYTEOFSECTOR
        /\ iRead # BYTEOFSECTOR => offset + iRead = fileSize[source]
        /\ Len(Bytes(source, offset, Written(iRead))) = iRead
    BY <1>3, <2>2, CopyFacts
  <2>4. /\ Placed' /\ Len(image) = SourceStart + offset
        /\ Len(image') = Len(image) + iRead
    BY <1>3, <2>2, <2>3, CopyAdds
  <2>5. offset \in Nat /\ iSourceSize = offset /\ SourceStart \in Nat
    BY <2>1, SourceStartTyped DEF Typed, TypeOK
  <2> HIDE DEF iRead
  <2>6. SourceStart' = SourceStart BY <2>1, SameGoal DEF SourceStart
  <2>7. Len(image') = SourceStart + offset' /\ iSourceSize' = offset'
    BY <2>2, <2>3, <2>4, <2>5
  <2>8. pc' = "adjust" => offset' = fileSize[source] BY <2>2, <2>3
  <2>9. pc' \in {"adjust", "copy"} BY <2>2
  <2> QED BY <2>1, <2>4, <2>6, <2>7, <2>8, <2>9 DEF Length
<1> QED BY <1>1, <1>2, <1>3

LEMMA FillImage ==
  Typed /\ ImageInv /\ (AdjustInSectorSize \/ FillByte \/ FillEnd) => ImageInv'
<1> SUFFICES ASSUME Typed, ImageInv, AdjustInSectorSize \/ FillByte \/ FillEnd
             PROVE  ImageInv'
  OBVIOUS
<1>1. /\ image \in Seq(Byte) /\ SourceStart \in Nat /\ source \in {"boot", "kernel"}
      /\ fill \in Nat
  BY SourceStartTyped DEF Typed, TypeOK
<1>2. /\ PaddedSize(source) \in Nat /\ fileSize[source] \in 0..PaddedSize(source)
      /\ PaddedSize("boot") \in Nat /\ PaddedSize("kernel") \in Nat
  BY <1>1, PaddedFacts DEF Typed
<1>3. CASE AdjustInSectorSize
  <2>1. /\ UNCHANGED <<fileSize, source, image, unnoticed>>
        /\ pc = "adjust" /\ pc' = "fill"
        /\ fill' = Padding(iSourceSize) /\ sectors' = Count(iSourceSize)
    BY <1>3 DEF AdjustInSectorSize, files
  <2>2. SUFFICES ASSUME unnoticed = {} PROVE Length' /\ Placed'
    BY <2>1 DEF ImageInv
  <2>3. /\ Placed /\ Len(image) = SourceStart + fileSize[source]
        /\ iSourceSize = fileSize[source]
    BY <2>1, <2>2 DEF ImageInv, Length, Building
  <2>4. SourceStart' = SourceStart /\ Placed'
    BY <2>1, <2>3, SameGoal DEF SourceStart, Placed
  <2>5. /\ Padding(fileSize[source]) \in Nat
        /\ fileSize[source] + Padding(fileSize[source]) = PaddedSize(source)
        /\ Count(fileSize[source]) = RoundUp(fileSize[source])
    BY <1>2, PaddingFacts, ImageAssumption DEF PaddedSize
  <2>6. Len(image) + fill' = SourceStart + PaddedSize(source)
    BY <1>1, <1>2, <2>1, <2>3, <2>5
  <2>7. PaddedSize(source)' = PaddedSize(source) BY <2>1 DEF PaddedSize
  <2>8. sectors' = RoundUp(fileSize[source]) BY <2>1, <2>3, <2>5
  <2>9. Len(image) >= SourceStart + fileSize[source] BY <1>1, <1>2, <2>3
  <2> QED BY <2>1, <2>4, <2>6, <2>7, <2>8, <2>9 DEF Length
<1>4. CASE FillByte
  <2>1. UNCHANGED <<fileSize, source, sectors>> /\ pc = "fill" /\ pc' = "fill"
    BY <1>4 DEF FillByte, files
  <2>2. SUFFICES ASSUME unnoticed' = {} PROVE Length' /\ Placed'
    BY <2>1 DEF ImageInv
  <2>3. /\ unnoticed = {} /\ fill > 0 /\ fill' = fill - 1
        /\ image' = Append(image, Zero)
    BY <1>4, <2>2 DEF FillByte
  <2>4. /\ Placed /\ Len(image) + fill = SourceStart + PaddedSize(source)
        /\ Len(image) >= SourceStart + fileSize[source]
        /\ sectors = RoundUp(fileSize[source])
    BY <2>1, <2>3 DEF ImageInv, Length, Building
  <2>5. Zero \in Byte /\ <<Zero>> \in Seq(Byte) /\ Len(<<Zero>>) = 1 /\ <<Zero>>[1] = Zero
    BY DEF Zero, Byte
  <2>6. image' = image \o <<Zero>> BY <1>1, <2>3, <2>5, AppendIsConcat
  <2>7. Len(image) \in Nat BY <1>1, LenProperties
  <2>8. PICK j \in Int : j = (Len(image) + 1) - SourceStart BY <1>1, <2>7
  <2>9. /\ j \in 1..PaddedSize(source) /\ ~(j <= fileSize[source])
        /\ SourceStart + j = Len(image) + 1
    BY <1>1, <1>2, <2>3, <2>4, <2>7, <2>8
  <2>10. PlainByte(Len(image) + 1) = Zero
    BY <2>9, PlainOfSource DEF Typed, PaddedByte
  <2>11. \A i \in 1..Len(<<Zero>>) : <<Zero>>[i] = PlainByte(Len(image) + i)
    <3>1. \A i \in 1..1 : i = 1 OBVIOUS
    <3> QED BY <3>1, <2>5, <2>10
  <2>12. Placed' /\ Len(image') = Len(image) + 1
    BY <1>1, <2>1, <2>4, <2>5, <2>6, <2>11, PlacedAdded
  <2>13. SourceStart' = SourceStart /\ PaddedSize(source)' = PaddedSize(source)
    BY <2>1, SameGoal DEF SourceStart, PaddedSize
  <2>14. /\ Len(image') + fill' = SourceStart + PaddedSize(source)
         /\ Len(image') >= SourceStart + fileSize[source]
    BY <1>1, <1>2, <2>3, <2>4, <2>7, <2>12
  <2>15. RoundUp(fileSize[source])' = RoundUp(fileSize[source]) BY <2>1 DEF RoundUp
  <2> QED BY <2>1, <2>4, <2>12, <2>13, <2>14, <2>15 DEF Length
<1>5. CASE FillEnd
  <2>1. /\ UNCHANGED <<fileSize, image, sectors, unnoticed>>
        /\ pc = "fill" /\ fill = 0 /\ source' = "kernel"
        /\ pc' = IF source = "boot" THEN "open" ELSE "information"
    BY <1>5 DEF FillEnd, files
  <2>2. SUFFICES ASSUME unnoticed = {} PROVE Length' /\ Placed'
    BY <2>1 DEF ImageInv
  <2>3. /\ Placed /\ Len(image) + fill = SourceStart + PaddedSize(source)
        /\ sectors = RoundUp(fileSize[source])
    BY <2>1, <2>2 DEF ImageInv, Length, Building
  <2>4. Len(image) = SourceStart + PaddedSize(source)
    <3>1. Len(image) \in Nat BY <1>1, LenProperties
    <3> QED BY <2>1, <2>3, <3>1
  <2>5. /\ PaddedSize("boot")' = PaddedSize("boot")
        /\ PaddedSize("kernel")' = PaddedSize("kernel")
        /\ Placed'
    BY <2>1, <2>3, SameGoal DEF PaddedSize, Placed
  <2>6. CASE source = "boot"
    <3>1. SourceStart = 0 /\ SourceStart' = PaddedSize("boot")
      BY <2>1, <2>5, <2>6 DEF SourceStart
    <3>2. Len(image') = SourceStart' BY <1>2, <2>1, <2>4, <2>6, <3>1
    <3> QED BY <2>1, <2>5, <2>6, <3>2 DEF Length
  <2>7. CASE source = "kernel"
    <3>1. SourceStart = PaddedSize("boot") BY <2>7 DEF SourceStart
    <3>2. Len(image') = PaddedSize("boot")' + PaddedSize("kernel")'
      BY <2>1, <2>4, <2>5, <2>7, <3>1
    <3>3. sectors' = RoundUp(fileSize["kernel"])' BY <2>1, <2>3, <2>7 DEF RoundUp
    <3> QED BY <2>1, <2>5, <2>7, <3>2, <3>3 DEF Length
  <2> QED BY <1>1, <2>6, <2>7
<1> QED BY <1>3, <1>4, <1>5

\* The two padded files, one behind the other, byte by byte.
LEMMA PlainFacts ==
  ASSUME TypeOK
  PROVE  LET plain == Padded("boot") \o Padded("kernel")
             n     == PaddedSize("boot") + PaddedSize("kernel")
         IN  Len(plain) = n /\ \A i \in 1..n : plain[i] = PlainByte(i)
<1> DEFINE plain == Padded("boot") \o Padded("kernel")
           n == PaddedSize("boot") + PaddedSize("kernel")
<1>1. PaddedSize("boot") \in Nat /\ PaddedSize("kernel") \in Nat BY PaddedFacts
<1>2. \A f \in {"boot", "kernel"} :
        Padded(f) = [i \in 1..PaddedSize(f) |-> PaddedByte(f, i)]
  BY DEF Padded, PaddedSize, PaddedByte
<1>3. PICK S : /\ \A i \in 1..PaddedSize("boot") : PaddedByte("boot", i) \in S
               /\ \A i \in 1..PaddedSize("kernel") : PaddedByte("kernel", i) \in S
  <2> DEFINE S == {PaddedByte("boot", i) : i \in 1..PaddedSize("boot")}
                    \cup {PaddedByte("kernel", i) : i \in 1..PaddedSize("kernel")}
  <2> WITNESS S
  <2> QED OBVIOUS
<1>4. /\ Padded("boot") \in Seq(S) /\ Len(Padded("boot")) = PaddedSize("boot")
      /\ Padded("kernel") \in Seq(S) /\ Len(Padded("kernel")) = PaddedSize("kernel")
  BY <1>1, <1>2, <1>3
<1>5. Len(plain) = n BY <1>4, ConcatProperties
<1>6. ASSUME NEW i \in 1..n PROVE plain[i] = PlainByte(i)
  <2>1. i \in 1..(Len(Padded("boot")) + Len(Padded("kernel"))) BY <1>4
  <2>2. plain[i] = IF i <= Len(Padded("boot")) THEN Padded("boot")[i]
                   ELSE Padded("kernel")[i - Len(Padded("boot"))]
    BY <1>4, <2>1, ConcatProperties
  <2>3. CASE i <= PaddedSize("boot")
    <3>1. i \in 1..PaddedSize("boot") BY <1>1, <2>1, <2>3
    <3> QED BY <1>2, <1>4, <2>2, <2>3, <3>1 DEF PlainByte
  <2>4. CASE ~(i <= PaddedSize("boot"))
    <3>1. i - PaddedSize("boot") \in 1..PaddedSize("kernel") BY <1>1, <1>4, <2>1, <2>4
    <3> QED BY <1>2, <1>4, <2>2, <2>4, <3>1 DEF PlainByte
  <2> QED BY <2>3, <2>4
<1> QED BY <1>5, <1>6

\* The last write, of the sector count, completes the image it should be.
LEMMA InformationImage ==
  Sensible /\ Typed /\ ImageInv /\ WriteKernelInformation /\ unnoticed = {}
    => image' = GoodImage'
<1> SUFFICES ASSUME Sensible, Typed, ImageInv, WriteKernelInformation, unnoticed = {}
             PROVE  image' = GoodImage'
  OBVIOUS
<1>1. UNCHANGED fileSize /\ pc = "information" BY DEF WriteKernelInformation, files
<1>2. /\ Placed /\ Len(image) = PaddedSize("boot") + PaddedSize("kernel")
      /\ sectors = RoundUp(fileSize["kernel"])
  BY <1>1 DEF ImageInv, Length, Building
<1>3. PaddedSize("boot") \in Nat /\ PaddedSize("kernel") \in Nat
  BY PaddedFacts DEF Typed
<1>4. HeaderEnd <= Len(image)
  <2>1. fileSize["boot"] \in Nat \ {0}
    BY ImageAssumption DEF Typed, TypeOK, Sensible
  <2>2. /\ RoundUp(fileSize["boot"]) \in Nat
        /\ fileSize["boot"] \in 0..PaddedSize("boot")
    BY PaddedFacts DEF Typed
  <2>3. PICK r \in Nat : r = RoundUp(fileSize["boot"]) BY <2>2
  <2>4. PaddedSize("boot") = BYTEOFSECTOR * r BY <2>3 DEF PaddedSize
  <2>5. r # 0 
    <3>1. SUFFICES ASSUME r = 0 PROVE FALSE OBVIOUS
    <3>2. PaddedSize("boot") = 0 BY <2>4, <3>1, ImageAssumption
    <3> QED BY <3>2, <2>1, <2>2
  <2>6. r - 1 \in Nat /\ r = 1 + (r - 1) BY <2>5
  <2>7. PICK e \in Nat : r = 1 + e BY <2>6
  <2>8. BYTEOFSECTOR * r = BYTEOFSECTOR + BYTEOFSECTOR * e /\ BYTEOFSECTOR * e \in Nat
    BY <2>7, ImageAssumption
  <2>9. HeaderEnd \in Nat /\ BYTEOFSECTOR \in Nat BY ImageAssumption DEF HeaderEnd
  <2> QED BY <1>2, <1>3, <2>4, <2>8, <2>9 DEF Sensible
<1> DEFINE n == Len(image)
           plain == Padded("boot") \o Padded("kernel")
           count == CountByte(RoundUp(fileSize["kernel"]) % WordSize)
<1>5. image' = [i \in 1..n |-> IF i - 1 \in HeaderOffset..(HeaderOffset + 1)
                                 THEN CountByte(UsData)
                                 ELSE IF i \in DOMAIN image THEN image[i] ELSE Zero]
  BY <1>4 DEF WriteKernelInformation
<1>6. CountByte(UsData) = count BY <1>2 DEF UsData
<1>7. DOMAIN image = 1..n BY LenProperties DEF Typed
<1>8. Len(plain) = n /\ \A i \in 1..n : plain[i] = PlainByte(i)
  BY <1>2, PlainFacts DEF Typed
<1>9. GoodImage' = GoodImage BY <1>1 DEF GoodImage, Padded, RoundUp
<1>10. GoodImage = [i \in 1..Len(plain) |->
                      IF i - 1 \in HeaderOffset..(HeaderOffset + 1) THEN count ELSE plain[i]]
  BY DEF GoodImage
<1> HIDE DEF n, plain, count
<1>11. \A i \in 1..n : image[i] = plain[i] BY <1>2, <1>8 DEF Placed, n
<1> QED BY <1>5, <1>6, <1>7, <1>8, <1>9, <1>10, <1>11

LEMMA NextImage ==
  Sensible /\ Typed /\ ImageInv /\ ImageExact /\ [Next]_vars => ImageInv' /\ ImageExact'
<1> SUFFICES ASSUME Sensible, Typed, ImageInv, ImageExact, [Next]_vars
             PROVE  ImageInv' /\ ImageExact'
  OBVIOUS
<1>1. CASE UNCHANGED vars
  <2>1. UNCHANGED <<pc, fileSize, source, offset, iSourceSize, fill, sectors, image, unnoticed>>
    BY <1>1 DEF vars, files
  <2>2. SourceStart' = SourceStart BY <2>1, SameGoal DEF SourceStart
  <2>3. ImageInv'
    BY <2>1, <2>2, SameGoal DEF ImageInv, Length, Placed, PaddedSize, RoundUp
  <2>4. GoodImage' = GoodImage BY <2>1 DEF GoodImage, Padded, RoundUp
  <2> QED BY <2>1, <2>3, <2>4 DEF ImageExact
<1>2. CASE OpenTarget \/ OpenSource
  BY <1>2, OpenImage DEF OpenTarget, OpenSource, ImageExact
<1>3. CASE CopySector \/ CopySectorReadFault \/ CopySectorWriteFault
  BY <1>3, CopyImage
     DEF CopySector, CopySectorReadFault, CopySectorWriteFault, ImageExact
<1>4. CASE AdjustInSectorSize \/ FillByte \/ FillEnd
  BY <1>4, FillImage DEF AdjustInSectorSize, FillByte, FillEnd, ImageExact
<1>5. CASE Exit BY <1>5 DEF Exit, ImageInv, ImageExact, Building
<1>6. CASE WriteKernelInformation
  BY <1>6, InformationImage DEF WriteKernelInformation, ImageInv, ImageExact, Building
<1>7. CASE WriteKernelInformationFault
  BY <1>7 DEF WriteKernelInformationFault, ImageInv, ImageExact, Building
<1> QED BY <1>1, <1>2, <1>3, <1>4, <1>5, <1>6, <1>7 DEF Next

\* For a boot file that is not empty, a program that returns 0 and lost no
\* unchecked call has written exactly the image that main() is to make.
THEOREM ImageExactHolds == ASSUME Sensible PROVE Spec => []ImageExact
<1>1. Init => Typed /\ ImageInv /\ ImageExact
  BY InitTyped, InitImage DEF Init, ImageExact
<1>2. Typed /\ ImageInv /\ ImageExact /\ [Next]_vars => (Typed /\ ImageInv /\ ImageExact)'
  BY NextTyped, NextImage
<1> QED BY <1>1, <1>2, PTL DEF Spec

-----------------------------------------------------------------------------
(***************************************************************************)
(* The image in the drive: the theorems about BuildAndBoot.                *)
(***************************************************************************)
\* The header does not reach the signature, there is a boot file, and the word
\* can hold the count the boot file carries.
HeaderFits ==
  /\ HeaderEnd < BYTEOFSECTOR
  /\ 0 \notin BootSizes
  /\ BuiltInCount < WordSize

\* a beginning of the image that is to be made
Partial == Placed /\ Len(image) <= PaddedSize("boot") + PaddedSize("kernel")

\* The image when the program has ended and no failure it missed but that of
\* the count's write has hurt it.
Outcome ==
  /\ "count" \in unnoticed => pc = "done" /\ ~HasCount
  /\ pc = "failed" /\ unnoticed = {} => image = OldImage \/ Partial
  /\ pc = "done" /\ unnoticed = {"count"} => Partial

BuildInv == Typed /\ CountInv /\ ImageInv /\ ImageExact /\ Outcome

\* what the bytes of a sector the drive delivers may be
Delivered == Byte \cup {Void}

\* The boot sector has loaded the sectors behind itself, one after the other.
BootInv ==
  /\ BootTypeOK
  /\ loaded \in Seq(Delivered)
  /\ stage # "build" => image # OldImage
  /\ stage \in {"build", "BIOS", "no boot"} => next = 0
  /\ stage \in {"READDATA", "HANDLEDISKERROR", "KERNEL"} => Signed
  /\ stage = "no boot" => ~Signed
  /\ stage = "KERNEL" => di = 0
  /\ \A i \in 1..Len(loaded) : loaded[i] = OnDisk(BYTEOFSECTOR + i)

-----------------------------------------------------------------------------
LEMMA FitsSensible == HeaderFits => Sensible
BY ImageAssumption DEF HeaderFits, Sensible, HeaderEnd

\* While the image is built without a failure, it is a beginning of the whole.
LEMMA BuildingPartial ==
  Typed /\ ImageInv /\ pc \in Building /\ unnoticed = {} => Partial
<1> SUFFICES ASSUME Typed, ImageInv, pc \in Building, unnoticed = {} PROVE Partial
  OBVIOUS
<1>1. /\ source \in {"boot", "kernel"} /\ fill \in Nat
      /\ SourceStart \in Nat /\ Len(image) \in Nat
  BY SourceStartTyped, LenProperties DEF Typed, TypeOK
<1>2. /\ PaddedSize(source) \in Nat /\ fileSize[source] \in 0..PaddedSize(source)
      /\ PaddedSize("boot") \in Nat /\ PaddedSize("kernel") \in Nat
  BY <1>1, PaddedFacts DEF Typed
<1>3. SourceStart + PaddedSize(source) <= PaddedSize("boot") + PaddedSize("kernel")
  BY <1>1, <1>2 DEF SourceStart
<1>4. Length /\ Placed BY DEF ImageInv
<1>5. CASE pc = "open" BY <1>1, <1>2, <1>3, <1>4, <1>5 DEF Partial, Length
<1>6. CASE pc = "copy"
  <2>1. offset \in 0..fileSize[source] BY <1>6 DEF Typed, TypeOK
  <2> QED BY <2>1, <1>1, <1>2, <1>3, <1>4, <1>6 DEF Partial, Length
<1>7. CASE pc = "adjust" BY <1>1, <1>2, <1>3, <1>4, <1>7 DEF Partial, Length
<1>8. CASE pc = "fill" BY <1>1, <1>2, <1>3, <1>4, <1>8 DEF Partial, Length
<1>9. CASE pc = "information" BY <1>1, <1>2, <1>3, <1>4, <1>9 DEF Partial, Length
<1> QED BY <1>5, <1>6, <1>7, <1>8, <1>9 DEF Building

\* A sector that was read but not all written is a beginning too.
LEMMA CopyPartial ==
  Typed /\ ImageInv /\ CopySector /\ unnoticed = {} => Partial'
<1> SUFFICES ASSUME Typed, ImageInv, CopySector, unnoticed = {} PROVE Partial'
  OBVIOUS
<1> DEFINE iRead == Smaller(BYTEOFSECTOR, fileSize[source] - offset)
           n == Len(Bytes(source, offset, Written(iRead)))
<1>1. /\ iRead \in Nat /\ n \in Nat /\ n <= iRead
      /\ offset + iRead \in 0..fileSize[source]
  <2>1. /\ iRead \in 0..BYTEOFSECTOR /\ offset + iRead \in 0..fileSize[source]
        /\ Written(iRead) \in {-1} \cup (0..iRead)
        /\ n = (IF Written(iRead) = -1 THEN 0 ELSE Written(iRead))
    BY CopyFacts
  <2> HIDE DEF iRead, n
  <2> QED BY <2>1, ImageAssumption
<1>2. /\ Placed' /\ Len(image) = SourceStart + offset /\ Len(image') = Len(image) + n
  BY CopyAdds
<1>3. UNCHANGED fileSize BY DEF CopySector, files
<1>4. /\ source \in {"boot", "kernel"} /\ SourceStart \in Nat /\ offset \in Nat
  BY SourceStartTyped DEF Typed, TypeOK
<1>5. /\ PaddedSize(source) \in Nat /\ fileSize[source] \in 0..PaddedSize(source)
      /\ PaddedSize("boot") \in Nat /\ PaddedSize("kernel") \in Nat
  BY <1>4, PaddedFacts DEF Typed
<1>6. SourceStart + PaddedSize(source) <= PaddedSize("boot") + PaddedSize("kernel")
  BY <1>4, <1>5 DEF SourceStart
<1> HIDE DEF iRead, n
<1>7. Len(image') <= PaddedSize("boot") + PaddedSize("kernel")
  BY <1>1, <1>2, <1>4, <1>5, <1>6
<1>8. /\ PaddedSize("boot")' = PaddedSize("boot")
      /\ PaddedSize("kernel")' = PaddedSize("kernel")
  BY <1>3 DEF PaddedSize
<1> QED BY <1>2, <1>7, <1>8 DEF Partial

LEMMA InitBuild == Init => BuildInv
<1>1. Init => ImageExact /\ Outcome BY DEF Init, ImageExact, Outcome
<1> QED BY <1>1, InitTyped, InitCount, InitImage DEF BuildInv

LEMMA SamePartial == UNCHANGED <<fileSize, image>> => (Partial => Partial')
<1> SUFFICES ASSUME UNCHANGED <<fileSize, image>>, Partial PROVE Partial'
  OBVIOUS
<1> QED BY SameGoal DEF Partial, Placed, PaddedSize

\* Nothing runs after the end of the program.
LEMMA NextBuilding == Next => pc \in Building \cup {"main"}
BY DEF Next, Exit, OpenTarget, OpenSource, CopySector, CopySectorReadFault,
       CopySectorWriteFault, AdjustInSectorSize, FillByte, FillEnd,
       WriteKernelInformation, WriteKernelInformationFault, Building

LEMMA NextOutcome == BuildInv /\ Next => Outcome'
<1> SUFFICES ASSUME BuildInv, Next PROVE Outcome'
  OBVIOUS
<1> USE DEF BuildInv
<1>1. pc \in Building \cup {"main"} BY NextBuilding
<1>2. "count" \notin unnoticed BY <1>1 DEF Outcome, Building
<1>3. pc = "main" => image = OldImage BY DEF CountInv
<1>4. CASE Exit
  <2>1. CASE pc = "main" BY <1>2, <1>3, <1>4, <2>1 DEF Exit, Outcome
  <2>2. CASE pc \in Building
    <3>1. unnoticed = {} => Partial BY <2>2, BuildingPartial
    <3> QED BY <1>2, <1>4, <3>1, SamePartial DEF Exit, Outcome, files
  <2> QED BY <1>1, <2>1, <2>2
<1>5. CASE CopySector BY <1>2, <1>5, CopyPartial DEF CopySector, Outcome
<1>6. CASE CopySectorWriteFault
  <2>1. unnoticed = {} => Partial BY <1>6, BuildingPartial DEF CopySectorWriteFault, Building
  <2> QED BY <1>2, <1>6, <2>1, SamePartial DEF CopySectorWriteFault, Outcome, files
<1>7. CASE WriteKernelInformationFault
  <2>1. unnoticed = {} => Partial
    BY <1>7, BuildingPartial DEF WriteKernelInformationFault, Building
  <2>2. ~HasCount BY <1>7 DEF WriteKernelInformationFault, CountInv, Building
  <2>3. unnoticed' = {"count"} => unnoticed = {}
    BY <1>2, <1>7 DEF WriteKernelInformationFault
  <2>4. UNCHANGED <<fileSize, image>> /\ pc' = "done" /\ unnoticed' # {}
    BY <1>7 DEF WriteKernelInformationFault, files
  <2> QED BY <2>1, <2>2, <2>3, <2>4, SamePartial DEF Outcome, HasCount
<1>8. CASE WriteKernelInformation
  BY <1>2, <1>8 DEF WriteKernelInformation, Outcome
<1>9. CASE OpenTarget \/ OpenSource \/ CopySectorReadFault \/ AdjustInSectorSize
             \/ FillByte \/ FillEnd
  <2>1. "count" \notin unnoticed'
    BY <1>2, <1>9 DEF OpenTarget, OpenSource, CopySectorReadFault,
                      AdjustInSectorSize, FillByte, FillEnd
  <2>2. pc' \notin {"done", "failed"}
    BY <1>9 DEF OpenTarget, OpenSource, CopySectorReadFault, AdjustInSectorSize,
                FillByte, FillEnd
  <2> QED BY <2>1, <2>2 DEF Outcome
<1> QED BY <1>4, <1>5, <1>6, <1>7, <1>8, <1>9 DEF Next

LEMMA NextBuild == HeaderFits /\ BuildInv /\ [Next]_vars => BuildInv'
<1> SUFFICES ASSUME HeaderFits, BuildInv, [Next]_vars PROVE BuildInv'
  OBVIOUS
<1>1. Typed' /\ CountInv' /\ ImageInv' /\ ImageExact'
  BY FitsSensible, NextTyped, NextCount, NextImage DEF BuildInv
<1>2. CASE UNCHANGED vars
  <2>1. UNCHANGED <<pc, fileSize, image, unnoticed>> BY <1>2 DEF vars, files
  <2>2. Outcome' BY <2>1, SamePartial DEF BuildInv, Outcome, HasCount
  <2> QED BY <1>1, <2>2 DEF BuildInv
<1> QED BY <1>1, <1>2, NextOutcome DEF BuildInv

-----------------------------------------------------------------------------
LEMMA DeliveredTyped ==
  ASSUME image \in Seq(Byte), NEW n \in Nat \ {0}
  PROVE  OnDisk(n) \in Delivered
<1>1. DOMAIN image = 1..Len(image) /\ Len(image) \in Nat BY LenProperties
<1>2. n <= Len(image) => image[n] \in Byte BY <1>1
<1> QED BY <1>2 DEF OnDisk, Delivered

LEMMA SectorFacts ==
  ASSUME image \in Seq(Byte), NEW k \in Nat
  PROVE  /\ Sector(k) \in Seq(Delivered) /\ Len(Sector(k)) = BYTEOFSECTOR
         /\ \A i \in 1..BYTEOFSECTOR : Sector(k)[i] = OnDisk(BYTEOFSECTOR * k + i)
<1> DEFINE b == BYTEOFSECTOR
<1>1. b \in Nat \ {0} /\ b * k \in Nat BY ImageAssumption
<1>2. Sector(k) = [i \in 1..b |-> OnDisk(b * k + i)] BY DEF Sector
<1> HIDE DEF b
<1>3. ASSUME NEW i \in 1..b PROVE OnDisk(b * k + i) \in Delivered
  <2>1. b * k + i \in Nat \ {0} BY <1>1
  <2> QED BY <2>1, DeliveredTyped
<1>4. Sector(k) \in [1..b -> Delivered] BY <1>2, <1>3
<1>5. Sector(k) \in Seq(Delivered) BY <1>1, <1>4, SeqDef
<1>6. Len(Sector(k)) = b BY <1>1, <1>4, <1>5, LenProperties
<1> QED BY <1>2, <1>5, <1>6 DEF b

\* A signed image has a whole first sector, and so a header.
LEMMA SignedFacts ==
  ASSUME HeaderFits, image \in Seq(Byte), Signed
  PROVE  /\ HeaderOffset + 1 \in DOMAIN image
         /\ TotalSectorCount \in 0..(WordSize - 1)
<1>1. BYTEOFSECTOR <= Len(image)
  BY DEF Signed, OnDisk, Void, FileByte
<1>2. HeaderOffset + 1 \in DOMAIN image
  <2>1. DOMAIN image = 1..Len(image) /\ Len(image) \in Nat BY LenProperties
  <2> QED BY <1>1, <2>1, ImageAssumption DEF HeaderFits, HeaderEnd
<1>3. image[HeaderOffset + 1] \in Byte BY <1>2
<1>4. IsCount(image[HeaderOffset + 1]) => image[HeaderOffset + 1][2] \in 0..(WordSize - 1)
  BY <1>3 DEF Byte, IsCount
<1>5. 2 \in 0..(WordSize - 1) BY ImageAssumption DEF HeaderFits, BuiltInCount
<1> QED BY <1>2, <1>4, <1>5 DEF TotalSectorCount, BuiltInCount

LEMMA InitBoot == BootInit => BootInv
<1> SUFFICES ASSUME BootInit PROVE BootInv
  OBVIOUS
<1>1. TypeOK BY InitTyped DEF BootInit, Typed
<1>2. /\ loaded = << >> /\ Len(loaded) = 0 /\ loaded \in Seq(Byte)
      /\ next = 0 /\ di = 0 /\ stage = "build"
  BY DEF BootInit
<1>3. BYTEOFSECTOR * 0 = 0 /\ 0 \in 0..(WordSize - 1) BY ImageAssumption
<1> QED BY <1>1, <1>2, <1>3 DEF BootInv, BootTypeOK

\* What a step of the machine alone leaves as it is.
LEMMA SameImage ==
  ASSUME UNCHANGED vars
  PROVE  /\ UNCHANGED <<pc, image, fileSize, unnoticed>>
         /\ (Signed' <=> Signed) /\ TotalSectorCount' = TotalSectorCount
         /\ \A n : OnDisk(n)' = OnDisk(n)
BY DEF vars, files, Signed, TotalSectorCount, OnDisk

LEMMA ReadBoot ==
  HeaderFits /\ Typed /\ BootInv /\ ReadSector => BootInv'
<1> SUFFICES ASSUME HeaderFits, Typed, BootInv, ReadSector PROVE BootInv'
  OBVIOUS
<1>1. UNCHANGED vars /\ stage = "READDATA" /\ stage' = "READDATA" BY DEF ReadSector
<1>2. TypeOK' BY <1>1, NextTyped DEF Typed
<1>3. /\ next \in Nat /\ di \in 0..(WordSize - 1) /\ Len(loaded) = BYTEOFSECTOR * next
      /\ loaded \in Seq(Delivered) /\ next + di = TotalSectorCount /\ Signed
      /\ image # OldImage /\ \A i \in 1..Len(loaded) : loaded[i] = OnDisk(BYTEOFSECTOR + i)
      /\ pc \in {"done", "failed"}
  BY <1>1 DEF BootInv, BootTypeOK
<1>4. /\ di > 0 /\ di' = di - 1 /\ next' = next + 1
      /\ loaded' = loaded \o Sector(next + 1)
  BY DEF ReadSector
<1>5. /\ Sector(next + 1) \in Seq(Delivered) /\ Len(Sector(next + 1)) = BYTEOFSECTOR
      /\ \A i \in 1..BYTEOFSECTOR :
           Sector(next + 1)[i] = OnDisk((BYTEOFSECTOR * (next + 1)) + i)
  BY <1>3, <1>4, SectorFacts DEF Typed
<1>6. PICK m \in Nat : m = BYTEOFSECTOR * next BY <1>3, ImageAssumption
<1>7. /\ BYTEOFSECTOR \in Nat /\ BYTEOFSECTOR * (next + 1) = m + BYTEOFSECTOR
  BY <1>3, <1>6, ImageAssumption
<1>8. /\ loaded' \in Seq(Delivered) /\ Len(loaded') = m + BYTEOFSECTOR
      /\ \A i \in 1..(m + BYTEOFSECTOR) :
           loaded'[i] = IF i <= m THEN loaded[i] ELSE Sector(next + 1)[i - m]
  <2> DEFINE s == Sector(next + 1)
  <2>1. s \in Seq(Delivered) /\ Len(s) = BYTEOFSECTOR BY <1>5
  <2>2. loaded \in Seq(Delivered) /\ Len(loaded) = m /\ loaded' = loaded \o s
    BY <1>3, <1>4, <1>6
  <2> HIDE DEF s
  <2>3. /\ loaded \o s \in Seq(Delivered) /\ Len(loaded \o s) = m + BYTEOFSECTOR
        /\ \A i \in 1..(m + BYTEOFSECTOR) :
             (loaded \o s)[i] = IF i <= m THEN loaded[i] ELSE s[i - m]
    BY <2>1, <2>2, ConcatProperties
  <2> QED BY <2>2, <2>3 DEF s
<1>9. ASSUME NEW i \in 1..(m + BYTEOFSECTOR)
      PROVE  loaded'[i] = OnDisk(BYTEOFSECTOR + i)
  <2>1. CASE i <= m
    <3>1. i \in 1..Len(loaded) BY <1>3, <1>6, <2>1
    <3> QED BY <1>3, <1>8, <2>1, <3>1
  <2>2. CASE ~(i <= m)
    <3>1. /\ i - m \in 1..BYTEOFSECTOR
          /\ (m + BYTEOFSECTOR) + (i - m) = BYTEOFSECTOR + i
      BY <1>7, <2>2
    <3> QED BY <1>5, <1>7, <1>8, <2>2, <3>1
  <2> QED BY <2>1, <2>2
<1>10. /\ next' \in Nat /\ di' \in 0..(WordSize - 1) /\ next' + di' = next + di
  BY <1>3, <1>4, ImageAssumption
<1>11. UNCHANGED <<pc, image>> /\ Signed' /\ TotalSectorCount' = TotalSectorCount
       /\ \A n : OnDisk(n)' = OnDisk(n)
  BY <1>1, <1>3, SameImage
<1>12. Len(loaded') = BYTEOFSECTOR * next' BY <1>4, <1>7, <1>8
<1>13. BootTypeOK' BY <1>1, <1>2, <1>3, <1>10, <1>11, <1>12 DEF BootTypeOK
<1>14. \A i \in 1..Len(loaded') : loaded'[i] = OnDisk(BYTEOFSECTOR + i)'
  BY <1>8, <1>9, <1>11
<1> QED BY <1>1, <1>3, <1>8, <1>11, <1>13, <1>14 DEF BootInv

LEMMA NextBoot ==
  HeaderFits /\ BuildInv /\ BootInv /\ [BootNext]_<<vars, machine>> => BootInv'
<1> SUFFICES ASSUME HeaderFits, BuildInv, BootInv, [BootNext]_<<vars, machine>>
             PROVE  BootInv'
  OBVIOUS
<1>1. CASE Build
  <2>1. TypeOK' BY <1>1, NextBuild DEF Build, BuildInv, Typed
  <2>2. stage = "build" /\ UNCHANGED <<stage, di, next, loaded>>
    BY <1>1 DEF Build, machine
  <2>3. next = 0 /\ Len(loaded) = BYTEOFSECTOR * next BY <2>2 DEF BootInv, BootTypeOK
  <2>4. Len(loaded) = 0 BY <2>3, ImageAssumption
  <2> QED BY <2>1, <2>2, <2>3, <2>4 DEF BootInv, BootTypeOK
<1>2. ASSUME UNCHANGED vars
      PROVE  /\ TypeOK' /\ UNCHANGED <<pc, image>>
             /\ (Signed' <=> Signed) /\ TotalSectorCount' = TotalSectorCount
             /\ \A n : OnDisk(n)' = OnDisk(n)
  <2>1. TypeOK' BY <1>2, NextTyped DEF BuildInv, Typed
  <2> QED BY <1>2, <2>1, SameImage
<1>3. CASE Insert
  <2>1. /\ UNCHANGED vars /\ UNCHANGED <<di, next, loaded>>
        /\ stage = "build" /\ stage' = "BIOS"
        /\ pc \in {"done", "failed"} /\ image # OldImage
    BY <1>3 DEF Insert
  <2>2. BootTypeOK' BY <1>2, <2>1 DEF BootInv, BootTypeOK
  <2>3. next' = 0 BY <2>1 DEF BootInv
  <2>4. image' # OldImage BY <1>2, <2>1
  <2> QED BY <1>2, <2>1, <2>2, <2>3, <2>4 DEF BootInv
<1>4. CASE LoadBootSector
  <2>1. UNCHANGED vars /\ UNCHANGED <<next, loaded>> /\ stage = "BIOS"
    BY <1>4 DEF LoadBootSector
  <2>2. next = 0 BY <2>1 DEF BootInv
  <2>3. CASE Signed
    <3>1. stage' = "READDATA" /\ di' = TotalSectorCount
      BY <1>4, <2>3 DEF LoadBootSector
    <3>2. TotalSectorCount \in 0..(WordSize - 1) BY <2>3, SignedFacts DEF BuildInv, Typed
    <3>3. next' + di' = TotalSectorCount BY <2>1, <2>2, <3>1, <3>2
    <3> QED BY <1>2, <2>1, <2>3, <3>1, <3>2, <3>3 DEF BootInv, BootTypeOK
  <2>4. CASE ~Signed
    <3>1. stage' = "no boot" /\ UNCHANGED di BY <1>4, <2>4 DEF LoadBootSector
    <3>2. BootTypeOK' BY <1>2, <2>1, <3>1 DEF BootInv, BootTypeOK
    <3>3. ~Signed' BY <1>2, <2>1, <2>4
    <3> QED BY <1>2, <2>1, <2>2, <3>1, <3>2, <3>3 DEF BootInv
  <2> QED BY <2>3, <2>4
<1>5. CASE ReadSector BY <1>5, ReadBoot DEF BuildInv
<1>6. CASE ReadFails
  <2>1. UNCHANGED vars /\ UNCHANGED <<di, next, loaded>> BY <1>6 DEF ReadFails
  <2> QED BY <1>2, <1>6, <2>1 DEF ReadFails, BootInv, BootTypeOK
<1>7. CASE StartImage
  <2>1. UNCHANGED vars /\ UNCHANGED <<di, next, loaded>> BY <1>7 DEF StartImage
  <2> QED BY <1>2, <1>7, <2>1 DEF StartImage, BootInv, BootTypeOK
<1>8. CASE UNCHANGED <<vars, machine>>
  <2>1. UNCHANGED vars /\ UNCHANGED <<stage, di, next, loaded>> BY <1>8 DEF machine
  <2>2. BootTypeOK' BY <1>2, <2>1 DEF BootInv, BootTypeOK
  <2>3. /\ stage \in {"READDATA", "HANDLEDISKERROR", "KERNEL"} => Signed'
        /\ stage = "no boot" => ~Signed'
    BY <1>2, <2>1 DEF BootInv
  <2> QED BY <1>2, <2>1, <2>2, <2>3 DEF BootInv
<1> QED BY <1>1, <1>3, <1>4, <1>5, <1>6, <1>7, <1>8 DEF BootNext

\* Only Build touches what ImageMaker has to do with.
LEMMA NextIsBuild == [BootNext]_<<vars, machine>> => [Next]_vars
BY DEF BootNext, Build, Insert, LoadBootSector, ReadSector, ReadFails, StartImage

-----------------------------------------------------------------------------
\* With one boot sector and a count that is a word.
LEMMA FitsFacts ==
  ASSUME HeaderFits, TypeOK, Fits
  PROVE  /\ PaddedSize("boot") = BYTEOFSECTOR
         /\ RoundUp(fileSize["kernel"]) \in 0..(WordSize - 1)
         /\ RoundUp(fileSize["kernel"]) % WordSize = RoundUp(fileSize["kernel"])
         /\ PaddedSize("kernel") \in Nat
<1>1. BYTEOFSECTOR \in Nat \ {0} /\ BYTEOFSECTOR - 1 \in 0..(BYTEOFSECTOR - 1)
      /\ WordSize \in Nat \ {0}
  BY ImageAssumption
<1>2. (BYTEOFSECTOR * 1 + (BYTEOFSECTOR - 1)) \div BYTEOFSECTOR = 1 BY <1>1, DivUnique
<1>3. RoundUp(BYTEOFSECTOR) = 1 BY <1>1, <1>2 DEF RoundUp
<1>4. PaddedSize("boot") = BYTEOFSECTOR BY <1>1, <1>3 DEF PaddedSize, Fits
<1>5. RoundUp(fileSize["kernel"]) \in 0..(WordSize - 1)
  BY <1>1, PaddedFacts DEF Fits
<1> DEFINE r == RoundUp(fileSize["kernel"])
<1> HIDE DEF r
<1>6. (WordSize * 0 + r) % WordSize = r BY <1>1, <1>5, DivUnique DEF r
<1>7. r % WordSize = r
  <2>1. WordSize * 0 + r = r BY <1>1, <1>5 DEF r
  <2> QED BY <1>6, <2>1
<1> QED BY <1>4, <1>5, <1>7, PaddedFacts DEF r

\* The bytes of the good image: the signature and the kernel are in place, and
\* the count is the kernel's.
LEMMA GoodFacts ==
  ASSUME HeaderFits, TypeOK, Fits, image = GoodImage
  PROVE  /\ Len(image) = BYTEOFSECTOR + PaddedSize("kernel")
         /\ Signed /\ TotalSectorCount = RoundUp(fileSize["kernel"])
         /\ \A i \in 1..PaddedSize("kernel") :
              image[BYTEOFSECTOR + i] = PaddedByte("kernel", i)
<1> DEFINE plain == Padded("boot") \o Padded("kernel")
           count == CountByte(RoundUp(fileSize["kernel"]) % WordSize)
           n == BYTEOFSECTOR + PaddedSize("kernel")
<1>1. /\ PaddedSize("boot") = BYTEOFSECTOR /\ PaddedSize("kernel") \in Nat
      /\ RoundUp(fileSize["kernel"]) % WordSize = RoundUp(fileSize["kernel"])
  BY FitsFacts
<1>2. Len(plain) = n /\ \A i \in 1..n : plain[i] = PlainByte(i)
  BY <1>1, PlainFacts
<1>3. image = [i \in 1..n |-> IF i - 1 \in HeaderOffset..(HeaderOffset + 1)
                                THEN count ELSE plain[i]]
  BY <1>2 DEF GoodImage
<1>4. /\ BYTEOFSECTOR \in Nat /\ HeaderOffset \in Nat /\ n \in Nat
      /\ HeaderOffset + 2 < BYTEOFSECTOR
  BY <1>1, ImageAssumption DEF HeaderFits, HeaderEnd
<1> HIDE DEF plain, count, n
<1>5. Len(image) = n BY <1>3, <1>4
<1>6. \A i \in 1..n : i >= BYTEOFSECTOR => image[i] = PlainByte(i)
  <2>1. TAKE i \in 1..n
  <2>2. HAVE i >= BYTEOFSECTOR
  <2>3. i - 1 \notin HeaderOffset..(HeaderOffset + 1) BY <1>4, <2>2
  <2> QED BY <1>2, <1>3, <2>3
<1>7. HeaderOffset + 1 \in 1..n /\ BYTEOFSECTOR \in 1..n BY <1>1, <1>4 DEF n
<1>8. Signed
  <2>1. BYTEOFSECTOR <= Len(image) BY <1>5, <1>7
  <2>2. image[BYTEOFSECTOR] = PlainByte(BYTEOFSECTOR) BY <1>4, <1>6, <1>7
  <2>3. PlainByte(BYTEOFSECTOR) = FileByte("boot", BYTEOFSECTOR)
    BY <1>1, <1>4 DEF PlainByte, PaddedByte, Fits
  <2> QED BY <2>1, <2>2, <2>3 DEF Signed, OnDisk
<1>9. TotalSectorCount = RoundUp(fileSize["kernel"])
  <2>1. (HeaderOffset + 1) - 1 \in HeaderOffset..(HeaderOffset + 1) BY <1>4
  <2>2. image[HeaderOffset + 1] = count BY <1>3, <1>7, <2>1
  <2> QED BY <1>1, <2>2 DEF TotalSectorCount, CountByte, IsCount, count
<1>10. ASSUME NEW i \in 1..PaddedSize("kernel")
       PROVE  image[BYTEOFSECTOR + i] = PaddedByte("kernel", i)
  <2>1. /\ BYTEOFSECTOR + i \in 1..n /\ BYTEOFSECTOR + i >= BYTEOFSECTOR
        /\ ~(BYTEOFSECTOR + i <= BYTEOFSECTOR) /\ (BYTEOFSECTOR + i) - BYTEOFSECTOR = i
    BY <1>1, <1>4 DEF n
  <2>2. image[BYTEOFSECTOR + i] = PlainByte(BYTEOFSECTOR + i) BY <1>6, <2>1
  <2> QED BY <1>1, <2>1, <2>2 DEF PlainByte
<1> QED BY <1>5, <1>8, <1>9, <1>10 DEF n

LEMMA FinishedBoots ==
  HeaderFits /\ BuildInv /\ BootInv => FinishedImageBoots
<1> SUFFICES ASSUME HeaderFits, BuildInv, BootInv, pc = "done", unnoticed = {}, Fits
             PROVE  /\ stage # "no boot"
                    /\ stage = "READDATA" /\ di > 0 => WithinImage(next + 1)
                    /\ stage = "KERNEL" => loaded = Padded("kernel")
  BY DEF FinishedImageBoots
<1> DEFINE r == RoundUp(fileSize["kernel"])
<1>1. TypeOK /\ image = GoodImage BY DEF BuildInv, Typed, ImageExact
<1>2. /\ Len(image) = BYTEOFSECTOR + PaddedSize("kernel") /\ Signed
      /\ TotalSectorCount = r
      /\ \A i \in 1..PaddedSize("kernel") : image[BYTEOFSECTOR + i] = PaddedByte("kernel", i)
  BY <1>1, GoodFacts
<1>3. r \in Nat /\ PaddedSize("kernel") = BYTEOFSECTOR * r /\ BYTEOFSECTOR \in Nat \ {0}
  BY <1>1, FitsFacts, ImageAssumption DEF PaddedSize
<1>4. next \in Nat /\ di \in Nat /\ Len(loaded) = BYTEOFSECTOR * next
  <2>1. /\ next \in Nat /\ di \in 0..(WordSize - 1)
        /\ Len(loaded) = BYTEOFSECTOR * next
    BY DEF BootInv, BootTypeOK
  <2> QED BY <2>1, ImageAssumption
<1> HIDE DEF r
<1>5. stage # "no boot" BY <1>2 DEF BootInv
<1>6. ASSUME stage = "READDATA", di > 0 PROVE WithinImage(next + 1)
  <2>1. next + di = r /\ di > 0
    BY <1>2, <1>6 DEF BootInv, BootTypeOK
  <2>2. r - (next + 1) \in Nat /\ r = (next + 1) + (r - (next + 1)) BY <1>3, <1>4, <2>1
  <2>3. PICK e \in Nat : r = (next + 1) + e BY <2>2
  <2>4. BYTEOFSECTOR * r = BYTEOFSECTOR * (next + 1) + BYTEOFSECTOR * e
        /\ BYTEOFSECTOR * e \in Nat
        /\ BYTEOFSECTOR * ((next + 1) + 1) = BYTEOFSECTOR * (next + 1) + BYTEOFSECTOR
        /\ BYTEOFSECTOR * (next + 1) \in Nat
    BY <1>3, <1>4, <2>3
  <2>5. BYTEOFSECTOR * ((next + 1) + 1) <= Len(image) BY <1>2, <1>3, <2>4
  <2> QED BY <2>5 DEF WithinImage
<1>7. ASSUME stage = "KERNEL" PROVE loaded = Padded("kernel")
  <2>1. next + di = r /\ di = 0 BY <1>2, <1>7 DEF BootInv, BootTypeOK
  <2>2. next = r BY <1>3, <1>4, <2>1
  <2>3. Len(loaded) = PaddedSize("kernel") BY <1>3, <1>4, <2>2
  <2>4. ASSUME NEW i \in 1..Len(loaded) PROVE loaded[i] = PaddedByte("kernel", i)
    <3>1. i \in 1..PaddedSize("kernel") /\ BYTEOFSECTOR + i <= Len(image)
      BY <1>2, <1>3, <2>3
    <3> QED BY <1>2, <3>1 DEF BootInv, OnDisk
  <2>5. loaded = [i \in 1..Len(loaded) |-> loaded[i]] BY LenProperties DEF BootInv
  <2>6. Padded("kernel") = [i \in 1..PaddedSize("kernel") |-> PaddedByte("kernel", i)]
    BY DEF Padded, PaddedSize, PaddedByte
  <2> QED BY <2>3, <2>4, <2>5, <2>6
<1> QED BY <1>5, <1>6, <1>7

LEMMA UncountedShort ==
  HeaderFits /\ BuildInv /\ BootInv => UncountedImageShort
<1> DEFINE K == Padded("kernel")
<1> SUFFICES ASSUME HeaderFits, BuildInv, BootInv, stage = "KERNEL", Fits,
                    pc = "failed" \/ "count" \in unnoticed, unnoticed \subseteq {"count"}
             PROVE  /\ Len(loaded) = BuiltInCount * BYTEOFSECTOR
                    /\ \A i \in DOMAIN loaded :
                         IF BYTEOFSECTOR + i > Len(image)
                           THEN loaded[i] = Void
                           ELSE i \in DOMAIN K /\ loaded[i] = K[i]
  BY DEF UncountedImageShort
<1> DEFINE size == PaddedSize("kernel")
<1>1. TypeOK /\ image \in Seq(Byte) /\ image # OldImage BY DEF BuildInv, Typed, BootInv
<1>2. Partial /\ ~HasCount
  <2>1. CASE "count" \in unnoticed
    <3>1. unnoticed = {"count"} BY <2>1
    <3> QED BY <3>1 DEF BuildInv, Outcome
  <2>2. CASE "count" \notin unnoticed
    <3>1. unnoticed = {} /\ pc = "failed" BY <2>2
    <3> QED BY <1>1, <3>1 DEF BuildInv, Outcome, CountInv
  <2> QED BY <2>1, <2>2
<1>3. Signed /\ di = 0 /\ next + di = TotalSectorCount /\ next \in Nat
  BY DEF BootInv, BootTypeOK
<1>4. TotalSectorCount = 2
  <2>1. HeaderOffset + 1 \in DOMAIN image BY <1>1, <1>3, SignedFacts
  <2> QED BY <1>2, <2>1 DEF HasCount, TotalSectorCount, BuiltInCount
<1>5. next = 2 BY <1>3, <1>4
<1>6. /\ BYTEOFSECTOR \in Nat /\ size \in Nat /\ PaddedSize("boot") = BYTEOFSECTOR
  BY <1>1, FitsFacts, ImageAssumption
<1>7. Len(loaded) = 2 * BYTEOFSECTOR
  <2>1. Len(loaded) = BYTEOFSECTOR * 2 BY <1>5 DEF BootInv, BootTypeOK
  <2> QED BY <1>6, <2>1
<1>8. Len(image) \in Nat /\ Len(image) <= BYTEOFSECTOR + size
  BY <1>1, <1>2, <1>6, LenProperties DEF Partial
<1>9. K = [i \in 1..size |-> PaddedByte("kernel", i)]
  BY DEF Padded, PaddedSize, PaddedByte
<1>10. loaded \in Seq(Delivered) /\ DOMAIN loaded = 1..Len(loaded)
  BY LenProperties DEF BootInv
<1> HIDE DEF K, size
<1>11. ASSUME NEW i \in DOMAIN loaded, BYTEOFSECTOR + i > Len(image)
       PROVE  loaded[i] = Void
  <2>1. i \in 1..Len(loaded) /\ ~(BYTEOFSECTOR + i <= Len(image))
    BY <1>6, <1>7, <1>8, <1>10, <1>11
  <2> QED BY <2>1 DEF BootInv, OnDisk
<1>12. ASSUME NEW i \in DOMAIN loaded, ~(BYTEOFSECTOR + i > Len(image))
       PROVE  i \in DOMAIN K /\ loaded[i] = K[i]
  <2>1. /\ i \in 1..Len(loaded) /\ i \in 1..size
        /\ BYTEOFSECTOR + i <= Len(image) /\ BYTEOFSECTOR + i \in 1..Len(image)
        /\ ~(BYTEOFSECTOR + i <= BYTEOFSECTOR) /\ (BYTEOFSECTOR + i) - BYTEOFSECTOR = i
    BY <1>6, <1>7, <1>8, <1>10, <1>12
  <2>2. loaded[i] = image[BYTEOFSECTOR + i] BY <2>1 DEF BootInv, OnDisk
  <2>3. image[BYTEOFSECTOR + i] = PlainByte(BYTEOFSECTOR + i)
    BY <1>2, <2>1 DEF Partial, Placed
  <2>4. PlainByte(BYTEOFSECTOR + i) = PaddedByte("kernel", i)
    BY <1>6, <2>1 DEF PlainByte
  <2> QED BY <1>9, <2>1, <2>2, <2>3, <2>4
<1> QED BY <1>7, <1>11, <1>12 DEF BuiltInCount

-----------------------------------------------------------------------------
LEMMA BootInvariant == ASSUME HeaderFits PROVE BootSpec => [](BuildInv /\ BootInv)
<1>1. BootInit => BuildInv /\ BootInv BY InitBuild, InitBoot DEF BootInit
<1>2. BuildInv /\ BootInv /\ [BootNext]_<<vars, machine>> => (BuildInv /\ BootInv)'
  BY NextIsBuild, NextBuild, NextBoot
<1> QED BY <1>1, <1>2, PTL DEF BootSpec

\* BootTypeOK holds for all sizes.
THEOREM BootTypeCorrect == ASSUME HeaderFits PROVE BootSpec => []BootTypeOK
<1>1. BootInv => BootTypeOK BY DEF BootInv
<1> QED BY <1>1, BootInvariant, PTL

\* An image ImageMaker finished boots, and what is started is the whole kernel
\* and nothing else, for kernels of every size.
THEOREM FinishedImageBootsHolds ==
  ASSUME HeaderFits PROVE BootSpec => []FinishedImageBoots
BY FinishedBoots, BootInvariant, PTL

\* An image that was given up, or whose count was not written, starts nothing or
\* two sectors: this kernel's as far as the image has them, and then whatever
\* the drive delivers from behind the image, for kernels of every size.
THEOREM UncountedImageShortHolds ==
  ASSUME HeaderFits PROVE BootSpec => []UncountedImageShort
BY UncountedShort, BootInvariant, PTL

\* Every run of BootSpec is, seen from ImageMaker alone, a run of its Spec: what
\* is proved of ImageMaker holds of the whole.
THEOREM BuildsAsSpecified == BootSpec => Spec
<1>1. BootInit => Init BY DEF BootInit
<1> QED BY <1>1, NextIsBuild, PTL DEF BootSpec, Spec
=============================================================================
