----------------------------- MODULE ImageMaker -----------------------------
(***************************************************************************)
(* 04.Utility/00.ImageMaker/ImageMaker.c: builds Disk.img from the boot    *)
(* loader and the kernel, each padded to whole sectors, and then writes    *)
(* the kernel's sector count into the boot sector.  Any call may fail and  *)
(* the disk the image is written to may fill up; three of the failures go  *)
(* unnoticed by the code, and the model keeps record of them.              *)
(***************************************************************************)
EXTENDS Integers, SequencesExt

CONSTANTS
  BYTEOFSECTOR,   \* 512
  HeaderOffset,   \* 5: where the two bytes of the sector count go
  WordSize,       \* 65536: values of the unsigned short usData
  BootSizes,      \* sizes in bytes the two source files may have
  KernelSizes,
  Capacities      \* room, in bytes, the target file may grow to

ASSUME ImageAssumption ==
  /\ BYTEOFSECTOR \in Nat \ {0, 1}
  /\ HeaderOffset \in Nat
  /\ WordSize \in Nat \ {0, 1}
  /\ BootSizes \subseteq Nat /\ KernelSizes \subseteq Nat /\ Capacities \subseteq Nat

VARIABLES
  pc,           \* "main", "open", "copy", "adjust", "fill", "information", or
                \* how the program ended: "done" (return 0), "failed" (exit(-1))
  fileSize,     \* the size of either source file
  capacity,
  source,       \* the file at hand, "boot" (argv[1]) or "kernel" (argv[2])
  offset,       \* how far the source file has been read
  iSourceSize,  \* what CopyFile has counted
  fill,         \* zero bytes still to be written
  sectors,      \* what AdjustInSectorSize returns
  image,        \* the bytes of Disk.img
  unnoticed     \* failures the code does not see: of "read" in CopyFile, of the
                \* write of a "fill" byte, of the write of the "count"

files == <<fileSize, capacity>>
vars  == <<pc, files, source, offset, iSourceSize, fill, sectors, image, unnoticed>>

\* a byte of the image: byte i of a source file, padding, or the sector count
FileByte(f, i) == <<f, i>>
Zero           == <<"zero", 0>>
CountByte(n)   == <<"count", n>>
OldImage       == <<CountByte(1)>>    \* of an earlier run; only its count matters

Bytes(f, from, n) == [i \in 1..n |-> FileByte(f, from + i)]

Smaller(a, b) == IF a < b THEN a ELSE b
Room          == capacity - Len(image)

\* the result of write(): a full disk takes what fits, or nothing and fails
Written(n) ==
  IF n = 0 THEN 0 ELSE IF Room <= 0 THEN -1 ELSE Smaller(n, Room)

\* C's remainder takes the sign of the dividend
Remainder(n) == IF n >= 0 THEN n % BYTEOFSECTOR ELSE -((-n) % BYTEOFSECTOR)

-----------------------------------------------------------------------------
Init ==
  /\ pc = "main"
  /\ fileSize \in [boot : BootSizes, kernel : KernelSizes]
  /\ capacity \in Capacities
  /\ source = "boot"
  /\ offset = 0 /\ iSourceSize = 0 /\ fill = 0 /\ sectors = 0
  /\ image = OldImage
  /\ unnoticed = {}

\* exit(-1) without another change: too few arguments, open or lseek failed
Exit ==
  /\ pc \in {"main", "open", "information"}
  /\ pc' = "failed"
  /\ UNCHANGED <<files, source, offset, iSourceSize, fill, sectors, image, unnoticed>>

\* open("Disk.img", O_TRUNC ...) throws the previous image away
OpenedAppending == image     \* mutant: O_APPEND for O_TRUNC
Opened          == <<>>

OpenTarget ==
  /\ pc = "main"
  /\ image' = Opened
  /\ pc' = "open"
  /\ UNCHANGED <<files, source, offset, iSourceSize, fill, sectors, unnoticed>>

OpenSource ==
  /\ pc = "open"
  /\ offset' = 0
  /\ iSourceSize' = 0
  /\ pc' = "copy"
  /\ UNCHANGED <<files, source, fill, sectors, image, unnoticed>>

\* one turn of the loop in CopyFile
CopySector ==
  LET iRead  == Smaller(BYTEOFSECTOR, fileSize[source] - offset)
      iWrite == Written(iRead)
  IN  /\ pc = "copy"
      /\ image' = image \o Bytes(source, offset, iWrite)
      /\ IF iRead # iWrite
           THEN pc' = "failed" /\ UNCHANGED <<offset, iSourceSize>>
           ELSE /\ offset' = offset + iRead
                /\ iSourceSize' = iSourceSize + iRead
                /\ pc' = IF iRead # BYTEOFSECTOR THEN "adjust" ELSE "copy"
      /\ UNCHANGED <<files, source, fill, sectors, unnoticed>>

\* read() returns -1, and so does write(..., -1): the two are equal
CopySectorReadFault ==
  /\ pc = "copy"
  /\ iSourceSize' = iSourceSize - 1
  /\ pc' = "adjust"
  /\ unnoticed' = unnoticed \cup {"read"}
  /\ UNCHANGED <<files, source, offset, fill, sectors, image>>

\* write() returns -1, which no successful read() equals
CopySectorWriteFault ==
  /\ pc = "copy"
  /\ pc' = "failed"
  /\ UNCHANGED <<files, source, offset, iSourceSize, fill, sectors, image, unnoticed>>

PaddingAlways(n) == BYTEOFSECTOR - Remainder(n)    \* mutant: "!= 0" is forgotten
Padding(n) == IF Remainder(n) # 0 THEN BYTEOFSECTOR - Remainder(n) ELSE 0

CountDown(n) == n \div BYTEOFSECTOR    \* mutant: the padding is not counted
Count(n)     == (n + Padding(n)) \div BYTEOFSECTOR

AdjustInSectorSize ==
  /\ pc = "adjust"
  /\ fill' = Padding(iSourceSize)
  /\ sectors' = Count(iSourceSize)
  /\ pc' = "fill"
  /\ UNCHANGED <<files, source, offset, iSourceSize, image, unnoticed>>

\* write(iFd, &cCh, 1), whose result nobody looks at
FillByte ==
  /\ pc = "fill"
  /\ fill > 0
  /\ \/ /\ Written(1) = 1
        /\ image' = Append(image, Zero)
        /\ fill' = fill - 1
        /\ UNCHANGED unnoticed
     \/ /\ fill' = fill - 1
        /\ unnoticed' = unnoticed \cup {"fill"}
        /\ UNCHANGED image
  /\ UNCHANGED <<pc, files, source, offset, iSourceSize, sectors>>

FillEnd ==
  /\ pc = "fill"
  /\ fill = 0
  /\ pc' = IF source = "boot" THEN "open" ELSE "information"
  /\ source' = "kernel"
  /\ UNCHANGED <<files, offset, iSourceSize, fill, sectors, image, unnoticed>>

UsDataWide == sectors    \* mutant: usData is an int
UsData     == sectors % WordSize

HeaderEnd == HeaderOffset + 2

\* lseek and write of usData; past the end of the file write() makes it longer
WriteKernelInformation ==
  /\ pc = "information"
  /\ HeaderEnd <= Len(image) \/ HeaderEnd <= capacity
  /\ image' = [i \in 1..(IF HeaderEnd <= Len(image) THEN Len(image) ELSE HeaderEnd) |->
                 IF i - 1 \in HeaderOffset..(HeaderOffset + 1)
                   THEN CountByte(UsData)
                   ELSE IF i \in DOMAIN image THEN image[i] ELSE Zero]
  /\ pc' = "done"
  /\ UNCHANGED <<files, source, offset, iSourceSize, fill, sectors, unnoticed>>

\* the same write() fails, and the program returns 0 all the same
WriteKernelInformationFault ==
  /\ pc = "information"
  /\ pc' = "done"
  /\ unnoticed' = unnoticed \cup {"count"}
  /\ UNCHANGED <<files, source, offset, iSourceSize, fill, sectors, image>>

Next ==
  \/ OpenTarget \/ OpenSource \/ Exit
  \/ CopySector \/ CopySectorReadFault \/ CopySectorWriteFault
  \/ AdjustInSectorSize \/ FillByte \/ FillEnd
  \/ WriteKernelInformation \/ WriteKernelInformationFault

Spec == Init /\ [][Next]_vars

-----------------------------------------------------------------------------
RoundUp(n)     == (n + BYTEOFSECTOR - 1) \div BYTEOFSECTOR
IsCount(byte)  == byte[1] = "count"

\* what Disk.img should be
Padded(f) ==
  LET n == fileSize[f]
  IN  [i \in 1..(BYTEOFSECTOR * RoundUp(n)) |-> IF i <= n THEN FileByte(f, i) ELSE Zero]

GoodImage ==
  LET plain == Padded("boot") \o Padded("kernel")
      count == CountByte(RoundUp(fileSize["kernel"]) % WordSize)
  IN  [i \in 1..Len(plain) |->
         IF i - 1 \in HeaderOffset..(HeaderOffset + 1) THEN count ELSE plain[i]]

TypeOK ==
  /\ pc \in {"main", "open", "copy", "adjust", "fill", "information", "done", "failed"}
  /\ fileSize \in [boot : BootSizes, kernel : KernelSizes]
  /\ capacity \in Capacities
  /\ source \in {"boot", "kernel"}
  /\ offset \in Nat
  /\ iSourceSize \in Nat \cup {-1}
  /\ pc \in {"copy", "adjust"} =>
       offset \in 0..fileSize[source] /\ iSourceSize \in {offset, offset - 1}
  /\ fill \in 0..(BYTEOFSECTOR + 1)
  /\ sectors \in Nat
  /\ \A i \in DOMAIN image :
       image[i][1] \in {"boot", "kernel", "zero", "count"} /\ image[i][2] \in Nat
  /\ \A i \in DOMAIN image : IsCount(image[i]) => image[i][2] < WordSize
  /\ unnoticed \subseteq {"read", "fill", "count"}

\* When the program returns 0 and none of the three unchecked calls failed,
\* Disk.img is the two files, each padded to whole sectors, with the count in
\* the header: no other failure, and no way of running full, ends in success
\* with a wrong image (lines 58-97 of main).
ImageExact == pc = "done" /\ unnoticed = {} => image = GoodImage

HasCount == \E i \in DOMAIN image : IsCount(image[i])

\* Whatever fails, an image that was begun and given up has no count of
\* ImageMaker's, of this run or an earlier one: its header is what the boot file
\* brought, the built-in 2, if it got that far (lines 41, 58-97).
NoCountOnFailure == HasCount => pc = "done" \/ image = OldImage

\* A program that returns 0 has copied the whole kernel file ("opens the
\* 32-bit kernel file and copies all of its content", comment at lines 67-69).
KernelCopied ==
  pc = "done" =>
    \A i \in 1..fileSize["kernel"] : FileByte("kernel", i) \in ToSet(image)

=============================================================================
