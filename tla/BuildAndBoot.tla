---------------------------- MODULE BuildAndBoot ----------------------------
(***************************************************************************)
(* Disk.img from ImageMaker to the boot sector's jump: whatever the image  *)
(* maker leaves, finished or given up, is put in the drive and booted.     *)
(* The loader knows nothing of how the build ended; all it has is the      *)
(* sector count in the image, which is the source file's own until         *)
(* ImageMaker overwrites it at the very end.  Where the image is shorter   *)
(* than its count says, the drive fails or delivers what lies there.       *)
(***************************************************************************)
EXTENDS ImageMaker

VARIABLES
  stage,        \* "build", "BIOS", "READDATA", "HANDLEDISKERROR", "KERNEL",
                \* or "no boot" when the BIOS finds no signature
  di,           \* sectors still to be read
  next,         \* sectors read so far: the image's sector next + 1 comes next
  loaded        \* the bytes from 0x10000 on

machine == <<stage, di, next, loaded>>

\* what the boot file has for the count, and a byte the drive delivers from
\* behind the image
BuiltInCount == 2
Void         == <<"void", 0>>

\* TOTALSECTORCOUNT as the booted sector has it
TotalSectorCount ==
  LET word == image[HeaderOffset + 1]
  IN  IF IsCount(word) THEN word[2] ELSE BuiltInCount

\* what the drive delivers when the read of a sector succeeds
OnDisk(n) == IF n <= Len(image) THEN image[n] ELSE Void
Sector(k) == [i \in 1..BYTEOFSECTOR |-> OnDisk(BYTEOFSECTOR * k + i)]

\* the boot loader's file is one sector, the signature its last two bytes
Signed == OnDisk(BYTEOFSECTOR) = FileByte("boot", BYTEOFSECTOR)

-----------------------------------------------------------------------------
BootInit ==
  /\ Init
  /\ stage = "build" /\ di = 0 /\ next = 0 /\ loaded = <<>>

Build == stage = "build" /\ Next /\ UNCHANGED machine

\* the disk goes into the drive; an untouched older image is not this build's
Insert ==
  /\ stage = "build"
  /\ pc \in {"done", "failed"}
  /\ image # OldImage
  /\ stage' = "BIOS"
  /\ UNCHANGED <<vars, di, next, loaded>>

LoadBootSector ==
  /\ stage = "BIOS"
  /\ IF Signed THEN stage' = "READDATA" /\ di' = TotalSectorCount
               ELSE stage' = "no boot" /\ UNCHANGED di
  /\ UNCHANGED <<vars, next, loaded>>

ReadSector ==
  /\ stage = "READDATA"
  /\ di > 0
  /\ di' = di - 1
  /\ next' = next + 1
  /\ loaded' = loaded \o Sector(next + 1)
  /\ UNCHANGED <<vars, stage>>

\* mutant: the boot sector is started afresh, for ever
ReadFailsRestarts ==
  /\ stage = "READDATA"
  /\ di > 0
  /\ stage' = "BIOS"
  /\ next' = 0 /\ loaded' = <<>>
  /\ UNCHANGED <<vars, di>>

\* any read may fail, of the image or behind it
ReadFails ==
  /\ stage = "READDATA"
  /\ di > 0
  /\ stage' = "HANDLEDISKERROR"
  /\ UNCHANGED <<vars, di, next, loaded>>

StartImage ==
  /\ stage = "READDATA"
  /\ di = 0
  /\ stage' = "KERNEL"
  /\ UNCHANGED <<vars, di, next, loaded>>

BootNext ==
  \/ Build \/ Insert
  \/ LoadBootSector \/ ReadSector \/ ReadFails \/ StartImage

\* the image maker runs, the disk is tried, the processor runs
BootSpec == BootInit /\ [][BootNext]_<<vars, machine>> /\ WF_<<vars, machine>>(BootNext)

-----------------------------------------------------------------------------
BootTypeOK ==
  /\ TypeOK
  /\ stage \in {"build", "BIOS", "READDATA", "HANDLEDISKERROR", "KERNEL", "no boot"}
  /\ stage # "build" => pc \in {"done", "failed"}
  /\ next \in Nat /\ di \in 0..(WordSize - 1)
  /\ Len(loaded) = BYTEOFSECTOR * next
  /\ stage \in {"READDATA", "HANDLEDISKERROR", "KERNEL"} =>
       next + di = TotalSectorCount

\* A boot file of one sector and a kernel whose count is a word
Fits == fileSize["boot"] = BYTEOFSECTOR /\ RoundUp(fileSize["kernel"]) < WordSize

WithinImage(k) == BYTEOFSECTOR * (k + 1) <= Len(image)

\* An image ImageMaker finished, with no failure it did not notice, boots: every
\* sector the loader asks for is one of the image, so that nothing but a bad
\* drive can stop it, and the kernel that is started is the whole padded file and
\* nothing else (ImageMaker.c 58-97 with BootLoader.asm 92-150).
FinishedImageBoots ==
  pc = "done" /\ unnoticed = {} /\ Fits =>
    /\ stage # "no boot"
    /\ stage = "READDATA" /\ di > 0 => WithinImage(next + 1)
    /\ stage = "KERNEL" => loaded = Padded("kernel")

\* An image that was given up, or whose count was not written, can boot, with
\* the count of 2 that the boot file carries.  What is started then are two
\* sectors: as much of the beginning of this kernel as the image got, cut short
\* if it is longer, and behind it not a byte of an older image or of the boot
\* file but what the drive has there (ImageMaker.c 41, 143, 163-166 with
\* BootLoader.asm 11, 94-116).
UncountedImageShort ==
  stage = "KERNEL" /\ Fits /\ (pc = "failed" \/ "count" \in unnoticed)
                   /\ unnoticed \subseteq {"count"} =>
    /\ Len(loaded) = BuiltInCount * BYTEOFSECTOR
    /\ \A i \in DOMAIN loaded :
         IF BYTEOFSECTOR + i > Len(image)
           THEN loaded[i] = Void
           ELSE i \in DOMAIN Padded("kernel") /\ loaded[i] = Padded("kernel")[i]

\* Every attempt ends: an untouched image, no signature, the error loop or a
\* started kernel.
BootEnds ==
  <>(\/ stage \in {"no boot", "HANDLEDISKERROR", "KERNEL"}
     \/ pc = "failed" /\ image = OldImage)
=============================================================================
