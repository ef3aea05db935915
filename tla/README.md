# MINT64 boot chain: a verification project

MINT64 is the teaching operating system of this repository (`src/MINT64`). At
this commit it is a boot chain: a build tool makes a floppy image, a boot sector
loads it, a 16-bit entry point switches the processor to protected mode and a
32-bit kernel in C checks memory, clears the area of the coming 64-bit kernel
and stops. The modules here model that chain in TLA+; TLC checks them on small
instances and TLAPS proves the main safety properties for every instance.

All line numbers refer to files under `src/MINT64` unless a path says more.

## 1. The system

    BootLoader.asm --nasm--> BootLoader.bin --+
                                              +--ImageMaker--> Disk.img
    EntryPoint.s, Main.c --> Kernel32.bin ----+                   |
                                                                  v
    BIOS --> boot sector (0x7C00) --sectors--> 0x10000: EntryPoint --> 0x10200: Main

| Component | State it keeps | Operations | Talks to |
|---|---|---|---|
| Boot loader `00.BootLoader/BootLoader.asm` | DI (sectors left), SI/ES (target segment), SECTORNUMBER/HEADNUMBER/TRACKNUMBER, screen | clear screen, reset drive, read loop, start kernel, disk error, PRINTMESSAGE | BIOS int 0x13; reads TOTALSECTORCOUNT that ImageMaker patched; jumps to 0x1000:0 |
| Image maker `04.Utility/00.ImageMaker/ImageMaker.c` | Disk.img, position in the source files, counts | main, CopyFile, AdjustInSectorSize, WriteKernelInformation | file system; its output is the boot loader's input |
| Entry point `01.Kernel32/Source/EntryPoint.s` | A20 gate, IF, GDTR, CR0.PE, CS/DS/SS, ESP | open A20 by BIOS or port 0x92, cli, lgdt, set CR0, far jumps, PRINTMESSAGE | BIOS int 0x15, system control port; jumps to 0x10200 |
| 32-bit kernel `01.Kernel32/Source/Main.c` | memory above 1 MB, the pointer of the two loops, screen rows 3 to 6 | Main, kIsMemoryEnough, kInitializeKernel64Area, kPrintString | memory through whatever state the A20 gate was left in |
| Virtual OS `01.Kernel32/VirtualOS.asm` | SECTORCOUNT | 1024 sectors that jump from one to the next | loaded by the boot loader, a test for it |
| Loader in C `00.BootLoader/imageloader.c` | the loader's counters | the read loop again, as documentation | - |
| Build files `makefile`, `00.BootLoader/makefile`, `01.Kernel32/makefile` | time stamps | build, dependency generation, clean | nasm, gcc, ImageMaker |
| Linker script `01.Kernel32/elf_i386.x` | - | section layout | fixes `Main` at 0x10200 together with `-Ttext` |
| IDE files, launchers, `src/book`, `src/util` | - | none of the system's own | - |

The study notes also describe the messages each program puts on the screen;
they are the only thing the programs say to a user, and the screen is the one
state all three share besides memory and the A20 gate.

### What is hard

* **Arithmetic at boundaries.** The sector/head/track counters roll over at two
  levels; the images in use have two or three sectors and never reach the first
  rollover. The target segment and the sector count are 16-bit words. The image
  maker pads to whole sectors and must not pad a file of whole sectors.
* **Failure in the middle.** Any BIOS read may fail, the image may be shorter
  than its header says (which the drive need not report), the build disk may fill up between two writes, `read()`
  may fail, an image may be begun and given up.
* **Stale state.** A reset keeps RAM and screen; the A20 gate is opened once, by
  requests whose effect nobody verifies, and taken to be open ever after.
* **Aliasing.** With the gate shut, 1 MB is 0: the memory probe then reads back
  what it wrote one MB lower, and the clearing loop runs over the interrupt
  vectors and the stack that holds its own pointer, just below the kernel.
* **Hand-written calls.** PRINTMESSAGE saves and restores registers by hand,
  once in 16 and once in 32 bits, and every call names its own place on the
  screen.
* **Leftovers of a build.** The makefiles rely on two targets that name no file,
  on the order of the goals and on what a tool that fails does to its output.
* **Interrupts.** Between `cli` and a valid IDT, which this kernel never has, an
  enabled interrupt is a triple fault. Otherwise the system is sequential: there
  are no threads and nothing is shared. Crashes are resets.

### What makes each component correct

* Boot loader: the kernel is started only if its whole image is in place,
  nothing is ever stored at a wrong place, the outcome shown is this attempt's,
  and the boot ends.
* Image maker: a finished image is exactly both files, padded, with the right
  count; the count comes last, so that an image given up carries none but the 2 of
  the boot file; the program ends.
* Entry point: protected mode is entered with interrupts off and valid
  descriptors, each jump lands on the instruction that is next in memory.
* 32-bit kernel: "Pass" and "Fail" are true, low memory is intact, the kernel
  does not clear itself, the program comes to an end.
* The three print routines: the characters appear where they were asked for,
  the caller finds its registers and stack as they were, no message hides
  another.
* Virtual OS: its screen tells a good load from a bad one.
* Loader in C: it loads what the boot sector loads.
* Build files: a make that succeeds leaves an image of the present sources, as far
  as the rules name them.
* All together: what the image maker finished boots, what it gave up starts
  nothing of an older build; a reset at any moment leads to a boot like the first.

## 2. The modules

| Module | What it is |
|---|---|
| `SectorCopy` | abstract loader: the sectors of an image are copied in any order, then the image is started; or loading fails |
| `BootLoader` | the boot sector; refines `SectorCopy` |
| `ImageLoader` | the loader in C; refines `SectorCopy` |
| `VirtualOS` | the test image that checks a loader, loaded by `ImageLoader` |
| `Screen` | abstract printer: the messages of a boot appear one after another, character by character |
| `BootMessages` | the messages of the three programs, and the calls each makes along each of its ways |
| `Printing` | PRINTMESSAGE in 16 and 32 bits, registers and stack, and kPrintString, on one screen; refines `Screen` |
| `EntryPoint` | the switch to protected mode |
| `Kernel32` | the 32-bit kernel |
| `BootChain` | `SectorCopy`, `EntryPoint` and `Kernel32` on one machine, with resets |
| `ImageMaker` | the build tool |
| `BuildAndBoot` | `ImageMaker`, then the boot of whatever it left |
| `BuildGraph` | the makefiles |
| `BootLoaderProofs`, `EntryPointProofs`, `Kernel32Proofs`, `BootChainProofs`, `PrintingProofs`, `VirtualOSProofs`, `BuildGraphProofs` | theorems about the module of that name (`VirtualOSProofs` also about `ImageLoader`) |
| `ImageMakerProofs` | theorems about `ImageMaker` and `BuildAndBoot` |
| `MC...` | constants for TLC; `.cfg` files name the runs |

Definitions whose comment says `mutant:` are deliberately wrong variants
of the definition that follows them, one plausible bug each. They are no part of the
specifications: each is put in its place to see that a property
notices (`mutants` in `PROJECT.json`). `map` in `PROJECT.json` gives, for every
other definition, the lines of code it stands for.

### BootLoader

`pc` is the label control has reached. Registers have their names; bytes and
words wrap (`Byte`, `Word`). `memory` maps a segment to the sector stored there
as a pair of disk and LBA: 512 bytes are one value, since the loader never looks
into them, and a pair stands for what the drive delivers, image or not. `result` is what row 1, column 20 of the screen says.

* `Start`: lines 17-63. The two messages of fixed text are left out. The
  segment register and SI keep what the screen loop leaves in them, which shows
  that `ResetDisk` sets both again.
* `ResetDisk`, `ResetFails`: lines 66-92, int 0x13 with AH=0 and its error.
* `ReadSector`, `ReadFails`: one turn of the loop, lines 94-136, with the BIOS
  call succeeding or failing. Only a track the drive does not have (`Tracks`) is
  sure to fail; any other read may do either, whether or not the image on the disk
  is as long as that: the screenshot Ch6_img6.png of the book shows a header of 1024 on an
  image of two sectors end in "Complete~!!". `AdvanceSector` is lines 118-136.
* `ReadEnd`: lines 137-150; `HandleDiskError`: 155-163.
* `Reset`: the machine is reset, perhaps with another floppy in. The BIOS loads
  a fresh boot sector, so the counters are back at 2, 0, 0; RAM, and here also
  the screen and the registers, are left as they were.

`ImplementsSectorCopy` maps `pc` to the abstract phase and the sectors from
`Copied` on to the abstract `todo`.

### ImageMaker

One action per step of `main` and per turn of its loops, with a byte of the
image as `<<file, index>>`, `<<"zero", 0>>` or `<<"count", n>>` (both bytes of
the count carry the value). `CopySector` is a turn of the loop in `CopyFile`
(lines 156-173): `Written` is what `write` returns on a disk that is filling up.
`CopySectorReadFault` is the turn in which `read` returns -1: `write(fd, buf, -1)`
returns -1 as well, so the comparison at line 163 sees no difference, the size
goes down by one and the loop ends. In `CopySectorWriteFault` only `write` fails,
and the program exits. `FillByte` is one turn of lines 116-117 and
`WriteKernelInformation`, `WriteKernelInformationFault` are lines 131-146; the
code ignores what their `write` returns. `Exit` is each of the `exit(-1)` that
changes nothing else.

`unnoticed` is no variable of the program: it records which of the three
failures that the code does not see have happened, a `read` (lines 160-163), the
`write` of a padding byte (117), the `write` of the count (143). `ImageExact` says
that these are the only ones: whatever else fails, and wherever the disk runs
full, a program that returns 0 has made the right image. With `NoCountOnFailure` it
follows that the count is the last thing written: an image that carries one is
the right one, or the untouched one of an earlier run.

### BuildAndBoot

Extends `ImageMaker`. `Build` is any step of it. When it has ended, `Insert` puts
the image into the drive, and the loader's steps follow: the BIOS looks for the
signature, `ReadSector` (BootLoader.asm 94-136) reads the image's next sector as
long as DI is not 0. Any read may fail (`ReadFails`); one that succeeds delivers what
the image has and, behind its end, what happens to be on the disk (`Void`), which
is nothing of this build.
`TotalSectorCount` is the word at byte 5 of the boot sector: ImageMaker's count
once it has been written, before that the 2 of BootLoader.asm line 11. The
loader is written in terms of bytes here, unlike in `BootLoader`, since the
question is which bytes end up where.

### EntryPoint

The program is found the way the processor finds it: `At(l)` says that CS base +
EIP is the address of label `l`, and an action's guard is that its label is
there. Falling through and near jumps are relative to EIP (`Continue`), far
jumps are absolute, so that a far jump to an offset that is not adjusted to the
new base leaves the program with nothing to execute. `seg` is the base of each
segment as the processor caches it; selectors are looked up in the table `gdtr`
points to, and what is not there, or is of the wrong kind, ends in "shutdown".

* `Start` 9-12, `ActivateA20ByBios` 19-20 (the BIOS either opens the gate or
  sets the carry flag, and may come back with interrupts enabled), `TestCarry`
  22-23, `ReadPort` 27-29, `WritePort` 30, `Cli` 33, `Lgdt` 34,
  `EnableProtection` 40-41, `JumpToProtectedMode` 45, `LoadSegments` 55-64,
  `PrintSuccess` 66-71 with PRINTMESSAGE, `JumpToC` 73.
* `Interrupt`, `Return`: between any two instructions, while interrupts are
  enabled. In real mode the BIOS handler runs and returns; in protected mode
  there is no IDT and the processor shuts down.

The gate is open if something has opened it (`gate`) or bit 1 of the port is
set. Reading the port gives any value in its write-only bit 0, and all ones if
there is no port.

### Kernel32

Addresses are counted in 32-bit words and an MB has `MB` of them. The machine
has `ram` words, of which those in `broken` do not keep what is written, and a
gate `a20`. `Phys` is the word an address reaches: with the gate shut the odd
MBs are the even ones below. What is read where there is no memory is `void`,
0 or all ones. `mem` tells apart the word as it was, the pattern 0x12345678 and
0. `Probe` is a turn of lines 92-101, `Clear` one of 66-76, `Main`, `ProbeEnd` and
`ClearEnd` are the parts of `Main` around them.

`Init` takes the gate in either state: the entry point asks the BIOS, then port
0x92, and never verifies. The pointer of `kInitializeKernel64Area` is a local
variable of code compiled without optimisation (`01.Kernel32/makefile`, line 6,
passes no `-O`), so it lives on the stack below 0xFFFE, and the stack below the
kernel at 0x10000. With the gate shut a store to 1 MB + x is one to x: the loop
reaches its own pointer before it reaches the kernel. The store puts 0 over the
pointer's bytes while its value is 1 MB + x with x < 64 KB, hence only its lower
half is not 0 already and the pointer becomes 0x100000. `AfterStore` says this of
the compiler's output; no line of Main.c does. The
pointer's word is `StackWord`, the first word of the kernel `CodeWord`.

### BootChain

The loader appears as `SectorCopy`, which `BootLoader` implements; the other two
are the modules above, every action of theirs a step of the chain. `at` says
which program has the processor. What one leaves the next takes over: the gate
and port of `EntryPoint` are the `a20` of `Kernel32`, the BIOS's stack and
interrupt flag are what the entry point starts with, the last jump is `EnterMain`.
`Reset` may happen between any two steps: with `Restart` the BIOS sets up low
memory again, RAM above and the screen stay as they were, the gate stays or is
shut, another disk may be in, and the kernel's rows keep an old "Pass" until
`Start` clears the screen.

### BootMessages, Screen, Printing

A message is a range of numbers, `Text[m]` its first character, so that each
character of each message is a value of its own; lengths are those of the
sources. `LoaderPaths`, `EntryPaths` and `KernelPaths` are the sequences of calls
the programs can make, with the coordinates in the code; `BootPaths` joins them.
`Screen` prints them abstractly. Its two invariants say that the sum of these
calls makes a readable screen, and `Printing` takes them over. `Printing` prints
as the code does: PRINTMESSAGE with a stack of words, seven registers with their
values saved and restored in the code's order, parameters found relative to BP,
and in real mode an interrupt between any two steps that leaves junk below SP
(`Enter` 167-177, `Locate` 179-199, `DrawCharacter` and `MessageEnd` 201-215, `Leave`
217-225 of BootLoader.asm, and the same labels in EntryPoint.s 80-132);
kPrintString with the pointer to two-byte elements (`LocateElement`,
`PutCharacter`, `ReturnToMain`, Main.c 46-54). `RealMode` chooses between the two
versions of PRINTMESSAGE, which differ in the width of a word, in ES and in how
they reach the video memory. Registers and stack are not followed through
kPrintString, which is the compiler's.

### ImageLoader, VirtualOS

`ImageLoader` is the program of `imageloader.c` with `BIOSReadOneSector` failing
or not; unlike the boot sector it computes with ints and a flat address. Its
head is switched by the `^ 0x01` of line 30; the expression in the comment at
line 29 would leave it as it is and is not what is modelled. `VirtualOS` extends
it: the disks are functions from the places of the load area to the sectors put
there, 0 for none, and what control meets at a place is what the loader stored
at that address (`SectorAt`). Each of the generated sectors shows its digit at the
position SECTORCOUNT gives and jumps to the absolute place of its successor. A
sector that is missing is 512 zeros, 256 times `add [bx+si], al`; AL is added 256
times to one byte, which leaves it unchanged, and control falls into the next
place.

### BuildGraph

`Order` is the order in which one serial make at the top comes to the targets
(the goals of `makefile` line 1, then the prerequisites from left to right).
`files` are the files there are and `newer` says which of them was modified later
than which, all make knows (equal times count as up to date, as in make); `made`
records what it does not know, the sources and versions that went into each
target. `Needs` are the prerequisites the rules declare, `Inputs` what the recipes
read: the link also reads `elf_i386.x` (`01.Kernel32/makefile` lines 7 and 77), which
no rule names. `Remake` runs a recipe, `LeaveAlone` skips it, `Fail` is a recipe that
fails: nasm, gcc, ld and objcopy leave the old output or none, the shell's `>` and
ImageMaker a fragment. `FailUnnoticed` is the ImageMaker of finding 1, or one whose
padding or count is not written: it leaves a fragment and returns 0, and so does
make (`outcome` is then "unnoticed", which no program knows). `Edit` changes a source
between makes. `Init` is a clean tree or a fresh clone, whose targets may each be
older or newer than the sources (those whose age decides nothing are left newer).

## 3. What the runs check

| Run | Instance | Shows |
|---|---|---|
| `boot_small` | two sides of two tracks of 3 sectors; headers of 0, 2, 7 and 12 sectors, the last more than the drive has; two resets, each with any disk | type invariant, `KernelImageLoaded`, `LoadAreaOnly`, `ScreenHonest`, `Settles`, `ImplementsSectorCopy` |
| `image_files` | sectors of 4 bytes, counts below 8; boot files of 3 to 5 bytes, ten kernels of 0 to 36; room for 0 to 16 bytes or for everything; every call may fail | type invariant, `ImageExact`, `NoCountOnFailure`, `FinishedImageBoots`, `UncountedImageShort`, `BootEnds` |
| `image_read_error` | the same | violates `KernelCopied` (finding 1) |
| `build_serial` | clean tree and 32 ages of a clone; two edits, two failing recipes or unnoticed failures, any number of cleans | `SuccessMeansCurrent`, `OnlyScriptStale`, `Recovers` |
| `entry_machines` | the offsets nasm gives; BIOS and port that can or cannot open the gate, gate open or shut before, all port values over four bits, interrupts on or off at the start | `StaysUp`, `ReadyForC`, `GateOpened`, `OnlyOpensGate`, `EntersMain` |
| `kernel_machines` | the code's 64 and 6 MB with 6 words per MB; seven RAM sizes, five sets of broken words, gate open or shut | `LowMemoryIntact`, `CodeNeverCleared`, `KernelAreaReady`, `NoFalseAlarm`, `ProbesWork`, `Settles` |
| `kernel_short_memory` | the same | violates `PassMeansEnoughMemory` (finding 2) |
| `kernel_shut_gate` | the same | violates `PassMeansUsable` (finding 3) |
| `kernel_shut_clears` | the same | violates `ShutGateClearsKernel` (finding 4) |
| `print_boot` | every boot's sequence of calls, real lengths and coordinates, interrupts anywhere in real mode | `CallerUndisturbed`, `ImplementsScreen`, `Readable`, `OutcomesFilledIn` |
| `virtual_loads` | 3 sectors per track, 14 sectors, 3 digits, a counter of 36 values; the right disk, every one with one sector wrong or missing, every exchange of two; any read may fail | `ImplementsSectorCopy`, `VerdictTrue`, `RightImageEnds` |
| `chain_resets` | two disks of one and two sectors, MBs of 3 words, three RAM sizes, a broken word, every firmware; two resets | `ImageStays`, `ScreenOfThisBoot`, `SaysTrue`, `TellsOutcome` |

**Why the bounds are enough.** Three sectors per track and seven sectors pass
both rollovers (sector to head, head to track) and start a second cylinder; the
first read starts at sector 2, so no cylinder is like the first, and the second
shows the general case; that 18 sectors and 80 tracks are no different is proved
(section 4). Two resets give an attempt
that inherits from one that inherited. With 4-byte sectors every remainder 0 to
3 occurs, kernels have fewer sectors than the built-in 2, as many and more, and
with 36 bytes the count reaches 9 and is cut to 1; the room ends at
the boundaries and in the middle of the first four sectors. The loops of
`Kernel32` treat all words of an MB alike except the six kinds named in
`MCKernel32`, and `CheckEnd` and `AreaEnd` are the code's own.
`print_boot` has no abstraction but that a message is not spelt out; of the
stack it has the eleven words that a call needs. In `virtual_loads` the image ends in the third
cylinder, digits repeat, and a wrong image that runs for ever makes the counter
wrap. In
`chain_resets` an MB of three words has one of each kind: vectors, stack, code; the
check and the area are one MB long since `kernel_machines` has the real ones. In
`build_serial` one edit and one failure make a leftover, the second pair meets it.
Bounds in guards: `MaxResets` (BootLoader, BootChain), `MaxEdits` and `MaxFailures`
(BuildGraph), and nothing else.

**Fairness.** Each `Spec` assumes weak fairness of the program's own steps: the
processor runs, BIOS and system calls return. Nothing is assumed about resets,
about which of success and failure a call returns, or about full disks. The entry
point may be interrupted for ever, so its steps are strongly fair: interrupts
are rarer than instructions, and after a handler returns the program gets one.
`BootChain` takes over the fairness of its parts and asks for no reset;
`BuildGraph` assumes that a make that was started goes on, not that one is started.
In `SectorCopy` fairness is on `Load`, which includes failing: the abstract loader
promises to end, not to succeed. Deadlock checking is off because the programs
really stop: `jmp $` (BootLoader.asm 163), `while (1)` (Main.c), process end.

`Settles` of Kernel32 is stated for an open gate. With the gate shut the
clearing loop resets its own pointer and runs for ever; `CodeNeverCleared` and
`KernelAreaReady` say that this is the worst that happens: the kernel is not
overwritten, though the book says so (finding 4), and never reports "Pass".

## 4. What is proved

`BootLoaderProofs` (for all disks, track lengths of 2 to 126 sectors, drives of 1 to
255 tracks, any number of resets):

* `TypeCorrect`, `ScreenHonestHolds`: `TypeOK` and `ScreenHonest` are invariants.
* `KernelImageLoadedHolds`, `LoadAreaOnlyHolds`, under `FitsLoadArea`: no header
  asks for more than 1152 sectors, the limit that VirtualOS.asm:9 states and
  neither loader nor image maker enforces. Without it the segment in SI wraps
  and the property is false.
* `ImplementsSafety`, under the same assumption: `Safety => SC!Safety`.

`KernelImageLoaded` is not inductive: it says nothing before the kernel is
started. The invariant that is relates the counters to the number of sectors
read: `ReadPosition` (while reading, `SI` is the segment of the next sector and
the head/track/sector counters denote its LBA, `Copied + 1`), `ReadStart` (they
are 2, 0, 0 before), `CopiedLoaded` (every place before `Copied` holds its
sector) and `AllCopied` (the kernel runs only when `Copied` is the whole image).

`EntryPointProofs` (for every layout of the 512 bytes in which no two labels
coincide, every firmware and port):

* `TypeCorrect`, `StaysUpHolds`, `ReadyForCHolds`, `GateOpenedHolds` and the
  action property `OnlyOpensGateHolds`.

The invariant says that the next instruction is at some label and, for that
label, what has been achieved: `Control` (mode, CS base, DS, GDTR, interrupts,
flat segments) and `GateFacts` (what the carry flag and AL mean on the way). It
is needed because each property speaks of the end only, or of a fault that
depends on what an instruction three steps earlier did. `AddressUnique` makes
the label unique, `ContinueArrives` moves it.

`Kernel32Proofs` (for all sizes of an MB and of both loops, all RAM sizes, broken
words and both states of the gate):

* `TypeCorrect`, `LowMemoryIntactHolds`, `CodeNeverClearedHolds`,
  `KernelAreaReadyHolds`, `NoFalseAlarmHolds`, `ProbesWorkHolds`, from
  `LayoutAssumption` (stack below code, both within MB 0; 1 < 6 < 64) and
  `MachineAssumption` (MB 0 works: the kernel was loaded into it).

The inductive invariant is `ProbeInv` (the words probed so far work), `ClearInv`
(the words cleared so far read as 0 if the gate is open; if it is shut the
pointer has not passed its own word) and `RowInv` (what the screen says follows
`pc`), besides the properties themselves.

`ImageMakerProofs` (for sectors of any size, files and disks of any size, and
every sequence of failing calls):

* `TypeCorrect` and `NoCountOnFailureHolds`, without further assumption.
* `ImageExactHolds`, under `Sensible`: the header lies within a sector and no boot
  file is empty. Without it `WriteKernelInformation` would write past the end of
  the image and make it longer.

`ImageExact` speaks of the end only. Its invariant `ImageInv` says at every step,
as long as no failure has gone unnoticed, how long the image is (`Length`:
the sectors of the files that are done, plus what has been read, plus what has
been filled up) and that each of its bytes is the one that belongs there
(`Placed`). `PaddingFacts` is the arithmetic: `AdjustInSectorSize` fills up to the
next multiple of a sector and counts the sectors. `CountInv` says where no byte
of a count can be.

About `BuildAndBoot`, in the same module (for all sizes, under `HeaderFits`: the header
ends before the signature, no boot file is empty, and a word can hold the built-in
count):

* `BootTypeCorrect`.
* `FinishedImageBootsHolds`: with the count of a finished image the loader never asks
  for a sector behind its end, and it starts the whole padded kernel.
* `UncountedImageShortHolds`: an image without its count starts two sectors, this
  kernel's as far as the image has them, then what the drive has there. A kernel of
  one sector, or of none, is therefore started with foreign bytes behind it.
* `BuildsAsSpecified`: `BootSpec` implies the image maker's `Spec`, so that the
  theorems about it hold of the composition too.

`BootInv` says that what is loaded is what lies behind the boot sector in the
image, whatever that is; `Outcome` says what the image can be when the program has
ended: the good one, or a beginning of it without a count.

`BuildGraphProofs` (for any number of edits, failing recipes, cleans and makes,
over any leftovers `Init` allows):

* `SuccessMeansCurrentHolds`: after a make that succeeds `Disk.img` is whole and made
  from the sources as they are, except that the linker script may be an older version
  if it was edited after the last link. A make in which ImageMaker missed a failure is
  not one of them, and the fragment it leaves is not taken for an image later.
* `OnlyScriptStaleHolds`, an action property: no step puts an old version of any
  other source into `Disk.img`.

A make looks at times only, so the invariant must say what a time means. `Kept`: a
target that make may skip and that is no older than all it needs was made from
just what they are made of. This holds of the four targets (`Skippable`) of which
a failed recipe never leaves a fragment; of the others, `Kernel32.bin` and
`Disk.img` may be fragments with a fresh time. `Done`: what the running make has
come past is right, and when it comes to `Kernel32.bin` or `Disk.img` that target
is out of date. The latter is so because `Kernel32.elf.bin`, which depends on a
target that is no file, has just been remade. Together they say why a fragment is
never taken for an image. The facts about the rules are read out of their tables
once (`OrderFacts`, `RuleFacts`, `OriginFacts`).

`VirtualOSProofs` (for images and tracks of any length and any number of
digits):

* `VerdictTrueHolds`, under `OneFault`: a disk is the right one, or has one sector
  wrong or missing, or two exchanged. That is what the image can tell: three
  sectors that have changed places among each other, a number of digits apart, would
  leave the row full all the same.
* `ReferenceLoads`, `VirtualLoads`: the loader in C satisfies `SC!Safety`, alone
  and with the loaded image running in its memory.

`LoaderInv` is the loop invariant of the loader. `Course` says what the run of an
image has come to: every place so far has shown its digit (`Straight`); a place
was passed over, so that the count can no longer become full (`Gap`); or a jump
has led back, and will again before the end is reached (`Loop`). `VerdictTrue`
alone is not inductive, since it speaks of the end of the run only.

`BootChainProofs` (for all disks, layouts, RAM sizes, firmware, and any number of
resets at any step):

* `ImageStaysHolds`, `ScreenOfThisBootHolds`, `SaysTrueHolds`.
* `SwitchWorksAgain`: the entry point's `StaysUp`, `ReadyForC` and `GateOpened`
  hold of every boot of the chain.
* `LoadsAsSpecified`: the chain satisfies `SC!Safety`.

`ChainInv` consists of the invariants of `EntryPointProofs` and `Kernel32Proofs`,
taken over by instantiation, and of what holds between the programs: `ImageInv`
(what is no longer to be copied is in place), `HandOver` (control is where the
next program begins, and low memory is as that program needs it)
and `RowsInv` (no row is ahead of the program that writes it).
`ProgramsAssumption` says that the constants satisfy what the two programs assume,
no more. The point of the composition is in `Reset`: it must establish both
programs' invariants again from a gate, a RAM and a screen that another boot has
left.

`PrintingProofs` (for every stack with room for a call, every way through the
three programs, and interrupts at every step in real mode):

* `CallerUndisturbedHolds`.
* `PrintsAsAsked`: `Safety => Scr!Safety`.
* `ReadableHolds`, `OutcomesFilledInHolds`.

`StackAssumption` (room for the eleven words of a call) is what the code has: both
programs set their stack up with more than that. `StackInv` says at each label
what every word between SP and the caller's SP is and which register still has the
caller's value, `PlaceInv` which character of which message comes next and where
DI or `pstScreen` points, `Turn` whose turn it is. `ScreenInv` says that what a
call has put on the screen is still there, except in brackets. It needs `Apart`:
the cells of two calls of a boot are disjoint but for brackets, a fact about the
coordinates and lengths in the sources (`BootPath` lists the calls).

So each safety invariant and each action property that a run checks is proved. The
safety half of each refinement is proved as well (`ImplementsSafety`,
`ReferenceLoads`, `VirtualLoads`, `PrintsAsAsked`). Only model-checked is what
needs fairness and ENABLED, which the prover cannot treat: `Settles` of
`BootLoader` and of `Kernel32`, `EntersMain`, `BootEnds`, `RightImageEnds`,
`TellsOutcome`, `Recovers`, and the liveness half of `ImplementsSectorCopy` and
`ImplementsScreen`.

## 5. Findings

1. `image_read_error`: a `read` that fails goes unnoticed (ImageMaker.c:159-172);
   the program returns 0 and the image lacks the rest of the file, although the
   comment at lines 67-69 says the whole file is copied.
2. `kernel_short_memory`: the check for 64 MB passes on a machine with one word
   more than 63 MB (Main.c:92).
3. `kernel_shut_gate`: the check passes with the A20 gate shut, for it reads a
   word back before anything else can have changed its alias (Main.c:95-99).
4. `kernel_shut_clears`: the book (chapter 8, lines 155-157) says that with the gate
   shut the initialisation clears the part where the running kernel is. The loop
   resets its own pointer, on the stack below the kernel, before it gets there, and
   clears the vectors and the boot sector for ever (Main.c:66-76).

## 6. Not modelled

* Non-maskable interrupts and a BIOS that claims to have opened the gate when it
  has not.
* ImageMaker: signals, `write` calls that write less than asked with room left,
  another process changing its input while it runs.
* Headers of more than 1152 sectors, which overwrite video memory and ROM, and
  from the 1921st sector on the interrupt vectors.
* What a drive delivers from behind the end of an image, an older and longer image
  for instance: such bytes are all alike in `BuildAndBoot` and not of this build.
* Parallel makes. `Disk.img` does not name the targets that make its two
  prerequisites, so `make -j` may start it too early; the repository asks for
  serial makes only, and `build_serial` shows that the serial order suffices.
* Tools that are killed and sources that change while they are compiled: make
  compares times and cannot notice either.
* `ImageMaker` as a file of the build: the makefile runs the binary at the top
  and never rebuilds it. Nor are the makefiles themselves and the compilers inputs in
  `BuildGraph`: no rule remakes anything after a change of a flag or a tool.
* The linker script's contents (layout data, mostly the linker's default; the one
  consequence, `Main` at 0x10200, is a constant of `EntryPoint`; that it is read and
  named by no rule is in `BuildGraph`), IDE files and launchers
  (a placeholder program, a project file, one command line), study notes.
* `src/util`: the headers and plugins of a cross compiler and the documents of
  an assembler, third-party and only distributed here. They are nearly all of
  the repository's lines (of some 117,000 lines in C and headers fewer than a
  thousand belong to MINT64), and contain no code of this system. A large share
  of the repository's lines can therefore not be modelled; of the programs in
  `src/MINT64` every function and every label with code of its own is.

## 7. Plan

Nothing in the system is left without a model, and no safety property without a proof.
What could still be proved:

1. That `ImageMaker` refines an abstract maker, which appends padded files to an image and
   adds the count in one last step.
2. What the row of digits of `VirtualOS` says of disks with more than one fault.
3. For the loops behind the liveness properties, a variant that each turn makes
   smaller; only the step from there to `<>` would then be TLC's.
