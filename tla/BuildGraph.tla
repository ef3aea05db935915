----------------------------- MODULE BuildGraph -----------------------------
(***************************************************************************)
(* The makefiles: what one serial make in MINT64 rebuilds, in which order, *)
(* and what a make that fails on the way leaves for the next one.  A       *)
(* target is remade when one of its prerequisites is newer, or when it     *)
(* depends on ExecuteInternalBuild or dep, names no file ever has.  The    *)
(* linker script is read and is no prerequisite of anything.  Sources      *)
(* change between builds only.                                             *)
(***************************************************************************)
EXTENDS Naturals, Sequences

CONSTANTS
  MaxEdits,     \* bounds: changes of a source, and failing steps, explored
  MaxFailures

ASSUME BoundAssumption == MaxEdits \in Nat /\ MaxFailures \in Nat

\* ld's "-T ../elf_i386.x", and what the makefiles keep an eye on
LinkerScript == "elf_i386.x"
Watched      == {"BootLoader.asm", "EntryPoint.s", "Main.c", "Types.h"}
Sources      == Watched \cup {LinkerScript}

\* mutant: "all: Disk.img BootLoader Kernel32"
OrderDiskFirst == <<"Disk.img", "BootLoader.bin", "EntryPoint.bin", "Dependency.dep",
                    "Main.o", "Kernel32.elf", "Kernel32.elf.bin", "Kernel32.bin">>

\* the targets in the order in which make comes to them
Order == <<"BootLoader.bin", "EntryPoint.bin", "Dependency.dep", "Main.o",
           "Kernel32.elf", "Kernel32.elf.bin", "Kernel32.bin", "Disk.img">>

Targets == {Order[k] : k \in DOMAIN Order}

VARIABLES
  step,       \* index in Order of the target at hand; 0 when make is not running
  outcome,    \* of the last make, "none" if something changed since; "unnoticed"
              \* is a make that returns 0 although ImageMaker met a failure
  files,      \* the files there are
  newer,      \* <<f, g>>: f's modification time is later than g's
  version,    \* which version of each source is there
  made,       \* <<source, version>> of all that went into each target; nothing
              \* for a fragment that a failure left
  edits, failures

written == <<files, newer>>
vars    == <<step, outcome, written, version, made, edits, failures>>

-----------------------------------------------------------------------------
MainNeedsSource == {"Main.c"}    \* mutant: Dependency.dep is not included
MainNeeds       == {"Main.c", "Types.h"}

\* what the rules declare, Main.o's with the help of Dependency.dep
Needs(t) ==
  CASE t = "BootLoader.bin" -> {"BootLoader.asm"}
    [] t = "EntryPoint.bin" -> {"EntryPoint.s"}
    [] t = "Main.o"         -> MainNeeds
    [] t = "Kernel32.elf"   -> {"Main.o"}
    [] t = "Kernel32.bin"   -> {"EntryPoint.bin", "Kernel32.elf.bin"}
    [] t = "Disk.img"       -> {"BootLoader.bin", "Kernel32.bin"}
    [] OTHER                -> {}

AlwaysMadeDep == {"Dependency.dep"}    \* mutant: a file ExecuteInternalBuild lies about

\* the rules behind dep and ExecuteInternalBuild
AlwaysMade == {"Dependency.dep", "Kernel32.elf.bin"}

\* what the recipes read
Inputs(t) ==
  CASE t \in {"Dependency.dep", "Main.o"} -> {"Main.c", "Types.h"}
    [] t = "Kernel32.elf"     -> {"Main.o", LinkerScript}
    [] t = "Kernel32.elf.bin" -> {"Kernel32.elf"}
    [] t = "Kernel32.bin"     -> {"EntryPoint.bin", "Kernel32.elf.bin"}
    [] OTHER                  -> Needs(t)

\* recipes whose output is opened before anything is known of the input: the
\* shell's ">" and ImageMaker; the other tools remove the output of a failure
Redirected == {"Dependency.dep", "Kernel32.bin", "Disk.img"}

There(f)     == f \in files
Newer(f, g)  == <<f, g>> \in newer
OutOfDate(t) == t \in AlwaysMade \/ ~There(t) \/ \E f \in Needs(t) : Newer(f, t)

Others(f)    == {p \in newer : f \notin {p[1], p[2]}}

Touch(f) ==
  /\ files' = files \cup {f}
  /\ newer' = Others(f) \cup ({f} \X (files \ {f}))

Remove(f) ==
  /\ files' = files \ {f}
  /\ newer' = Others(f)

Contents(f)  == IF f \in Sources THEN {<<f, version[f]>>} ELSE made[f]

\* always remade, or depending on one that is: their age decides nothing
RemadeAnyway == {"Dependency.dep", "Kernel32.elf.bin", "Kernel32.bin"}

-----------------------------------------------------------------------------
\* what the repository's targets were made from
Origin(t) ==
  CASE t = "BootLoader.bin" -> {"BootLoader.asm"}
    [] t = "EntryPoint.bin" -> {"EntryPoint.s"}
    [] t \in {"Dependency.dep", "Main.o"}         -> {"Main.c", "Types.h"}
    [] t \in {"Kernel32.elf", "Kernel32.elf.bin"} -> {"Main.c", "Types.h", LinkerScript}
    [] t = "Kernel32.bin"   -> Sources \ {"BootLoader.asm"}
    [] t = "Disk.img"       -> Sources

SourcesOnly ==
  /\ files = Sources /\ newer = {}
  /\ made = [t \in Targets |-> {}]

\* a fresh clone: the repository holds the targets too, each checked out before
\* or after the sources
Clone ==
  \E older \in SUBSET (Targets \ RemadeAnyway) :
    LET younger == Targets \ older
    IN  /\ files = Sources \cup Targets
        /\ newer = (Sources \X older) \cup (younger \X (Sources \cup older))
        /\ made = [t \in Targets |-> {<<s, 1>> : s \in Origin(t)}]

Init ==
  /\ step = 0 /\ outcome = "none" /\ edits = 0 /\ failures = 0
  /\ version = [s \in Sources |-> 1]
  /\ SourcesOnly \/ Clone

Edit(s) ==
  /\ step = 0
  /\ edits < MaxEdits
  /\ version' = [version EXCEPT ![s] = @ + 1]
  /\ Touch(s)
  /\ outcome' = "none"
  /\ edits' = edits + 1
  /\ UNCHANGED <<step, made, failures>>

Clean ==
  /\ step = 0
  /\ files' = Sources
  /\ newer' = newer \cap (Sources \X Sources)
  /\ made' = [t \in Targets |-> {}]
  /\ outcome' = "none"
  /\ UNCHANGED <<step, version, edits, failures>>

Make ==
  /\ step = 0
  /\ outcome # "success"
  /\ step' = 1
  /\ outcome' = "none"
  /\ UNCHANGED <<written, version, made, edits, failures>>

\* make goes on, or ends
Proceed ==
  IF step < Len(Order) THEN step' = step + 1 /\ UNCHANGED outcome
                       ELSE step' = 0 /\ outcome' = "success"

LeaveAlone ==
  /\ step > 0
  /\ ~OutOfDate(Order[step])
  /\ Proceed
  /\ UNCHANGED <<written, version, made, edits, failures>>

\* without its inputs make has no rule to go on with
Remake ==
  LET t == Order[step]
  IN  /\ step > 0
      /\ OutOfDate(t)
      /\ \A f \in Inputs(t) : There(f)
      /\ Touch(t)
      /\ made' = [made EXCEPT ![t] = UNION {Contents(f) : f \in Inputs(t)}]
      /\ Proceed
      /\ UNCHANGED <<version, edits, failures>>

\* the tool fails before it touches its output, or after
Fail ==
  LET t == Order[step]
  IN  /\ step > 0
      /\ OutOfDate(t)
      /\ failures < MaxFailures
      /\ \/ UNCHANGED <<written, made>>
         \/ /\ IF t \in Redirected THEN Touch(t) ELSE Remove(t)
            /\ made' = [made EXCEPT ![t] = {}]
      /\ step' = 0
      /\ outcome' = "failure"
      /\ failures' = failures + 1
      /\ UNCHANGED <<version, edits>>

\* ImageMaker misses a failed read, or write of padding or count, and returns 0
FailUnnoticed ==
  /\ step > 0
  /\ Order[step] = "Disk.img"
  /\ OutOfDate("Disk.img")
  /\ \A f \in Inputs("Disk.img") : There(f)
  /\ failures < MaxFailures
  /\ Touch("Disk.img")
  /\ made' = [made EXCEPT !["Disk.img"] = {}]
  /\ step' = 0
  /\ outcome' = "unnoticed"
  /\ failures' = failures + 1
  /\ UNCHANGED <<version, edits>>

Build == Make \/ LeaveAlone \/ Remake \/ Fail \/ FailUnnoticed

Next == Build \/ Clean \/ \E s \in Sources : Edit(s)

\* a make that was started runs on; nobody has to start one
Spec == Init /\ [][Next]_vars /\ WF_vars(LeaveAlone \/ Remake \/ Fail \/ FailUnnoticed)

-----------------------------------------------------------------------------
\* the image of the sources as they are, linked by a version of the script
ImageOf(v) == {<<s, version[s]>> : s \in Watched} \cup {<<LinkerScript, v>>}

\* A make that returns 0 after an ImageMaker that missed no failure leaves a
\* whole Disk.img of the sources as they are, whatever earlier makes that failed
\* half-way, or the clone's modification times, had left.  The linker script
\* alone may be an older version, and only until the kernel is linked again: it
\* was changed since (makefile line 25 over 01.Kernel32/makefile lines 36-77).
SuccessMeansCurrent ==
  outcome = "success" =>
    /\ There("Disk.img")
    /\ \E v \in 1..version[LinkerScript] :
         /\ made["Disk.img"] = ImageOf(v)
         /\ v # version[LinkerScript] => Newer(LinkerScript, "Kernel32.elf")

\* Whatever writes Disk.img, also in a make that fails, puts a whole image there
\* or breaks off: the linker script is the only source of which it may have an
\* old version beside new ones of the others.
OnlyScriptStale ==
  [][made'["Disk.img"] # made["Disk.img"] =>
       \/ made'["Disk.img"] = {}
       \/ \E v \in 1..version[LinkerScript] : made'["Disk.img"] = ImageOf(v)]_vars

\* No failure blocks later builds: a make that meets no failing step succeeds,
\* without a clean before it.
Recovers == failures = MaxFailures /\ step = 1 ~> outcome = "success"
=============================================================================
