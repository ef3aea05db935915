-------------------------- MODULE BuildGraphProofs --------------------------
(***************************************************************************)
(* A make that succeeds leaves an image of the present sources, but for    *)
(* the linker script, after any number of edits, cleans and failed makes.  *)
(* The invariant has three parts: what modification times say of targets   *)
(* that make may skip (Kept), with which linker script the kernel that is  *)
(* there was linked (Linked), and what the make that is running has        *)
(* already put right (Done).                                               *)
(***************************************************************************)
EXTENDS BuildGraph, TLAPS

Files == Sources \cup Targets

\* the linker scripts that the kernel there is was linked with: one
LinkedWith == {p \in made["Kernel32.elf"] : p[1] = LinkerScript}

\* the sources that reach a target: the watched ones as they are now, and the
\* linker script as it was when the kernel was linked
WatchedPairs(t) == {<<s, version[s]>> : s \in Origin(t) \ {LinkerScript}}

Pairs(t) == WatchedPairs(t) \cup IF LinkerScript \in Origin(t) THEN LinkedWith ELSE {}

\* the targets make may skip, because a failure never leaves a fragment of them
Skippable == {"BootLoader.bin", "EntryPoint.bin", "Main.o", "Kernel32.elf"}

TypeOK ==
  /\ step \in 0..8
  /\ outcome \in {"none", "success", "unnoticed", "failure"}
  /\ Sources \subseteq files /\ files \subseteq Files
  /\ newer \subseteq files \X files
  /\ version \in [Sources -> Nat \ {0}]
  /\ made \in [Targets -> SUBSET (Sources \X Nat)]

UpToDate(t) == There(t) /\ \A f \in Needs(t) : There(f) /\ ~Newer(f, t)

\* what a target is made from besides what it needs
Unwatched(t) == IF t = "Kernel32.elf" THEN LinkedWith ELSE {}

MadeFromNeeds(t) == made[t] = (UNION {Contents(f) : f \in Needs(t)}) \cup Unwatched(t)

\* A target no older than all it needs was made from just that.
Kept == \A t \in Skippable : UpToDate(t) => MadeFromNeeds(t)

\* The kernel is linked by one version of the script, the present one unless the
\* script was changed since.
Linked ==
  There("Kernel32.elf") =>
    \E v \in 1..version[LinkerScript] :
      /\ LinkedWith = {<<LinkerScript, v>>}
      /\ v # version[LinkerScript] => Newer(LinkerScript, "Kernel32.elf")

Right(t) == There(t) /\ made[t] = Pairs(t)

\* The targets make has come past are right, and what depends on one that is
\* always remade will be remade.
Done ==
  /\ \A k \in 1..8 : k < step => Right(Order[k])
  /\ step = 7 => OutOfDate("Kernel32.bin")
  /\ step = 8 => OutOfDate("Disk.img")
  /\ outcome = "success" => step = 0 /\ Right("Disk.img") /\ There("Kernel32.elf")

IInv == TypeOK /\ Kept /\ Linked /\ Done

-----------------------------------------------------------------------------
LEMMA OrderFacts ==
  /\ Len(Order) = 8
  /\ DOMAIN Order = 1..8
  /\ Order[1] = "BootLoader.bin" /\ Order[2] = "EntryPoint.bin"
  /\ Order[3] = "Dependency.dep" /\ Order[4] = "Main.o"
  /\ Order[5] = "Kernel32.elf" /\ Order[6] = "Kernel32.elf.bin"
  /\ Order[7] = "Kernel32.bin" /\ Order[8] = "Disk.img"
  BY DEF Order

LEMMA TargetsFacts ==
  /\ Targets = {"BootLoader.bin", "EntryPoint.bin", "Dependency.dep", "Main.o",
                "Kernel32.elf", "Kernel32.elf.bin", "Kernel32.bin", "Disk.img"}
  /\ Sources \cap Targets = {}
  <1>1. \A k \in 1..8 : k \in {1, 2, 3, 4, 5, 6, 7, 8}
    OBVIOUS
  <1>2. Targets = {Order[k] : k \in {1, 2, 3, 4, 5, 6, 7, 8}}
    BY <1>1, OrderFacts DEF Targets
  <1>3. Targets = {Order[1], Order[2], Order[3], Order[4], Order[5], Order[6], Order[7], Order[8]}
    BY <1>2
  <1> QED
    BY <1>3, OrderFacts DEF Sources, Watched, LinkerScript

LEMMA SourcesFacts ==
  /\ LinkerScript = "elf_i386.x"
  /\ Sources = {"BootLoader.asm", "EntryPoint.s", "Main.c", "Types.h", "elf_i386.x"}
  BY DEF Sources, Watched, LinkerScript

\* The rules' tables, read out for each target.
LEMMA RuleFacts ==
  /\ Needs("BootLoader.bin") = {"BootLoader.asm"}
  /\ Needs("EntryPoint.bin") = {"EntryPoint.s"}
  /\ Needs("Main.o") = {"Main.c", "Types.h"}
  /\ Needs("Kernel32.elf") = {"Main.o"}
  /\ Needs("Kernel32.bin") = {"EntryPoint.bin", "Kernel32.elf.bin"}
  /\ Needs("Disk.img") = {"BootLoader.bin", "Kernel32.bin"}
  /\ Inputs("BootLoader.bin") = {"BootLoader.asm"}
  /\ Inputs("EntryPoint.bin") = {"EntryPoint.s"}
  /\ Inputs("Dependency.dep") = {"Main.c", "Types.h"}
  /\ Inputs("Main.o") = {"Main.c", "Types.h"}
  /\ Inputs("Kernel32.elf") = {"Main.o", LinkerScript}
  /\ Inputs("Kernel32.elf.bin") = {"Kernel32.elf"}
  /\ Inputs("Kernel32.bin") = {"EntryPoint.bin", "Kernel32.elf.bin"}
  /\ Inputs("Disk.img") = {"BootLoader.bin", "Kernel32.bin"}
  BY DEF Needs, Inputs, MainNeeds

LEMMA OriginFacts ==
  /\ Origin("BootLoader.bin") = {"BootLoader.asm"}
  /\ Origin("EntryPoint.bin") = {"EntryPoint.s"}
  /\ Origin("Dependency.dep") = {"Main.c", "Types.h"}
  /\ Origin("Main.o") = {"Main.c", "Types.h"}
  /\ Origin("Kernel32.elf") = {"Main.c", "Types.h", "elf_i386.x"}
  /\ Origin("Kernel32.elf.bin") = {"Main.c", "Types.h", "elf_i386.x"}
  /\ Origin("Kernel32.bin") = {"EntryPoint.s", "Main.c", "Types.h", "elf_i386.x"}
  /\ Origin("Disk.img") = {"BootLoader.asm", "EntryPoint.s", "Main.c", "Types.h", "elf_i386.x"}
  BY SourcesFacts DEF Origin

\* the present version of a source
Now(f) == {<<f, version[f]>>}

\* What reaches each target, source by source.
LEMMA PairsFacts ==
  /\ Pairs("BootLoader.bin") = Now("BootLoader.asm")
  /\ Pairs("EntryPoint.bin") = Now("EntryPoint.s")
  /\ Pairs("Dependency.dep") = Now("Main.c") \cup Now("Types.h")
  /\ Pairs("Main.o") = Now("Main.c") \cup Now("Types.h")
  /\ Pairs("Kernel32.elf") = Pairs("Main.o") \cup LinkedWith
  /\ Pairs("Kernel32.elf.bin") = Pairs("Main.o") \cup LinkedWith
  /\ Pairs("Kernel32.bin") = Now("EntryPoint.s") \cup Pairs("Main.o") \cup LinkedWith
  /\ Pairs("Disk.img") = Now("BootLoader.asm") \cup Pairs("Kernel32.bin")
  <1>1. /\ WatchedPairs("BootLoader.bin") = Now("BootLoader.asm")
        /\ WatchedPairs("EntryPoint.bin") = Now("EntryPoint.s")
    BY OriginFacts, SourcesFacts DEF WatchedPairs, Now
  <1>2. /\ WatchedPairs("Dependency.dep") = Now("Main.c") \cup Now("Types.h")
        /\ WatchedPairs("Main.o") = Now("Main.c") \cup Now("Types.h")
        /\ WatchedPairs("Kernel32.elf") = Now("Main.c") \cup Now("Types.h")
        /\ WatchedPairs("Kernel32.elf.bin") = Now("Main.c") \cup Now("Types.h")
    BY OriginFacts, SourcesFacts DEF WatchedPairs, Now
  <1>3. WatchedPairs("Kernel32.bin") = Now("EntryPoint.s") \cup Now("Main.c") \cup Now("Types.h")
    BY OriginFacts, SourcesFacts DEF WatchedPairs, Now
  <1>4. WatchedPairs("Disk.img") =
          Now("BootLoader.asm") \cup Now("EntryPoint.s") \cup Now("Main.c") \cup Now("Types.h")
    BY OriginFacts, SourcesFacts DEF WatchedPairs, Now
  <1>5. /\ Pairs("BootLoader.bin") = WatchedPairs("BootLoader.bin")
        /\ Pairs("EntryPoint.bin") = WatchedPairs("EntryPoint.bin")
        /\ Pairs("Dependency.dep") = WatchedPairs("Dependency.dep")
        /\ Pairs("Main.o") = WatchedPairs("Main.o")
    BY OriginFacts, SourcesFacts DEF Pairs
  <1>6. /\ Pairs("Kernel32.elf") = WatchedPairs("Kernel32.elf") \cup LinkedWith
        /\ Pairs("Kernel32.elf.bin") = WatchedPairs("Kernel32.elf.bin") \cup LinkedWith
        /\ Pairs("Kernel32.bin") = WatchedPairs("Kernel32.bin") \cup LinkedWith
        /\ Pairs("Disk.img") = WatchedPairs("Disk.img") \cup LinkedWith
    BY OriginFacts, SourcesFacts DEF Pairs
  <1> QED
    BY <1>1, <1>2, <1>3, <1>4, <1>5, <1>6

\* A target made from right inputs is right; the kernel is linked by the script
\* as it is now.
LEMMA MadeRight ==
  ASSUME TypeOK, NEW k \in 1..8, \A j \in 1..8 : j < k => Right(Order[j])
  PROVE  UNION {Contents(f) : f \in Inputs(Order[k])} =
           IF k = 5 THEN Pairs("Main.o") \cup Now(LinkerScript) ELSE Pairs(Order[k])
  <1>0. \A s \in Sources : Contents(s) = Now(s)
    BY DEF Contents, Now
  <1>1. \A t \in Targets : Contents(t) = made[t]
    BY TargetsFacts DEF Contents
  <1>2. CASE k = 1
    BY <1>0, <1>2, OrderFacts, RuleFacts, PairsFacts, SourcesFacts
  <1>3. CASE k = 2
    BY <1>0, <1>3, OrderFacts, RuleFacts, PairsFacts, SourcesFacts
  <1>4. CASE k = 3 \/ k = 4
    <2>1. Contents("Main.c") = Now("Main.c") /\ Contents("Types.h") = Now("Types.h")
      BY <1>0, SourcesFacts
    <2>2. Inputs(Order[k]) = {"Main.c", "Types.h"}
      BY <1>4, OrderFacts, RuleFacts
    <2>3. Pairs(Order[k]) = Now("Main.c") \cup Now("Types.h")
      BY <1>4, OrderFacts, PairsFacts
    <2> QED
      BY <1>4, <2>1, <2>2, <2>3
  <1>5. CASE k = 5
    <2>1. made["Main.o"] = Pairs("Main.o")
      BY <1>5, OrderFacts DEF Right
    <2>2. Contents("Main.o") = Pairs("Main.o")
      BY <1>1, <2>1, TargetsFacts
    <2>3. Contents(LinkerScript) = Now(LinkerScript)
      BY <1>0, SourcesFacts
    <2>4. Inputs(Order[k]) = {"Main.o", LinkerScript}
      BY <1>5, OrderFacts, RuleFacts
    <2> QED
      BY <1>5, <2>2, <2>3, <2>4
  <1>6. CASE k = 6
    <2>1. made["Kernel32.elf"] = Pairs("Kernel32.elf")
      BY <1>6, OrderFacts DEF Right
    <2>2. Contents("Kernel32.elf") = Pairs("Kernel32.elf")
      BY <1>1, <2>1, TargetsFacts
    <2> QED
      BY <2>2, <1>6, OrderFacts, RuleFacts, PairsFacts
  <1>7. CASE k = 7
    <2>1. /\ made["EntryPoint.bin"] = Pairs("EntryPoint.bin")
          /\ made["Kernel32.elf.bin"] = Pairs("Kernel32.elf.bin")
      BY <1>7, OrderFacts DEF Right
    <2>2. /\ Contents("EntryPoint.bin") = Pairs("EntryPoint.bin")
          /\ Contents("Kernel32.elf.bin") = Pairs("Kernel32.elf.bin")
      BY <1>1, <2>1, TargetsFacts
    <2>3. UNION {Contents(f) : f \in {"EntryPoint.bin", "Kernel32.elf.bin"}}
            = Contents("EntryPoint.bin") \cup Contents("Kernel32.elf.bin")
      OBVIOUS
    <2>4. Pairs("Kernel32.bin") = Pairs("EntryPoint.bin") \cup Pairs("Kernel32.elf.bin")
      BY PairsFacts
    <2> QED
      BY <2>2, <2>3, <2>4, <1>7, OrderFacts, RuleFacts
  <1>8. CASE k = 8
    <2>1. /\ made["BootLoader.bin"] = Pairs("BootLoader.bin")
          /\ made["Kernel32.bin"] = Pairs("Kernel32.bin")
      BY <1>8, OrderFacts DEF Right
    <2>2. /\ Contents("BootLoader.bin") = Pairs("BootLoader.bin")
          /\ Contents("Kernel32.bin") = Pairs("Kernel32.bin")
      BY <1>1, <2>1, TargetsFacts
    <2>3. UNION {Contents(f) : f \in {"BootLoader.bin", "Kernel32.bin"}}
            = Contents("BootLoader.bin") \cup Contents("Kernel32.bin")
      OBVIOUS
    <2>4. Pairs("Disk.img") = Pairs("BootLoader.bin") \cup Pairs("Kernel32.bin")
      BY PairsFacts
    <2> QED
      BY <2>2, <2>3, <2>4, <1>8, OrderFacts, RuleFacts
  <1> QED
    BY <1>2, <1>3, <1>4, <1>5, <1>6, <1>7, <1>8

-----------------------------------------------------------------------------
LEMMA RulesTyped ==
  ASSUME NEW t \in Targets
  PROVE  /\ Needs(t) \subseteq Files /\ Inputs(t) \subseteq Files /\ t \notin Needs(t)
         /\ t \in Skippable \ {"Kernel32.elf"} => Inputs(t) = Needs(t)
         /\ t \in Skippable => t \notin AlwaysMade \cup Redirected
  <1>1. t \in {"BootLoader.bin", "EntryPoint.bin", "Dependency.dep", "Main.o",
               "Kernel32.elf", "Kernel32.elf.bin", "Kernel32.bin", "Disk.img"}
    BY TargetsFacts
  <1>2. Needs("Dependency.dep") = {} /\ Needs("Kernel32.elf.bin") = {}
    BY DEF Needs
  <1>3. Needs(t) \subseteq Files /\ Inputs(t) \subseteq Files /\ t \notin Needs(t)
    BY <1>1, <1>2, RuleFacts, TargetsFacts, SourcesFacts DEF Files
  <1>4. t \in Skippable \ {"Kernel32.elf"} => Inputs(t) = Needs(t)
    BY RuleFacts DEF Skippable
  <1> QED
    BY <1>3, <1>4 DEF Skippable, AlwaysMade, Redirected

LEMMA ContentsTyped ==
  ASSUME TypeOK, NEW f \in Files
  PROVE  Contents(f) \in SUBSET (Sources \X Nat)
  <1>1. CASE f \in Sources
    <2>1. version[f] \in Nat
      BY <1>1 DEF TypeOK
    <2> QED
      BY <1>1, <2>1 DEF Contents
  <1>2. CASE f \notin Sources
    BY <1>2 DEF TypeOK, Contents, Files
  <1> QED
    BY <1>1, <1>2

\* What writing or removing one file does to the modification times.
LEMMA TouchFacts ==
  ASSUME TypeOK, NEW f \in Files, Touch(f)
  PROVE  /\ There(f)' /\ \A t : t # f => (There(t)' <=> There(t))
         /\ \A t \in files \ {f} : Newer(f, t)'
         /\ \A g, t : g # f /\ t # f => (Newer(g, t)' <=> Newer(g, t))
         /\ newer' \subseteq files' \X files'
         /\ Sources \subseteq files' /\ files' \subseteq Files
  <1>1. newer' \subseteq files' \X files'
    BY DEF TypeOK, Touch, Others
  <1>2. \A g, t : g # f /\ t # f => (<<g, t>> \in newer' <=> <<g, t>> \in newer)
    BY DEF Touch, Others
  <1>3. \A t \in files \ {f} : <<f, t>> \in newer'
    BY DEF Touch
  <1> QED
    BY <1>1, <1>2, <1>3 DEF TypeOK, Touch, There, Newer

LEMMA RemoveFacts ==
  ASSUME TypeOK, NEW f \in Targets, Remove(f)
  PROVE  /\ ~There(f)' /\ \A t : t # f => (There(t)' <=> There(t))
         /\ \A g, t : g # f /\ t # f => (Newer(g, t)' <=> Newer(g, t))
         /\ newer' \subseteq files' \X files'
         /\ Sources \subseteq files' /\ files' \subseteq Files
  <1>1. newer' \subseteq files' \X files'
    BY DEF TypeOK, Remove, Others
  <1>2. \A g, t : g # f /\ t # f => (<<g, t>> \in newer' <=> <<g, t>> \in newer)
    BY DEF Remove, Others
  <1>3. Sources \subseteq files' /\ files' \subseteq Files
    BY TargetsFacts DEF TypeOK, Remove
  <1> QED
    BY <1>1, <1>2, <1>3 DEF Remove, There, Newer

\* Writing or removing f says nothing false of any target: those that need f
\* have become out of date.
LEMMA KeptByOneFile ==
  ASSUME TypeOK, Kept, NEW f \in Files,
         Touch(f) \/ (f \in Targets /\ Remove(f)),
         \A g \in Files : g # f => Contents(g)' = Contents(g),
         f \in Skippable /\ There(f)' =>
           made'[f] = (UNION {Contents(g) : g \in Needs(f)}) \cup Unwatched(f)'
  PROVE  Kept'
  <1>1. SUFFICES ASSUME NEW t \in Skippable, UpToDate(t)'
                 PROVE  made'[t] = (UNION {Contents(g)' : g \in Needs(t)}) \cup Unwatched(t)'
    BY DEF Kept, MadeFromNeeds
  <1>2. t \in Targets /\ t \in Files /\ t \notin Sources
        /\ Needs(t) \subseteq Files /\ t \notin Needs(t)
    BY RulesTyped, TargetsFacts DEF Skippable, Files
  <1>3. Needs(t)' = Needs(t)
    OBVIOUS
  <1>4. There(t)' /\ \A g \in Needs(t) : There(g)' /\ ~Newer(g, t)'
    BY <1>1, <1>3 DEF UpToDate
  <1>5. CASE t = f
    <2>1. \A g \in Needs(t) : Contents(g)' = Contents(g)
      BY <1>2, <1>5
    <2> QED
      BY <1>4, <1>5, <2>1
  <1>6. CASE t # f
    <2>1. f \notin Needs(t)
      <3>1. CASE Touch(f)
        BY <1>4, <1>6, <3>1, TouchFacts DEF There
      <3>2. CASE f \in Targets /\ Remove(f)
        BY <1>4, <3>2, RemoveFacts
      <3> QED
        BY <3>1, <3>2
    <2>2. UpToDate(t)
      <3>1. There(t) /\ \A g \in Needs(t) : There(g) /\ ~Newer(g, t)
        BY <1>4, <1>6, <2>1, TouchFacts, RemoveFacts
      <3> QED
        BY <3>1 DEF UpToDate
    <2>3. \A g \in Needs(t) : Contents(g)' = Contents(g)
      BY <1>2, <2>1
    <2>4. made'[t] = made[t]
      BY <1>2, <1>6 DEF Contents
    <2>5. Unwatched(t)' = Unwatched(t)
      BY <2>4 DEF Unwatched, LinkedWith
    <2> QED
      BY <2>2, <2>3, <2>4, <2>5 DEF Kept, MadeFromNeeds
  <1> QED
    BY <1>5, <1>6

LEMMA InitIInv == Init => IInv
  <1> SUFFICES ASSUME Init PROVE IInv
    OBVIOUS
  <1>1. step = 0 /\ outcome = "none" /\ version = [s \in Sources |-> 1]
    BY DEF Init
  <1>2. CASE SourcesOnly
    <2>1. TypeOK
      BY <1>1, <1>2 DEF SourcesOnly, TypeOK, Files
    <2>2. Kept
      BY <1>2, TargetsFacts DEF SourcesOnly, Kept, UpToDate, There, Skippable
    <2>3. Linked
      BY <1>2, TargetsFacts DEF SourcesOnly, Linked, There
    <2> QED
      BY <1>1, <2>1, <2>2, <2>3 DEF Done, IInv
  <1>3. CASE Clone
    <2>1. /\ files = Files /\ newer \subseteq files \X files
          /\ made = [t \in Targets |-> {<<s, 1>> : s \in Origin(t)}]
      BY <1>3 DEF Clone, Files
    <2>2. \A t \in Targets : Origin(t) \subseteq Sources
      BY TargetsFacts, OriginFacts, SourcesFacts
    <2>3. made \in [Targets -> SUBSET (Sources \X Nat)]
      BY <2>1, <2>2
    <2>4. TypeOK
      BY <1>1, <2>1, <2>3 DEF TypeOK, Files
    <2>5. LinkedWith = Now(LinkerScript) /\ version[LinkerScript] = 1
      <3>1. made["Kernel32.elf"] = {<<"Main.c", 1>>, <<"Types.h", 1>>, <<"elf_i386.x", 1>>}
        BY <2>1, OriginFacts, TargetsFacts
      <3>2. version[LinkerScript] = 1
        BY <1>1, SourcesFacts
      <3> QED
        BY <3>1, <3>2, SourcesFacts DEF LinkedWith, Now
    <2>6. \A t \in Targets : made[t] = Pairs(t)
      <3>1. TAKE t \in Targets
      <3>2. \A s \in Origin(t) : version[s] = 1
        BY <1>1, <2>2
      <3>3. made[t] = {<<s, version[s]>> : s \in Origin(t)}
        BY <2>1, <3>2
      <3> QED
        BY <2>5, <3>3 DEF Pairs, WatchedPairs, Now
    <2>7. Kept
      <3>1. \A k \in 1..8 : Right(Order[k])
        BY <2>1, <2>6, OrderFacts DEF Right, There, Files, Targets
      <3>2. \A k \in 1..8 : k # 5 => made[Order[k]] = UNION {Contents(f) : f \in Inputs(Order[k])}
        BY <2>4, <3>1, MadeRight DEF Right
      <3>3. \A t \in Skippable : t = "Kernel32.elf" \/ \E k \in 1..8 : k # 5 /\ t = Order[k]
        BY OrderFacts DEF Skippable
      <3>4. \A t \in Skippable : t # "Kernel32.elf" =>
              Inputs(t) = Needs(t) /\ Unwatched(t) = {}
        BY RuleFacts DEF Skippable, Unwatched
      <3>5. MadeFromNeeds("Kernel32.elf")
        BY <2>6, RuleFacts, PairsFacts, TargetsFacts DEF MadeFromNeeds, Unwatched, Contents
      <3>6. \A t \in Skippable : t # "Kernel32.elf" => MadeFromNeeds(t)
        BY <3>2, <3>3, <3>4 DEF MadeFromNeeds
      <3> QED
        BY <3>5, <3>6 DEF Kept
    <2>8. Linked
      BY <2>5 DEF Linked, Now
    <2> QED
      BY <1>1, <2>4, <2>7, <2>8 DEF Done, IInv
  <1> QED
    BY <1>2, <1>3 DEF Init

LEMMA EditIInv ==
  ASSUME IInv, NEW s \in Sources, Edit(s)
  PROVE  IInv'
  <1>1. /\ step = 0 /\ step' = 0 /\ outcome' = "none" /\ Touch(s) /\ made' = made
        /\ version' = [version EXCEPT ![s] = @ + 1]
    BY DEF Edit
  <1>2. TypeOK /\ Kept
    BY DEF IInv
  <1>3. TypeOK'
    <2>1. version' \in [Sources -> Nat \ {0}]
      BY <1>1, <1>2 DEF TypeOK
    <2> QED
      BY <1>1, <1>2, <2>1, TouchFacts DEF TypeOK, Files
  <1>4. \A g \in Files : g # s => Contents(g)' = Contents(g)
    BY <1>1, <1>2 DEF Contents, TypeOK
  <1>5. Kept'
    <2>1. s \notin Skippable
      BY SourcesFacts DEF Skippable
    <2> QED
      BY <1>1, <1>2, <1>4, <2>1, KeptByOneFile DEF Files
  <1>6. Linked'
    <2>1. SUFFICES ASSUME There("Kernel32.elf")'
                   PROVE  \E v \in 1..version'[LinkerScript] :
                            /\ LinkedWith' = {<<LinkerScript, v>>}
                            /\ v # version'[LinkerScript] => Newer(LinkerScript, "Kernel32.elf")'
      BY DEF Linked
    <2>2. s # "Kernel32.elf" /\ s \in Files /\ LinkerScript \in Sources
      BY SourcesFacts DEF Files
    <2>3. There("Kernel32.elf")
      BY <1>1, <1>2, <2>1, <2>2, TouchFacts
    <2>4. PICK v \in 1..version[LinkerScript] :
            /\ LinkedWith = {<<LinkerScript, v>>}
            /\ v # version[LinkerScript] => Newer(LinkerScript, "Kernel32.elf")
      BY <2>3 DEF IInv, Linked
    <2>5. LinkedWith' = {<<LinkerScript, v>>}
      BY <1>1, <2>4 DEF LinkedWith
    <2>6. /\ version[LinkerScript] \in Nat
          /\ version'[LinkerScript] =
               IF s = LinkerScript THEN version[LinkerScript] + 1 ELSE version[LinkerScript]
      BY <1>1, <1>2, <2>2 DEF TypeOK
    <2>7. CASE s = LinkerScript
      <3>1. Newer(LinkerScript, "Kernel32.elf")'
        BY <1>1, <1>2, <2>2, <2>3, <2>7, TouchFacts DEF There
      <3> QED
        BY <2>4, <2>5, <2>6, <2>7, <3>1
    <2>8. CASE s # LinkerScript
      <3>1. Newer(LinkerScript, "Kernel32.elf")' <=> Newer(LinkerScript, "Kernel32.elf")
        BY <1>1, <1>2, <2>2, <2>8, TouchFacts
      <3> QED
        BY <2>4, <2>5, <2>6, <2>8, <3>1
    <2> QED
      BY <2>7, <2>8
  <1> QED
    BY <1>1, <1>3, <1>5, <1>6 DEF IInv, Done

LEMMA CleanIInv == IInv /\ Clean => IInv'
  <1> SUFFICES ASSUME IInv, Clean PROVE IInv'
    OBVIOUS
  <1>1. /\ step' = 0 /\ outcome' = "none" /\ files' = Sources /\ version' = version
        /\ newer' = newer \cap (Sources \X Sources) /\ made' = [t \in Targets |-> {}]
    BY DEF Clean
  <1>2. TypeOK'
    BY <1>1 DEF IInv, TypeOK, Files
  <1>3. Kept'
    BY <1>1, TargetsFacts DEF Kept, UpToDate, There, Skippable
  <1>4. Linked'
    BY <1>1, TargetsFacts DEF Linked, There
  <1> QED
    BY <1>1, <1>2, <1>3, <1>4 DEF IInv, Done

LEMMA KeptUnchanged ==
  ASSUME UNCHANGED <<written, version, made>>
  PROVE  /\ Kept => Kept'
         /\ Linked => Linked'
         /\ \A f : There(f) => There(f)'
         /\ \A t : Right(t) => Right(t)'
         /\ \A t : OutOfDate(t)' <=> OutOfDate(t)
  BY DEF written, Kept, UpToDate, MadeFromNeeds, Unwatched, Linked, LinkedWith, There,
         Newer, Contents, Right, Pairs, WatchedPairs, OutOfDate

LEMMA MakeIInv == IInv /\ Make => IInv'
  <1> SUFFICES ASSUME IInv, Make PROVE IInv'
    OBVIOUS
  <1>1. /\ step' = 1 /\ outcome' = "none"
        /\ UNCHANGED <<written, version, made>>
    BY DEF Make
  <1>2. TypeOK'
    BY <1>1 DEF IInv, TypeOK, written
  <1> QED
    BY <1>1, <1>2, KeptUnchanged DEF IInv, Done

\* What make skips is right already.
LEMMA SkippedRight ==
  ASSUME IInv, LeaveAlone
  PROVE  step \in 1..5 /\ Right(Order[step])
  <1>1. step \in 1..8 /\ ~OutOfDate(Order[step]) /\ TypeOK
    BY DEF LeaveAlone, IInv, TypeOK
  <1>2. step \in {1, 2, 4, 5}
    <2>1. step \notin {3, 6}
      BY <1>1, OrderFacts DEF OutOfDate, AlwaysMade
    <2>2. step \notin {7, 8}
      BY <1>1, OrderFacts DEF IInv, Done
    <2> QED
      BY <1>1, <2>1, <2>2
  <1> DEFINE t == Order[step]
  <1>3. t \in Skippable /\ t \in Targets
    BY <1>2, OrderFacts, TargetsFacts DEF Skippable
  <1>4. \A k \in 1..8 : k < step => Right(Order[k])
    BY DEF IInv, Done
  <1>5. \A f \in Needs(t) : There(f)
    <2>1. CASE step \in {1, 2, 4}
      BY <1>1, <2>1, OrderFacts, RuleFacts, SourcesFacts DEF TypeOK, There
    <2>2. CASE step = 5
      BY <1>4, <2>2, OrderFacts, RuleFacts DEF Right
    <2> QED
      BY <1>2, <2>1, <2>2
  <1>6. UpToDate(t)
    BY <1>1, <1>5 DEF OutOfDate, UpToDate
  <1>7. MadeFromNeeds(t)
    BY <1>3, <1>6 DEF IInv, Kept
  <1>8. CASE step # 5
    <2>1. t # "Kernel32.elf"
      BY <1>2, <1>8, OrderFacts
    <2>2. made[t] = UNION {Contents(f) : f \in Inputs(t)}
      BY <1>3, <1>7, <2>1, RulesTyped DEF MadeFromNeeds, Unwatched
    <2>3. made[t] = Pairs(t)
      BY <1>1, <1>4, <1>8, <2>2, MadeRight
    <2> QED
      BY <1>2, <1>6, <2>3 DEF Right, UpToDate
  <1>9. CASE step = 5
    <2>1. t = "Kernel32.elf" /\ Needs(t) = {"Main.o"}
      BY <1>9, OrderFacts, RuleFacts
    <2>2. Contents("Main.o") = Pairs("Main.o")
      BY <1>4, <1>9, OrderFacts, TargetsFacts DEF Right, Contents
    <2>3. made[t] = Pairs(t)
      BY <1>7, <2>1, <2>2, PairsFacts DEF MadeFromNeeds, Unwatched
    <2> QED
      BY <1>2, <1>6, <2>3 DEF Right, UpToDate
  <1> QED
    BY <1>8, <1>9

LEMMA LeaveAloneIInv == IInv /\ LeaveAlone => IInv'
  <1> SUFFICES ASSUME IInv, LeaveAlone PROVE IInv'
    OBVIOUS
  <1>1. step \in 1..5 /\ Right(Order[step])
    BY SkippedRight
  <1>2. UNCHANGED <<written, version, made>> /\ step' = step + 1 /\ outcome' = outcome
    BY <1>1, OrderFacts DEF LeaveAlone, Proceed
  <1>3. TypeOK'
    BY <1>1, <1>2 DEF IInv, TypeOK, written
  <1>4. \A k \in 1..8 : k < step' => Right(Order[k])'
    <2>1. \A k \in 1..8 : k < step' => Right(Order[k])
      BY <1>1, <1>2 DEF IInv, Done
    <2> QED
      BY <1>2, <2>1, KeptUnchanged DEF Right
  <1>5. outcome # "success"
    BY <1>1 DEF IInv, Done
  <1>6. Kept'
    BY <1>2, KeptUnchanged DEF IInv
  <1>7. step' \notin {7, 8}
    BY <1>1, <1>2
  <1>8. Linked'
    BY <1>2, KeptUnchanged DEF IInv
  <1> QED
    BY <1>2, <1>3, <1>4, <1>5, <1>6, <1>7, <1>8 DEF IInv, Done

\* A recipe that runs makes its target from what is right, the kernel's with the
\* linker script there is.
LEMMA RemadeRight ==
  ASSUME IInv, Remake, NEW t \in Targets, t = Order[step]
  PROVE  /\ step \in 1..8 /\ Touch(t) /\ version' = version
         /\ made' = [made EXCEPT ![t] = UNION {Contents(f) : f \in Inputs(t)}]
         /\ made'[t] = Pairs(t)'
         /\ LinkedWith' = IF step = 5 THEN Now(LinkerScript) ELSE LinkedWith
  <1> DEFINE new == UNION {Contents(f) : f \in Inputs(t)}
  <1>1. step \in 1..8 /\ TypeOK
    BY DEF Remake, IInv, TypeOK
  <1>2. new = IF step = 5 THEN Pairs("Main.o") \cup Now(LinkerScript) ELSE Pairs(t)
    BY <1>1, MadeRight DEF IInv, Done
  <1>3. Touch(t) /\ version' = version /\ made' = [made EXCEPT ![t] = new]
    BY DEF Remake
  <1> HIDE DEF new
  <1>4. made'[t] = new /\ \A g \in Targets : g # t => made'[g] = made[g]
    BY <1>1, <1>3 DEF TypeOK
  <1>5. \A g : WatchedPairs(g)' = WatchedPairs(g)
    BY <1>3 DEF WatchedPairs
  <1>6. CASE step = 5
    <2>1. t = "Kernel32.elf"
      BY <1>6, OrderFacts
    <2>2. made'["Kernel32.elf"] = Pairs("Main.o") \cup Now(LinkerScript)
      BY <1>2, <1>4, <1>6, <2>1
    <2>3. \A p \in Pairs("Main.o") : p[1] # LinkerScript
      BY PairsFacts, SourcesFacts DEF Now
    <2>4. LinkedWith' = Now(LinkerScript)
      BY <2>2, <2>3 DEF LinkedWith, Now
    <2>5. WatchedPairs("Kernel32.elf") = Pairs("Main.o")
      BY OriginFacts, SourcesFacts DEF Pairs, WatchedPairs
    <2>6. Pairs("Kernel32.elf")' = WatchedPairs("Kernel32.elf") \cup LinkedWith'
      BY <1>5, OriginFacts, SourcesFacts DEF Pairs
    <2>7. made'[t] = Pairs(t)'
      BY <2>1, <2>2, <2>4, <2>5, <2>6
    <2> QED
      BY <1>1, <1>3, <1>6, <2>4, <2>7 DEF new
  <1>7. CASE step # 5
    <2>1. t # "Kernel32.elf"
      BY <1>1, <1>7, OrderFacts
    <2>2. made'["Kernel32.elf"] = made["Kernel32.elf"]
      BY <1>4, <2>1, TargetsFacts
    <2>3. LinkedWith' = LinkedWith
      BY <2>2 DEF LinkedWith
    <2>4. made'[t] = Pairs(t)'
      BY <1>2, <1>4, <1>5, <1>7, <2>3 DEF Pairs
    <2> QED
      BY <1>1, <1>3, <1>7, <2>3, <2>4 DEF new
  <1> QED
    BY <1>6, <1>7

LEMMA RemakeIInv == IInv /\ Remake => IInv'
  <1> SUFFICES ASSUME IInv, Remake PROVE IInv'
    OBVIOUS
  <1>0. PICK t \in Targets : t = Order[step]
    BY OrderFacts DEF Targets, Remake, IInv, TypeOK
  <1>1. /\ step \in 1..8 /\ Touch(t) /\ version' = version /\ t \in Targets /\ t \in Files
        /\ made' = [made EXCEPT ![t] = UNION {Contents(f) : f \in Inputs(t)}]
        /\ LinkedWith' = IF step = 5 THEN Now(LinkerScript) ELSE LinkedWith
    BY <1>0, RemadeRight DEF Files
  <1>2. TypeOK /\ Kept
    BY DEF IInv
  <1>3. IF step < 8 THEN step' = step + 1 /\ outcome' = outcome
                    ELSE step' = 0 /\ outcome' = "success"
    BY OrderFacts DEF Remake, Proceed
  <1>4. /\ made'[t] = UNION {Contents(f) : f \in Inputs(t)}
        /\ \A g \in Targets : g # t => made'[g] = made[g]
    BY <1>1, <1>2 DEF TypeOK
  <1>5. \A g : step # 5 \/ LinkerScript \notin Origin(g) => Pairs(g)' = Pairs(g)
    BY <1>1 DEF Pairs, WatchedPairs
  <1>6. /\ made'[t] = Pairs(t)' /\ There(t)'
        /\ \A g \in Targets : /\ Right(g)
                              /\ g # t
                              /\ step # 5 \/ LinkerScript \notin Origin(g)
                              => Right(g)'
    <2>1. There(t)' /\ \A g : g # t => (There(g)' <=> There(g))
      BY <1>1, <1>2, TouchFacts
    <2>2. made'[t] = Pairs(t)'
      BY <1>0, RemadeRight
    <2> QED
      BY <1>4, <1>5, <2>1, <2>2 DEF Right
  <1>7. \A k \in 1..8 : Order[k] \in Targets
    BY OrderFacts DEF Targets
  <1>8. TypeOK'
    <2>1. \A f \in Inputs(t) : Contents(f) \in SUBSET (Sources \X Nat)
      BY <1>1, <1>2, RulesTyped, ContentsTyped
    <2>2. UNION {Contents(f) : f \in Inputs(t)} \in SUBSET (Sources \X Nat)
      BY <2>1
    <2>3. made' \in [Targets -> SUBSET (Sources \X Nat)]
      BY <1>1, <1>2, <2>2 DEF TypeOK
    <2>4. step' \in 0..8 /\ outcome' \in {"none", "success", "unnoticed", "failure"}
      BY <1>1, <1>2, <1>3 DEF TypeOK
    <2> QED
      BY <1>1, <1>2, <2>3, <2>4, TouchFacts DEF TypeOK
  <1>9. Kept'
    <2>1. \A g \in Files : g # t => Contents(g)' = Contents(g)
      BY <1>1, <1>4 DEF Contents, Files
    <2>2. ASSUME t = "Kernel32.elf"
          PROVE  made'[t] = (UNION {Contents(g) : g \in Needs(t)}) \cup Unwatched(t)'
      <3>1. step = 5
        <4>1. step \in {1, 2, 3, 4, 5, 6, 7, 8}
          BY <1>1
        <4> QED
          BY <1>0, <2>2, <4>1, OrderFacts
      <3>2. Unwatched(t)' = Now(LinkerScript)
        BY <1>1, <2>2, <3>1 DEF Unwatched
      <3>3. Contents(LinkerScript) = Now(LinkerScript)
        BY SourcesFacts DEF Contents, Now
      <3> QED
        BY <1>4, <2>2, <3>2, <3>3, RuleFacts
    <2>3. ASSUME t \in Skippable, t # "Kernel32.elf"
          PROVE  made'[t] = (UNION {Contents(g) : g \in Needs(t)}) \cup Unwatched(t)'
      BY <1>1, <1>4, <2>3, RulesTyped DEF Unwatched
    <2> QED
      BY <1>1, <1>2, <2>1, <2>2, <2>3, KeptByOneFile
  <1>10. \A k \in 1..8 : k < step' => Right(Order[k])'
    <2>1. SUFFICES ASSUME NEW k \in 1..8, k < step' PROVE Right(Order[k])'
      BY DEF Right
    <2>2. k <= step
      BY <1>1, <1>3, <2>1
    <2>3. CASE k = step
      BY <1>0, <1>6, <2>3 DEF Right
    <2>4. CASE k < step
      <3>1. Right(Order[k])
        BY <2>4 DEF IInv, Done
      <3>2. Order[k] # t
        BY <1>0, <1>1, <2>4, OrderFacts
      <3>3. step # 5 \/ LinkerScript \notin Origin(Order[k])
        BY <2>4, OrderFacts, OriginFacts, SourcesFacts
      <3> QED
        BY <1>6, <1>7, <3>1, <3>2, <3>3
    <2> QED
      BY <1>1, <2>2, <2>3, <2>4
  <1>11. step' = 7 => OutOfDate("Kernel32.bin")'
    <2>1. SUFFICES ASSUME step' = 7, There("Kernel32.bin")'
                   PROVE  Newer("Kernel32.elf.bin", "Kernel32.bin")'
      BY RuleFacts DEF OutOfDate
    <2>2. t = "Kernel32.elf.bin"
      BY <1>0, <1>1, <1>3, <2>1, OrderFacts
    <2> QED
      BY <1>1, <1>2, <2>1, <2>2, TouchFacts DEF There
  <1>12. step' = 8 => OutOfDate("Disk.img")'
    <2>1. SUFFICES ASSUME step' = 8, There("Disk.img")'
                   PROVE  Newer("Kernel32.bin", "Disk.img")'
      BY RuleFacts DEF OutOfDate
    <2>2. t = "Kernel32.bin"
      BY <1>0, <1>1, <1>3, <2>1, OrderFacts
    <2> QED
      BY <1>1, <1>2, <2>1, <2>2, TouchFacts DEF There
  <1>13. outcome' = "success" =>
           step' = 0 /\ Right("Disk.img")' /\ There("Kernel32.elf")'
    <2>1. CASE step = 8
      <3>1. t = "Disk.img" /\ Right("Disk.img")'
        BY <1>0, <1>6, <2>1, OrderFacts DEF Right
      <3>2. There("Kernel32.elf")
        BY <2>1, OrderFacts DEF IInv, Done, Right
      <3>3. There("Kernel32.elf")'
        BY <1>1, <1>2, <3>1, <3>2, TouchFacts
      <3> QED
        BY <1>3, <2>1, <3>1, <3>3
    <2>2. CASE step # 8
      <3>1. outcome # "success"
        BY <1>1 DEF IInv, Done
      <3> QED
        BY <1>1, <1>3, <2>2, <3>1
    <2> QED
      BY <2>1, <2>2
  <1>14. Linked'
    <2>1. CASE step = 5
      <3>1. version[LinkerScript] \in 1..version[LinkerScript]
        BY <1>2, SourcesFacts DEF TypeOK
      <3> QED
        BY <1>1, <2>1, <3>1 DEF Linked, Now
    <2>2. CASE step # 5
      <3>1. t # "Kernel32.elf" /\ t # LinkerScript
        BY <1>0, <1>1, <2>2, OrderFacts, TargetsFacts, SourcesFacts
      <3>2. /\ There("Kernel32.elf")' <=> There("Kernel32.elf")
            /\ Newer(LinkerScript, "Kernel32.elf")' <=> Newer(LinkerScript, "Kernel32.elf")
        BY <1>1, <1>2, <3>1, TouchFacts
      <3> QED
        BY <1>1, <2>2, <3>2 DEF IInv, Linked
    <2> QED
      BY <2>1, <2>2
  <1> QED
    BY <1>8, <1>9, <1>10, <1>11, <1>12, <1>13, <1>14 DEF IInv, Done

\* What a failure that breaks off a make, noticed or not, leaves of the invariant
\* when it has spoilt its target.
LEMMA SpoiltIInv ==
  ASSUME IInv, NEW t \in Targets,
         IF t \in Redirected THEN Touch(t) ELSE Remove(t),
         made' = [made EXCEPT ![t] = {}], version' = version, step' = 0,
         outcome' \in {"failure", "unnoticed"}
  PROVE  IInv'
  <1>1. TypeOK /\ Kept /\ t \in Files
    BY DEF IInv, Files
  <1>2. made' \in [Targets -> SUBSET (Sources \X Nat)]
    BY <1>1 DEF TypeOK
  <1>3. TypeOK'
    BY <1>1, <1>2, TouchFacts, RemoveFacts DEF TypeOK
  <1>4. \A g \in Files : g # t => Contents(g)' = Contents(g)
    BY <1>1 DEF Contents, Files, TypeOK
  <1>5. t \in Skippable => ~There(t)'
    BY <1>1, RulesTyped, RemoveFacts
  <1>6. Kept'
    BY <1>1, <1>4, <1>5, KeptByOneFile
  <1>7. Linked'
    <2>1. CASE t = "Kernel32.elf"
      BY <1>5, <2>1 DEF Linked, Skippable
    <2>2. CASE t # "Kernel32.elf"
      <3>1. t # LinkerScript /\ "Kernel32.elf" \in Targets
        BY TargetsFacts, SourcesFacts
      <3>2. /\ There("Kernel32.elf")' <=> There("Kernel32.elf")
            /\ Newer(LinkerScript, "Kernel32.elf")' <=> Newer(LinkerScript, "Kernel32.elf")
        BY <1>1, <2>2, <3>1, TouchFacts, RemoveFacts
      <3>3. LinkedWith' = LinkedWith
        BY <1>1, <2>2, <3>1 DEF TypeOK, LinkedWith
      <3> QED
        BY <3>2, <3>3 DEF IInv, Linked
    <2> QED
      BY <2>1, <2>2
  <1> QED
    BY <1>3, <1>6, <1>7 DEF IInv, Done

LEMMA FailIInv == IInv /\ Fail => IInv'
  <1> SUFFICES ASSUME IInv, Fail PROVE IInv'
    OBVIOUS
  <1>1. step' = 0 /\ outcome' = "failure" /\ version' = version /\ step \in 1..8
    BY DEF Fail, IInv, TypeOK
  <1>2. PICK t \in Targets : t = Order[step]
    BY <1>1, OrderFacts DEF Targets
  <1>3. CASE UNCHANGED <<written, made>>
    <2>1. TypeOK'
      BY <1>1, <1>3 DEF IInv, TypeOK, written
    <2> QED
      BY <1>1, <1>3, <2>1, KeptUnchanged DEF IInv, Done
  <1>4. CASE /\ IF t \in Redirected THEN Touch(t) ELSE Remove(t)
             /\ made' = [made EXCEPT ![t] = {}]
    BY <1>1, <1>4, SpoiltIInv
  <1> QED
    BY <1>2, <1>3, <1>4 DEF Fail

LEMMA FailUnnoticedIInv == IInv /\ FailUnnoticed => IInv'
  <1> SUFFICES ASSUME IInv, FailUnnoticed PROVE IInv'
    OBVIOUS
  <1>1. "Disk.img" \in Targets /\ "Disk.img" \in Redirected
    BY TargetsFacts DEF Redirected
  <1> QED
    BY <1>1, SpoiltIInv DEF FailUnnoticed

LEMMA NextIInv == IInv /\ [Next]_vars => IInv'
  <1> SUFFICES ASSUME IInv, [Next]_vars PROVE IInv'
    OBVIOUS
  <1>1. CASE UNCHANGED vars
    <2>1. UNCHANGED <<step, outcome, written, version, made>>
      BY <1>1 DEF vars
    <2>2. TypeOK'
      BY <2>1 DEF IInv, TypeOK, written
    <2> QED
      BY <2>1, <2>2, KeptUnchanged DEF IInv, Done
  <1> QED
    BY <1>1, EditIInv, CleanIInv, MakeIInv, LeaveAloneIInv, RemakeIInv, FailIInv,
       FailUnnoticedIInv
    DEF Next, Build

-----------------------------------------------------------------------------
\* Where the kernel is there and Disk.img is right, it is an image of the sources
\* as they are, linked by the script the kernel was linked by.
LEMMA RightImage ==
  ASSUME IInv, There("Kernel32.elf")
  PROVE  \E v \in 1..version[LinkerScript] :
           /\ Pairs("Disk.img") = ImageOf(v)
           /\ v # version[LinkerScript] => Newer(LinkerScript, "Kernel32.elf")
  <1>1. PICK v \in 1..version[LinkerScript] :
          /\ LinkedWith = {<<LinkerScript, v>>}
          /\ v # version[LinkerScript] => Newer(LinkerScript, "Kernel32.elf")
    BY DEF IInv, Linked
  <1>2. WatchedPairs("Disk.img") = {<<s, version[s]>> : s \in Watched}
    <2>1. Origin("Disk.img") \ {LinkerScript} = Watched
      BY OriginFacts, SourcesFacts DEF Watched
    <2> QED
      BY <2>1 DEF WatchedPairs
  <1>3. Pairs("Disk.img") = ImageOf(v)
    BY <1>1, <1>2, OriginFacts, SourcesFacts DEF Pairs, ImageOf
  <1> QED
    BY <1>1, <1>3

\* A make that returns 0 after an ImageMaker that missed no failure leaves a whole
\* image of the present sources, the linker script at most an older version that
\* was changed since the kernel was linked: after any number of edits, cleans and
\* makes that failed, noticed or not.
THEOREM SuccessMeansCurrentHolds == Spec => []SuccessMeansCurrent
  <1>1. IInv => SuccessMeansCurrent
    <2> SUFFICES ASSUME IInv, outcome = "success"
                 PROVE  /\ There("Disk.img")
                        /\ \E v \in 1..version[LinkerScript] :
                             /\ made["Disk.img"] = ImageOf(v)
                             /\ v # version[LinkerScript] => Newer(LinkerScript, "Kernel32.elf")
      BY DEF SuccessMeansCurrent
    <2>1. Right("Disk.img") /\ There("Kernel32.elf")
      BY DEF IInv, Done
    <2> QED
      BY <2>1, RightImage DEF Right
  <1> QED
    BY <1>1, InitIInv, NextIInv, PTL DEF Spec

\* Whatever writes Disk.img puts the present sources there, with one version of
\* the linker script, or nothing whole.
THEOREM OnlyScriptStaleHolds == Spec => OnlyScriptStale
  <1> DEFINE Written == \/ made'["Disk.img"] = {}
                        \/ \E v \in 1..version[LinkerScript] : made'["Disk.img"] = ImageOf(v)
  <1>1. IInv /\ [Next]_vars => [made'["Disk.img"] # made["Disk.img"] => Written]_vars
    <2> SUFFICES ASSUME IInv, Next, made'["Disk.img"] # made["Disk.img"]
                 PROVE  Written
      BY DEF vars
    <2>1. "Disk.img" \in Targets /\ made \in [Targets -> SUBSET (Sources \X Nat)]
      BY TargetsFacts DEF IInv, TypeOK
    <2>2. CASE Clean
      BY <2>1, <2>2 DEF Clean
    <2>3. CASE Remake
      <3>0. PICK t \in Targets : t = Order[step]
        BY <2>3, OrderFacts DEF Targets, Remake, IInv, TypeOK
      <3>1. /\ step \in 1..8 /\ Order[step] = "Disk.img"
            /\ made'["Disk.img"] = UNION {Contents(f) : f \in Inputs("Disk.img")}
        <4>1. /\ step \in 1..8
              /\ made' = [made EXCEPT ![t] = UNION {Contents(f) : f \in Inputs(t)}]
          BY <2>3, <3>0, RemadeRight
        <4>2. t = "Disk.img"
          BY <2>1, <4>1
        <4> QED
          BY <2>1, <3>0, <4>1, <4>2
      <3>2. step = 8
        BY <3>1, OrderFacts
      <3>3. \A k \in 1..8 : k < step => Right(Order[k])
        BY DEF IInv, Done
      <3>4. made'["Disk.img"] = Pairs("Disk.img")
        BY <3>1, <3>2, <3>3, MadeRight DEF IInv
      <3>5. There("Kernel32.elf")
        BY <3>2, <3>3, OrderFacts DEF Right
      <3> QED
        BY <3>4, <3>5, RightImage
    <2>4. CASE Fail
      BY <2>1, <2>4 DEF Fail
    <2>5. CASE FailUnnoticed
      BY <2>1, <2>5 DEF FailUnnoticed
    <2>6. made' = made \/ Clean \/ Remake \/ Fail \/ FailUnnoticed
      BY DEF Next, Build, Make, LeaveAlone, Edit
    <2> QED
      BY <2>2, <2>3, <2>4, <2>5, <2>6
  <1> QED
    BY <1>1, InitIInv, NextIInv, PTL DEF Spec, OnlyScriptStale

=============================================================================
