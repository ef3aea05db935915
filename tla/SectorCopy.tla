----------------------------- MODULE SectorCopy -----------------------------
(***************************************************************************)
(* What loading an operating-system image promises, without saying how:    *)
(* sector k+1 of the inserted disk ends up at the k-th place of the load   *)
(* area, in any order, and control goes to the image only when nothing is  *)
(* left to copy.  BootLoader implements this module.                       *)
(***************************************************************************)
EXTENDS Naturals

CONSTANTS
  Disks,       \* the disk images that may be in the drive
  Sectors,     \* Sectors[d]: number of sectors of d's operating-system image
  Address(_)   \* Address(k): where the k-th sector of the image belongs

VARIABLES
  phase,       \* "loading", "running" (the image was started) or "halted"
  disk,        \* the disk in the drive
  todo,        \* the places of the load area that are still to be filled
  memory       \* address |-> <<disk, sector>> for the addresses written so far

vars == <<phase, disk, todo, memory>>

Places(d) == 0 .. (Sectors[d] - 1)

\* memory with one more sector in it
Store(m, a, sector) ==
  [x \in DOMAIN m \cup {a} |-> IF x = a THEN sector ELSE m[x]]

NoMemory == [x \in {} |-> x]

-----------------------------------------------------------------------------
Init ==
  /\ phase = "loading"
  /\ disk \in Disks
  /\ todo = Places(disk)
  /\ memory = NoMemory

Copy(k) ==
  /\ phase = "loading"
  /\ memory' = Store(memory, Address(k), <<disk, k + 1>>)
  /\ todo' = todo \ {k}
  /\ UNCHANGED <<phase, disk>>

Finish ==
  /\ phase = "loading"
  /\ todo = {}
  /\ phase' = "running"
  /\ UNCHANGED <<disk, todo, memory>>

Fail ==
  /\ phase = "loading"
  /\ phase' = "halted"
  /\ todo' = {}
  /\ UNCHANGED <<disk, memory>>

\* a reset starts over, maybe with another disk, over memory as it was left
Restart ==
  \E d \in Disks :
    /\ phase' = "loading"
    /\ disk' = d
    /\ todo' = Places(d)
    /\ UNCHANGED memory

Load == (\E k \in todo : Copy(k)) \/ Finish \/ Fail

Next == Load \/ Restart

Safety == Init /\ [][Next]_vars

Spec == Safety /\ WF_vars(Load)
=============================================================================
