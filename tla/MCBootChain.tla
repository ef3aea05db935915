----------------------------- MODULE MCBootChain -----------------------------
(***************************************************************************)
(* BootChain with an MB of three words (vectors, stack, code), a check of  *)
(* two MBs and an area of one, and every machine with BIOS or control port *)
(* able to open the gate or not.                                           *)
(***************************************************************************)
EXTENDS BootChain

MCDisks   == {"one", "two"}
MCSectors == [d \in MCDisks |-> IF d = "one" THEN 1 ELSE 2]

MCOffset ==
  [START |-> 0, INT15 |-> 7, JC |-> 12, A20GATEERROR |-> 16, OUT |-> 22,
   A20GATESUCCESS |-> 24, LGDT |-> 25, MOVCR0 |-> 30, FARJUMP |-> 39,
   PROTECTEDMODE |-> 47, PRINT |-> 71, JUMPTOC |-> 88, GDTR |-> 162, GDT |-> 168]

MCRamSizes   == {MB, 2 * MB, 3 * MB}
MCBrokenSets == {{}, {MB + 1}}
=============================================================================
