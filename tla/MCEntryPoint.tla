---------------------------- MODULE MCEntryPoint ----------------------------
(***************************************************************************)
(* EntryPoint with the offsets nasm gives its instructions and tables.     *)
(***************************************************************************)
EXTENDS EntryPoint

MCOffset ==
  [START |-> 0, INT15 |-> 7, JC |-> 12, A20GATEERROR |-> 16, OUT |-> 22,
   A20GATESUCCESS |-> 24, LGDT |-> 25, MOVCR0 |-> 30, FARJUMP |-> 39,
   PROTECTEDMODE |-> 47, PRINT |-> 71, JUMPTOC |-> 88, GDTR |-> 162, GDT |-> 168]

\* 0, and the boot sector's segment
MCFirmwareBases == {0, 124 * Byte}

\* reset, gate, password lock, disk LED
MCPortBits == {0, 1, 3, 6}
=============================================================================
