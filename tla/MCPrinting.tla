----------------------------- MODULE MCPrinting -----------------------------
(***************************************************************************)
(* Printing with every boot there can be; a stack of eleven words is what  *)
(* a call needs.                                                           *)
(***************************************************************************)
EXTENDS Printing
=============================================================================
