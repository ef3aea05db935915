----------------------------- MODULE MCVirtualOS -----------------------------
(***************************************************************************)
(* The loader in C and VirtualOS with 14 sectors on tracks of three, so    *)
(* that the image ends in the third cylinder, and with three digits, so    *)
(* that sectors share one; the counter wraps while a wrong image runs for  *)
(* ever.                                                                   *)
(***************************************************************************)
EXTENDS VirtualOS

MCDisks == {RightImage} \cup WrongImages
=============================================================================
