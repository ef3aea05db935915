---------------------------- MODULE MCBootLoader ----------------------------
(***************************************************************************)
(* BootLoader on a small drive: two sides of two tracks of three sectors.  *)
(***************************************************************************)
EXTENDS BootLoader

\* a disk with no image, one whose image ends exactly at a track, one whose image
\* needs both cylinders and one whose header asks for more than the drive has
\* (the boot sector and eleven others)
SmallDisks   == {"empty", "track", "cylinders", "beyond"}
SmallSectors == [d \in SmallDisks |->
                   CASE d = "empty" -> 0 [] d = "track" -> 2
                     [] d = "cylinders" -> 7 [] d = "beyond" -> 12]
=============================================================================
