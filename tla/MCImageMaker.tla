---------------------------- MODULE MCImageMaker ----------------------------
(***************************************************************************)
(* ImageMaker and the boot of its image with sectors of 4 bytes and the    *)
(* count in bytes 1 and 2 of the boot sector: kernels of 0 to 5 sectors    *)
(* around the built-in count of 2, every remainder, a count that           *)
(* overflows, boot files of less and of more than a sector, and room that  *)
(* ends between and inside sectors.                                        *)
(***************************************************************************)
EXTENDS BuildAndBoot

MCBootSizes   == 3..5
MCKernelSizes == {0, 1, 3, 4, 5, 8, 9, 13, 17, 36}
MCCapacities  == {0, 1, 2, 4, 6, 8, 10, 12, 14, 16, 44}
=============================================================================
