----------------------------- MODULE MCKernel32 -----------------------------
(***************************************************************************)
(* Kernel32 with the code's 64 MB and 6 MB and an MB of six words: the     *)
(* IVT, the boot sector, the stack, the kernel's code and two more.        *)
(***************************************************************************)
EXTENDS Kernel32

\* 1 MB, 4 MB and a word, 6 MB, one word more than 63 MB, 64 MB, 65 MB
MCRamSizes == {MB, 4 * MB + 1, 6 * MB, 63 * MB, 63 * MB + 1, 64 * MB, 65 * MB}

\* none, a word that is probed, one that is only cleared, one at the end of the
\* area, one that is neither probed nor cleared
MCBrokenSets == {{}, {2 * MB}, {3 * MB + 2}, {6 * MB - 1}, {40 * MB + 1}}
=============================================================================
