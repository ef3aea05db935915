---------------------------- MODULE MCBuildGraph ----------------------------
(***************************************************************************)
(* BuildGraph with two changes of a source and two failing steps: enough   *)
(* for a failed build of a new source over the leftovers of another one.   *)
(***************************************************************************)
EXTENDS BuildGraph
=============================================================================
