---------------------------- MODULE MCHubSession ----------------------------
(***************************************************************************)
(* HubSession with two callers and the warm task.  Callers are alike, and  *)
(* so are warm tasks: the safety runs take them up to permutation.         *)
(***************************************************************************)
EXTENDS HubSession, TLC

Symmetry == Permutations(Callers) \cup Permutations(Warmers)
=============================================================================
