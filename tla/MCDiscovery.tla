---------------------------- MODULE MCDiscovery ----------------------------
(* Processes that come and go on either bus. *)
EXTENDS Discovery, TLC

Symmetry == Permutations(Process)
=============================================================================
