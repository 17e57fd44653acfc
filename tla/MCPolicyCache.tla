---------------------------- MODULE MCPolicyCache ----------------------------
(***************************************************************************)
(* Instances of PolicyCache for TLC.  Texts are symmetric; the symmetry is *)
(* used where no liveness is checked.                                      *)
(***************************************************************************)
EXTENDS PolicyCache, TLC

Symmetry == Permutations(Cedars) \cup Permutations(Syncs)
=============================================================================
