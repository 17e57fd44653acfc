----------------------------- MODULE MCEdgeAudit -----------------------------
(***************************************************************************)
(* Instances of EdgeAudit for TLC; events and processes are symmetric.     *)
(***************************************************************************)
EXTENDS EdgeAudit, TLC

Symmetry == Permutations(Events) \cup Permutations(Processes)
=============================================================================
