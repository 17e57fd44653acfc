--------------------------- MODULE MCControlPlane ---------------------------
(***************************************************************************)
(* Instances of ControlPlane for TLC.  Where requests of the same kind are *)
(* checked for safety only, the threads that serve them are symmetric.     *)
(***************************************************************************)
EXTENDS ControlPlane, TLC

CallerSymmetry == Permutations(Callers)
=============================================================================
