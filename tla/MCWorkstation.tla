---------------------------- MODULE MCWorkstation ----------------------------
(***************************************************************************)
(* Instances of Workstation for TLC; commands are symmetric where no       *)
(* liveness is checked.                                                    *)
(***************************************************************************)
EXTENDS Workstation, TLC

Symmetry == Permutations(Commands)
=============================================================================
