------------------------------ MODULE MCGrants ------------------------------
(***************************************************************************)
(* Instances of Grants for TLC; every set of model values is symmetric.    *)
(***************************************************************************)
EXTENDS Grants, TLC

Symmetry ==
    Permutations(Callers) \cup Permutations(Agents) \cup Permutations(Names)
        \cup Permutations(Resources)
=============================================================================
