---------------------------- MODULE MCEnrollment ----------------------------
(***************************************************************************)
(* Instances of Enrollment for TLC; all ids are interchangeable.           *)
(***************************************************************************)
EXTENDS Enrollment, TLC

Symmetry ==
    Permutations(Callers) \cup Permutations(Instances) \cup Permutations(Hashes)
=============================================================================
