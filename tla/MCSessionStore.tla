--------------------------- MODULE MCSessionStore ---------------------------
(***************************************************************************)
(* Instances of SessionStore for TLC.  Sessions and names are symmetric:   *)
(* no operation tells two ids apart and no property names one.             *)
(***************************************************************************)
EXTENDS SessionStore, TLC

Symmetry == Permutations(Sessions) \cup Permutations(Names)
=============================================================================
