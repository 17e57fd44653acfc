---------------------------- MODULE OneTimePass ----------------------------
(***************************************************************************)
(* What a grant is to the one who protects a resource with it, without     *)
(* clocks, keys, caches, callers or agents: a pass that is good for some   *)
(* doors until it is shown at one of them.                                 *)
(*   - A pass is issued once and never becomes good again.                 *)
(*   - Showing it uses it up for every door, whether or not the door opens *)
(*     then; two who show it at once do not both get in.                   *)
(*   - It opens only a door it was issued for.                             *)
(*   - It may lapse at any time, for some doors or for all.                *)
(***************************************************************************)
EXTENDS Naturals

CONSTANTS Passes, Doors

VARIABLES
    issued,     \* the passes issued so far
    good,       \* <<pass, door>>: the pass, if shown at the door, is accepted
    accepted,   \* <<pass, door>>: accepted there, and the door not yet open
    opened      \* how often each pass has opened a door

pass == <<issued, good, accepted, opened>>

Init ==
    /\ issued = {} /\ good = {} /\ accepted = {}
    /\ opened = [p \in Passes |-> 0]

Issue(p, D) ==
    /\ p \notin issued
    /\ issued' = issued \cup {p}
    /\ good' = good \cup ({p} \X D)
    /\ UNCHANGED <<accepted, opened>>

Lapse ==
    /\ good' \in SUBSET good
    /\ UNCHANGED <<issued, accepted, opened>>

Show(p, d) ==
    /\ <<p, d>> \in good
    /\ good' = good \ ({p} \X Doors)
    /\ accepted' = accepted \cup {<<p, d>>}
    /\ UNCHANGED <<issued, opened>>

Open(p, d) ==
    /\ <<p, d>> \in accepted
    /\ accepted' = accepted \ {<<p, d>>}
    /\ opened' = [opened EXCEPT ![p] = @ + 1]
    /\ UNCHANGED <<issued, good>>

\* The door stays shut: the pass is used up for nothing.
Waste(p, d) ==
    /\ <<p, d>> \in accepted
    /\ accepted' = accepted \ {<<p, d>>}
    /\ UNCHANGED <<issued, good, opened>>

Next ==
    \/ Lapse
    \/ \E p \in Passes, D \in SUBSET Doors : Issue(p, D)
    \/ \E p \in Passes, d \in Doors : Show(p, d) \/ Open(p, d) \/ Waste(p, d)

Spec == Init /\ [][Next]_pass
=============================================================================
