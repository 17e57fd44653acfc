-------------------------- MODULE RevocationLedger --------------------------
(***************************************************************************)
(* What an administrator is promised about revocation, without tables,     *)
(* maps, sessions or rows.  A subject is a session id or a user name.      *)
(*   - Only a revoke bars a subject and only a restore lifts the bar,      *)
(*     whatever agents do in the meantime and however often the server     *)
(*     restarts.                                                           *)
(*   - A crash may undo or complete the operation it interrupts and no     *)
(*     other: the operation's subjects are unsettled until it returns.     *)
(***************************************************************************)
CONSTANT Subjects

VARIABLES
    by,         \* what changed the store last: "admin_revoke", ...
    barred,     \* the subjects that are revoked
    unsettled   \* the subjects the operation in progress still has to save

ledger == <<by, barred, unsettled>>

Init ==
    /\ by = "crash"
    /\ barred = {}
    /\ unsettled = {}

Revoke(S) ==
    /\ unsettled = {}
    /\ by' = "admin_revoke"
    /\ barred' = barred \cup S
    /\ unsettled' = S

Restore(S) ==
    /\ unsettled = {}
    /\ by' = "admin_restore"
    /\ barred' = barred \ S
    /\ unsettled' = S

\* Anything an agent, a hook, a sweep or a reset does.
Use(S) ==
    /\ unsettled = {}
    /\ by' = "other"
    /\ unsettled' = S
    /\ UNCHANGED barred

Settle(S) ==
    /\ unsettled' = unsettled \ S
    /\ UNCHANGED <<by, barred>>

\* A restart after which each unsettled subject has its old or its new state.
Crash(S) ==
    /\ by' = "crash"
    /\ barred' = (barred \ unsettled) \cup (S \cap unsettled)
    /\ unsettled' = {}

Next ==
    \E S \in SUBSET Subjects :
        Revoke(S) \/ Restore(S) \/ Use(S) \/ Settle(S) \/ Crash(S)

Spec == Init /\ [][Next]_ledger
=============================================================================
