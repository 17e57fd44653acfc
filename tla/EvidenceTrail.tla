--------------------------- MODULE EvidenceTrail ---------------------------
(***************************************************************************)
(* What an auditor may rely on, without files, lines, processes, requests  *)
(* or answers: where the evidence of an event is.                          *)
(*   - The edge lets go of what it holds only when the centre has received *)
(*     it, or when a crash makes it spill.                                 *)
(*   - The centre receives an event once, only one that was recorded, and  *)
(*     keeps the order of arrival.  It forgets everything when it restarts,*)
(*     also what no edge holds any more.                                   *)
(***************************************************************************)
EXTENDS Sequences

CONSTANT Events

VARIABLES
    recorded,   \* the events recorded so far
    edge,       \* the events the edge holds
    received,   \* the events the centre ever received
    centre,     \* the events the centre holds, in the order of arrival
    spilt       \* the events that crashes have spilt

trail == <<recorded, edge, received, centre, spilt>>

Init ==
    /\ recorded = {} /\ edge = {} /\ received = {} /\ spilt = {}
    /\ centre = <<>>

Record(e) ==
    /\ e \notin recorded
    /\ recorded' = recorded \cup {e}
    /\ edge' = edge \cup {e}
    /\ UNCHANGED <<received, centre, spilt>>

Receive(e) ==
    /\ e \in recorded \ received
    /\ received' = received \cup {e}
    /\ centre' = Append(centre, e)
    /\ UNCHANGED <<recorded, edge, spilt>>

LetGo(e) ==
    /\ e \in received
    /\ edge' = edge \ {e}
    /\ UNCHANGED <<recorded, received, centre, spilt>>

Spill(S) ==
    /\ edge' = edge \ S
    /\ spilt' = spilt \cup S
    /\ UNCHANGED <<recorded, received, centre>>

Forget ==
    /\ centre' = <<>>
    /\ UNCHANGED <<recorded, edge, received, spilt>>

Next ==
    \/ \E e \in Events : Record(e) \/ Receive(e) \/ LetGo(e)
    \/ \E S \in SUBSET Events : Spill(S)
    \/ Forget

Spec == Init /\ [][Next]_trail
=============================================================================
