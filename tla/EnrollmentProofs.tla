-------------------------- MODULE EnrollmentProofs --------------------------
(***************************************************************************)
(* Codes keep their quota, digests are listed ones, and a revoked agent is *)
(* not enrolled, for any agents, instances, digests, quotas and number of  *)
(* enrollments in flight.                                                  *)
(*                                                                         *)
(* The quota is kept because a place is taken before anything else is done *)
(* (CountKept): enrolled and pending together never exceed the places      *)
(* taken, and a code is live only while a place is left.                   *)
(***************************************************************************)
EXTENDS Enrollment, FiniteSetTheorems, TLAPS

\* Places taken of a code, and what is left.
CountKept ==
    \A a \in Agents :
        /\ enrolled[a] + Cardinality(Pending(a)) <= code[a].count
        /\ code[a].count <= code[a].quota
        /\ code[a].state = "live" => code[a].count < code[a].quota

Of(a) == {a} \cup {<<a, i>> : i \in Instances}

\* Nothing is known of an id that pre-registration has not drawn.
UndrawnIsUnknown ==
    \A a \in Agents : code[a].quota = 0 =>
        /\ Pending(a) = {} /\ code[a].state = "none"
        /\ \A k \in Of(a) : entry[k] = NoEntry

Listed(a, h) == agent[a].env = "production" \/ agent[a].allowed # {} => h \in agent[a].allowed

\* What was attested, and what was enrolled on its strength.
AttestedIsListed ==
    /\ \A c \in Callers : req[c] # NoReq /\ req[c].at = "enroll" => Listed(req[c].a, req[c].hash)
    /\ \A a \in Agents : \A k \in Of(a) : entry[k].hash # NoHash => Listed(a, entry[k].hash)

BarStands ==
    \A c \in Callers : req[c] # NoReq /\ req[c].bar => entry[req[c].a].status = "revoked"
-----------------------------------------------------------------------------
LEMMA ReqShape ==
    ASSUME TypeOK, NEW c \in Callers, req[c] # NoReq
    PROVE  req[c] \in Request
BY DEF TypeOK

\* What a revocation or a restore does to the requests in flight.
LEMMA BarShape ==
    ASSUME TypeOK, NEW k \in Keys, NEW on \in BOOLEAN, Bar(k, on)
    PROVE  /\ req' \in [Callers -> Request \cup {NoReq}]
           /\ \A c \in Callers :
                 /\ req'[c] = NoReq <=> req[c] = NoReq
                 /\ req[c] # NoReq =>
                      /\ req'[c].at = req[c].at /\ req'[c].a = req[c].a
                      /\ req'[c].hash = req[c].hash
                      /\ req'[c].bar = IF req[c].a = k THEN on ELSE req[c].bar
<1>1. ASSUME NEW c \in Callers
      PROVE  /\ req'[c] \in Request \cup {NoReq}
             /\ req'[c] = NoReq <=> req[c] = NoReq
             /\ req[c] # NoReq =>
                  /\ req'[c].at = req[c].at /\ req'[c].a = req[c].a
                  /\ req'[c].hash = req[c].hash
                  /\ req'[c].bar = IF req[c].a = k THEN on ELSE req[c].bar
  <2>1. CASE req[c] # NoReq /\ req[c].a = k
    <3>1. req'[c] = [req[c] EXCEPT !.bar = on] /\ req[c] \in Request
      BY <2>1, ReqShape DEF Bar
    <3>2. req'[c] \in Request
      BY <3>1 DEF Request
    <3>3. req'[c] # NoReq
      BY <3>2 DEF Request, NoReq
    <3>. QED BY <2>1, <3>1, <3>2, <3>3 DEF Request
  <2>2. CASE ~(req[c] # NoReq /\ req[c].a = k)
    BY <2>2 DEF Bar, TypeOK
  <2>. QED BY <2>1, <2>2
<1>2. DOMAIN req' = Callers /\ req' = [c \in Callers |-> req'[c]]
  BY DEF Bar
<1>. QED BY <1>1, <1>2

LEMMA CodeShape ==
    ASSUME TypeOK, NEW a \in Agents
    PROVE  /\ code[a] \in Code /\ Forget(code[a]) \in Code /\ Spend(code[a]) \in Code
           /\ Forget(code[a]).count = code[a].count /\ Forget(code[a]).quota = code[a].quota
           /\ Forget(code[a]).state = "none"
           /\ Spend(code[a]).count = code[a].count + 1 /\ Spend(code[a]).quota = code[a].quota
           /\ Spend(code[a]).state =
                  IF code[a].count + 1 >= code[a].quota THEN "consumed" ELSE code[a].state
<1>1. code[a] \in Code
  BY DEF TypeOK
<1>2. /\ Forget(code[a]) \in Code
      /\ Forget(code[a]).count = code[a].count /\ Forget(code[a]).quota = code[a].quota
      /\ Forget(code[a]).state = "none"
  BY <1>1 DEF Forget, Code, CodeState
<1>3. /\ Spend(code[a]) \in Code
      /\ Spend(code[a]).count = code[a].count + 1 /\ Spend(code[a]).quota = code[a].quota
      /\ Spend(code[a]).state =
             IF code[a].count + 1 >= code[a].quota THEN "consumed" ELSE code[a].state
  <2> DEFINE left == IF code[a].count + 1 >= code[a].quota THEN "consumed" ELSE code[a].state
  <2>1. left \in CodeState /\ code[a].count + 1 \in Nat
    BY <1>1 DEF Code, CodeState
  <2>2. Spend(code[a]) = [code[a] EXCEPT !.count = @ + 1, !.state = left]
    BY DEF Spend
  <2>. QED BY <1>1, <2>1, <2>2 DEF Code
<1>. QED BY <1>1, <1>2, <1>3

LEMMA KeysOf ==
    /\ \A a \in Agents : Of(a) \subseteq Keys /\ a \in Of(a)
    /\ \A a \in Agents, i \in Instances : <<a, i>> \in Of(a) /\ Target(a, i) \in Of(a)
    /\ \A a \in Agents, b \in Agents : a # b => Of(a) \cap Of(b) = {}
    /\ \A a \in Agents, i \in Instances : <<a, i>> \notin Agents
<1>1. \A a \in Agents : Of(a) \subseteq Keys /\ a \in Of(a)
  BY DEF Of, Keys
<1>2. \A a \in Agents, i \in Instances : <<a, i>> \in Of(a) /\ Target(a, i) \in Of(a)
  BY DEF Of, Target
<1>3. \A a \in Agents, i \in Instances : <<a, i>> \notin Agents
  BY KeyAssumption
<1>4. \A a \in Agents, b \in Agents : a # b => Of(a) \cap Of(b) = {}
  BY <1>3 DEF Of
<1>. QED BY <1>1, <1>2, <1>3, <1>4

LEMMA TypeInit == Init => TypeOK
<1>1. NoCode \in Code /\ NoEntry \in Entry /\ Unregistered \in Agent
  BY DEF NoCode, Code, CodeState, NoEntry, Entry, Status, Unregistered, Agent, Profiles
<1>. QED BY <1>1, QuotaAssumption DEF Init, TypeOK

LEMMA TypeNext == TypeOK /\ [Next]_vars => TypeOK'
<1> SUFFICES ASSUME TypeOK, [Next]_vars PROVE TypeOK'
  OBVIOUS
<1>1. ASSUME NEW a \in Agents, NEW env \in Profiles, NEW allowed \in SUBSET Hashes,
             NEW q \in Quotas, PreRegister(a, env, allowed, q)
      PROVE  TypeOK'
  <2>1. [NoCode EXCEPT !.state = "live", !.quota = q] \in Code
    BY QuotaAssumption DEF NoCode, Code, CodeState
  <2>2. [NoEntry EXCEPT !.status = "pending_enrollment"] \in Entry
    BY DEF NoEntry, Entry, Status
  <2>3. [env |-> env, allowed |-> allowed] \in Agent
    BY DEF Agent
  <2>. QED BY <1>1, <2>1, <2>2, <2>3 DEF PreRegister, TypeOK
<1>2. ASSUME NEW a \in Agents, Expire(a)
      PROVE  TypeOK'
  <2>1. [code[a] EXCEPT !.expired = TRUE] \in Code
    BY DEF TypeOK, Code
  <2>. QED BY <1>2, <2>1 DEF Expire, TypeOK
<1>3. CASE Cleanup
  BY <1>3, CodeShape DEF Cleanup, TypeOK
<1>4. ASSUME NEW c \in Callers, NEW a \in Agents, NEW i \in Instances,
             NEW h \in Hashes \cup {NoHash}, RegisterArrives(c, a, i, h)
      PROVE  TypeOK'
  <2>1. (entry[a].status = "revoked") \in BOOLEAN
    OBVIOUS
  <2>2. [at |-> "attest", a |-> a, i |-> i, hash |-> h, bar |-> entry[a].status = "revoked"]
          \in Request
    BY <2>1 DEF Request
  <2>. QED BY <1>4, <2>2, CodeShape DEF RegisterArrives, TypeOK
<1>5. ASSUME NEW c \in Callers, RegisterAttest(c)
      PROVE  TypeOK'
  <2>1. req[c] \in Request /\ [req[c] EXCEPT !.at = "enroll"] \in Request
    <3>1. req[c] # NoReq
      BY <1>5 DEF RegisterAttest, NoReq
    <3>. QED BY <3>1, ReqShape DEF Request
  <2>. QED BY <1>5, <2>1 DEF RegisterAttest, Done, TypeOK
<1>6. ASSUME NEW c \in Callers, RegisterEnroll(c)
      PROVE  TypeOK'
  <2>1. req[c] \in Request
    BY <1>6, ReqShape DEF RegisterEnroll, NoReq
  <2>2. [status |-> "active", hash |-> req[c].hash] \in Entry
    BY <2>1 DEF Entry, Request, Status
  <2>4. Target(req[c].a, req[c].i) \in Keys
    BY <2>1 DEF Target, Keys, Request
  <2>3. enrolled' \in [Agents -> Nat]
    BY <1>6, <2>1 DEF RegisterEnroll, TypeOK
  <2>. QED BY <1>6, <2>2, <2>3, <2>4 DEF RegisterEnroll, Done, TypeOK
<1>7. ASSUME NEW k \in Keys, Deregister(k)
      PROVE  TypeOK'
  <2>1. entry' \in [Keys -> Entry]
    BY <1>7 DEF Deregister, TypeOK, Entry, Status
  <2>. QED BY <1>7, <2>1 DEF Deregister, TypeOK
<1>8. ASSUME NEW k \in Keys, Revoke(k) \/ Restore(k)
      PROVE  TypeOK'
  <2>1. entry' \in [Keys -> Entry]
    BY <1>8 DEF Revoke, Restore, TypeOK, Entry, Status
  <2>2. PICK on \in BOOLEAN : Bar(k, on)
    BY <1>8 DEF Revoke, Restore
  <2>3. req' \in [Callers -> Request \cup {NoReq}]
    BY <2>2, BarShape
  <2>. QED BY <1>8, <2>1, <2>3 DEF Revoke, Restore, TypeOK
<1>9. CASE Restart
  <2>1. NoEntry \in Entry /\ Unregistered \in Agent
    BY DEF NoEntry, Entry, Status, Unregistered, Agent, Profiles
  <2>2. restarts' \in 0..MaxRestarts
    BY <1>9, QuotaAssumption DEF Restart, TypeOK
  <2>. QED BY <1>9, <2>1, <2>2, CodeShape DEF Restart, TypeOK
<1>10. CASE UNCHANGED vars
  BY <1>10 DEF vars, TypeOK
<1>. QED
  BY <1>1, <1>2, <1>3, <1>4, <1>5, <1>6, <1>7, <1>8, <1>9, <1>10 DEF Next

\* Every variable of Enrollment keeps its type.
THEOREM TypeCorrect == Spec => []TypeOK
BY TypeInit, TypeNext, PTL DEF Spec

-----------------------------------------------------------------------------
(***************************************************************************)
(* QuotaKept.                                                              *)
(***************************************************************************)
LEMMA PendingFinite ==
    ASSUME NEW a
    PROVE  IsFiniteSet(Pending(a)) /\ Cardinality(Pending(a)) \in Nat
<1>1. Pending(a) \subseteq Callers
  BY DEF Pending
<1>. QED BY <1>1, CallerAssumption, FS_Subset, FS_CardinalityType

\* The requests stay, whatever else is written into them.
SameRequests ==
    \A c \in Callers :
        /\ req'[c] # NoReq <=> req[c] # NoReq
        /\ req[c] # NoReq => req'[c].a = req[c].a

LEMMA SamePending ==
    ASSUME SameRequests, NEW a
    PROVE  Pending(a)' = Pending(a)
BY DEF SameRequests, Pending

\* One that is done gives up its place among the pending.
LEMMA DonePending ==
    ASSUME TypeOK, NEW c \in Callers, Done(c), req[c] # NoReq, NEW a
    PROVE  Pending(a)' = Pending(a) \ {c}
BY DEF TypeOK, Done, Pending

\* Codes keep their counts and none comes to life.
Spent ==
    \A a \in Agents :
        /\ code'[a].count = code[a].count /\ code'[a].quota = code[a].quota
        /\ code'[a].state = "live" => code[a].state = "live"

LEMMA CountIdle ==
    ASSUME CountKept, Spent, SameRequests, UNCHANGED enrolled
    PROVE  CountKept'
BY SamePending DEF CountKept, Spent

LEMMA CountNext == TypeOK /\ CountKept /\ [Next]_vars => CountKept'
<1> SUFFICES ASSUME TypeOK, CountKept, [Next]_vars PROVE CountKept'
  OBVIOUS
<1>0. /\ \A a \in Agents : enrolled[a] \in Nat /\ code[a].count \in Nat /\ code[a].quota \in Nat
      /\ \A a \in Agents : Cardinality(Pending(a)) \in Nat
  BY PendingFinite DEF TypeOK, Code
<1>1. ASSUME NEW a \in Agents, NEW env \in Profiles, NEW allowed \in SUBSET Hashes,
             NEW q \in Quotas, PreRegister(a, env, allowed, q)
      PROVE  CountKept'
  <2>1. \A b \in Agents : Pending(b)' = Pending(b)
    BY <1>1, SamePending DEF PreRegister, SameRequests
  <2>2. code'[a].count = 0 /\ code'[a].quota = q /\ \A b \in Agents \ {a} : code'[b] = code[b]
    BY <1>1 DEF PreRegister, NoCode, TypeOK
  <2>3. enrolled[a] + Cardinality(Pending(a)) <= 0
    BY <1>0, <1>1 DEF CountKept, PreRegister
  <2>4. q \in Nat /\ q > 0
    BY QuotaAssumption
  <2>5. UNCHANGED enrolled
    BY <1>1 DEF PreRegister
  <2>. QED BY <1>0, <2>1, <2>2, <2>3, <2>4, <2>5 DEF CountKept
<1>2. ASSUME NEW a \in Agents, Expire(a)
      PROVE  CountKept'
  <2>1. Spent /\ SameRequests /\ UNCHANGED enrolled
    BY <1>2 DEF Expire, Spent, SameRequests, TypeOK, Code
  <2>. QED BY <2>1, CountIdle
<1>3. CASE Cleanup
  <2>1. Spent /\ SameRequests /\ UNCHANGED enrolled
    BY <1>3, CodeShape DEF Cleanup, Spent, SameRequests
  <2>. QED BY <2>1, CountIdle
<1>4. ASSUME NEW c \in Callers, NEW a \in Agents, NEW i \in Instances,
             NEW h \in Hashes \cup {NoHash}, RegisterArrives(c, a, i, h)
      PROVE  CountKept'
  <2>1. CASE code[a].expired
    <3>1. Spent /\ SameRequests /\ UNCHANGED enrolled
      BY <1>4, <2>1, CodeShape DEF RegisterArrives, Spent, SameRequests, TypeOK
    <3>. QED BY <3>1, CountIdle
  <2>2. CASE ~code[a].expired
    <3>1. /\ code[a].state = "live" /\ code'[a] = Spend(code[a])
          /\ \A b \in Agents \ {a} : code'[b] = code[b]
          /\ UNCHANGED enrolled
      BY <1>4, <2>2 DEF RegisterArrives, TypeOK
    <3>2. /\ req[c] = NoReq /\ req'[c] # NoReq /\ req'[c].a = a
          /\ \A d \in Callers \ {c} : req'[d] = req[d]
      BY <1>4, <2>2 DEF RegisterArrives, Idle, NoReq, TypeOK
    <3>3. Pending(a)' = Pending(a) \cup {c} /\ \A b \in Agents \ {a} : Pending(b)' = Pending(b)
      BY <3>2 DEF Pending
    <3>4. Cardinality(Pending(a)') <= Cardinality(Pending(a)) + 1
      <4>1. IsFiniteSet(Pending(a)) /\ Cardinality(Pending(a)) \in Nat
        BY PendingFinite
      <4>2. Cardinality(Pending(a) \cup {c}) = IF c \in Pending(a) THEN Cardinality(Pending(a))
                                              ELSE Cardinality(Pending(a)) + 1
        BY <4>1, FS_AddElement
      <4>. QED BY <3>3, <4>1, <4>2
    <3>5. Cardinality(Pending(a)') \in Nat
      BY <3>3, PendingFinite, FS_AddElement, FS_CardinalityType
    <3>6. /\ enrolled[a] + Cardinality(Pending(a)') <= code[a].count + 1
          /\ code[a].count + 1 <= code[a].quota
      BY <1>0, <3>1, <3>4, <3>5 DEF CountKept
    <3>7. code'[a].state = "live" => code[a].count + 1 < code[a].quota
      BY <1>0, <3>1, CodeShape
    <3>8. code'[a].count = code[a].count + 1 /\ code'[a].quota = code[a].quota
      BY <3>1, CodeShape
    <3>. QED BY <3>1, <3>3, <3>6, <3>7, <3>8 DEF CountKept
  <2>. QED BY <2>1, <2>2
<1>5. ASSUME NEW c \in Callers, RegisterAttest(c) \/ RegisterEnroll(c)
      PROVE  CountKept'
  <2>1. req[c] # NoReq /\ req[c] \in Request
    BY <1>5, ReqShape DEF RegisterAttest, RegisterEnroll, NoReq
  <2>2. CASE RegisterAttest(c) /\ ~Done(c)
    <3>1. Spent /\ SameRequests /\ UNCHANGED enrolled
      BY <2>1, <2>2 DEF RegisterAttest, Spent, SameRequests, Request, NoReq, TypeOK
    <3>. QED BY <3>1, CountIdle
  <2>3. CASE Done(c)
    <3>1. UNCHANGED code /\ \A a \in Agents : Pending(a)' = Pending(a) \ {c}
      BY <1>5, <2>1, <2>3, DonePending DEF RegisterAttest, RegisterEnroll
    <3>2. ASSUME NEW a \in Agents
          PROVE  /\ Cardinality(Pending(a)') \in Nat
                 /\ Cardinality(Pending(a)') =
                       IF c \in Pending(a) THEN Cardinality(Pending(a)) - 1
                                          ELSE Cardinality(Pending(a))
      <4>1. IsFiniteSet(Pending(a))
        BY PendingFinite
      <4>2. /\ IsFiniteSet(Pending(a) \ {c})
            /\ Cardinality(Pending(a) \ {c}) =
                  IF c \in Pending(a) THEN Cardinality(Pending(a)) - 1
                                     ELSE Cardinality(Pending(a))
        BY <4>1, FS_RemoveElement
      <4>3. Cardinality(Pending(a) \ {c}) \in Nat
        BY <4>2, FS_CardinalityType
      <4>. QED BY <3>1, <4>2, <4>3
    <3>3. c \in Pending(req[c].a) /\ req[c].a \in Agents
      BY <2>1 DEF Pending, Request
    <3>4. \A a \in Agents : enrolled'[a] = enrolled[a]
                            \/ (a = req[c].a /\ enrolled'[a] = enrolled[a] + 1)
      BY <1>5 DEF RegisterAttest, RegisterEnroll, TypeOK
    <3>. QED BY <1>0, <3>1, <3>2, <3>3, <3>4 DEF CountKept
  <2>. QED BY <1>5, <2>2, <2>3 DEF RegisterEnroll
<1>6. ASSUME NEW k \in Keys, Revoke(k) \/ Restore(k) \/ Deregister(k)
      PROVE  CountKept'
  <2>1. Spent /\ UNCHANGED enrolled
    BY <1>6 DEF Revoke, Restore, Deregister, Spent
  <2>2. SameRequests
    <3>1. CASE UNCHANGED req
      BY <3>1 DEF SameRequests
    <3>2. ASSUME NEW on \in BOOLEAN, Bar(k, on)
          PROVE  SameRequests
      BY <3>2, BarShape DEF SameRequests
    <3>. QED BY <1>6, <3>1, <3>2 DEF Revoke, Restore, Deregister
  <2>. QED BY <2>1, <2>2, CountIdle
<1>7. CASE Restart
  <2>1. \A a \in Agents : Pending(a)' = {}
    BY <1>7 DEF Restart, Pending
  <2>2. \A a \in Agents : /\ code'[a].count = code[a].count /\ code'[a].quota = code[a].quota
                          /\ code'[a].state = "none"
    BY <1>7, CodeShape DEF Restart
  <2>3. UNCHANGED enrolled
    BY <1>7 DEF Restart
  <2>. QED BY <1>0, <2>1, <2>2, <2>3, FS_EmptySet DEF CountKept
<1>8. CASE UNCHANGED vars
  <2>1. Spent /\ SameRequests /\ UNCHANGED enrolled
    BY <1>8 DEF vars, Spent, SameRequests
  <2>. QED BY <2>1, CountIdle
<1>. QED
  BY <1>1, <1>2, <1>3, <1>4, <1>5, <1>6, <1>7, <1>8 DEF Next

\* No code enrolls more instances than it was made for.
THEOREM QuotasAreKept == Spec => []QuotaKept
<1>1. Init => CountKept
  <2> SUFFICES ASSUME Init PROVE CountKept
    OBVIOUS
  <2>1. \A a \in Agents : Pending(a) = {}
    BY DEF Init, Pending
  <2>. QED BY <2>1, FS_EmptySet DEF Init, CountKept, NoCode
<1>2. TypeOK /\ CountKept => QuotaKept
  <2> SUFFICES ASSUME TypeOK, CountKept, NEW a \in Agents
               PROVE  enrolled[a] + Cardinality(Pending(a)) <= code[a].quota
    BY DEF QuotaKept
  <2>1. enrolled[a] \in Nat /\ code[a].count \in Nat /\ code[a].quota \in Nat
    BY DEF TypeOK, Code
  <2>. QED BY <2>1, PendingFinite DEF CountKept
<1>. QED BY <1>1, <1>2, CountNext, TypeCorrect, PTL DEF Spec

-----------------------------------------------------------------------------
(***************************************************************************)
(* OnlyListedBinaries and NoEnrollmentPastBar.                             *)
(***************************************************************************)
RegInv == UndrawnIsUnknown /\ AttestedIsListed /\ BarStands

\* Steps that leave registry and requests alone.
LEMMA RegIdle ==
    ASSUME RegInv, UNCHANGED <<agent, entry, req>>,
           \A a \in Agents : /\ code'[a].quota = code[a].quota
                             /\ code[a].state = "none" => code'[a].state = "none"
    PROVE  RegInv'
BY DEF RegInv, UndrawnIsUnknown, Pending, AttestedIsListed, Listed, BarStands

\* The status of one known entry changes.
LEMMA RegStatus ==
    ASSUME TypeOK, RegInv, NEW k \in Keys, NEW new, entry[k].status # "absent",
           entry' = [entry EXCEPT ![k].status = new], UNCHANGED <<code, agent>>,
           SameRequests,
           \A c \in Callers : req[c] # NoReq =>
               /\ req'[c].at = req[c].at /\ req'[c].hash = req[c].hash
               /\ req'[c].bar => IF k = req[c].a THEN new = "revoked" ELSE req[c].bar
    PROVE  RegInv'
<1>1. /\ \A j \in Keys : entry'[j].hash = entry[j].hash
      /\ \A j \in Keys \ {k} : entry'[j] = entry[j]
      /\ entry'[k].status = new
  BY DEF TypeOK, Entry
<1>2. UndrawnIsUnknown'
  <2> SUFFICES ASSUME NEW a \in Agents, code[a].quota = 0
               PROVE  /\ Pending(a)' = {} /\ code[a].state = "none"
                      /\ \A j \in Of(a) : entry'[j] = NoEntry
    BY DEF UndrawnIsUnknown, Of
  <2>1. Pending(a)' = {} /\ code[a].state = "none" /\ \A j \in Of(a) : entry[j] = NoEntry
    BY SamePending DEF RegInv, UndrawnIsUnknown
  <2>2. k \notin Of(a)
    BY <2>1 DEF NoEntry
  <2>. QED BY <1>1, <2>1, <2>2, KeysOf
<1>3. AttestedIsListed'
  <2>1. ASSUME NEW c \in Callers, req'[c] # NoReq, req'[c].at = "enroll"
        PROVE  Listed(req[c].a, req[c].hash)'
    BY <2>1 DEF SameRequests, RegInv, AttestedIsListed, Listed
  <2>2. ASSUME NEW a \in Agents, NEW j \in Of(a), entry'[j].hash # NoHash
        PROVE  Listed(a, entry[j].hash)'
    <3>1. j \in Keys
      BY KeysOf
    <3>. QED BY <1>1, <2>2, <3>1 DEF RegInv, AttestedIsListed, Listed
  <2>3. \A a \in Agents : Of(a)' = Of(a)
    BY DEF Of
  <2>. QED BY <2>1, <2>2, <2>3 DEF AttestedIsListed, Listed
<1>4. BarStands'
  <2> SUFFICES ASSUME NEW c \in Callers, req'[c] # NoReq, req'[c].bar
               PROVE  entry'[req'[c].a].status = "revoked"
    BY DEF BarStands
  <2>1. req[c] # NoReq /\ req'[c].a = req[c].a /\ req[c].a \in Keys
    BY ReqShape DEF SameRequests, Request, Keys
  <2>2. k # req[c].a => entry[req[c].a].status = "revoked"
    BY <2>1 DEF RegInv, BarStands
  <2>. QED BY <1>1, <2>1, <2>2
<1>. QED BY <1>2, <1>3, <1>4 DEF RegInv

LEMMA PreRegisterKeeps ==
    ASSUME TypeOK, RegInv, NEW a \in Agents, NEW env \in Profiles,
           NEW allowed \in SUBSET Hashes, NEW q \in Quotas, PreRegister(a, env, allowed, q)
    PROVE  RegInv'
<1>1. /\ code'[a].quota # 0 /\ \A b \in Agents \ {a} : code'[b] = code[b]
      /\ entry'[a].hash = NoHash /\ \A k \in Keys \ {a} : entry'[k] = entry[k]
      /\ \A b \in Agents \ {a} : agent'[b] = agent[b]
      /\ UNCHANGED req
  BY QuotaAssumption DEF PreRegister, NoCode, NoEntry, TypeOK, Keys
<1>2. Pending(a) = {} /\ \A k \in Of(a) : entry[k] = NoEntry
  BY DEF PreRegister, RegInv, UndrawnIsUnknown
<1>3. \A c \in Callers : req[c] # NoReq => req[c].a \in Agents \ {a}
  BY <1>2, ReqShape DEF Pending, Request
<1>4. \A b \in Agents \ {a} : \A k \in Of(b) : k \in Keys \ {a}
  BY KeysOf
<1>5. UndrawnIsUnknown'
  BY <1>1, <1>4 DEF RegInv, UndrawnIsUnknown, Pending, Of
<1>6. AttestedIsListed'
  <2>1. \A c \in Callers : req[c] # NoReq /\ req[c].at = "enroll"
                             => Listed(req[c].a, req[c].hash)'
    BY <1>1, <1>3 DEF RegInv, AttestedIsListed, Listed
  <2>2. \A b \in Agents \ {a} : \A k \in Of(b) :
            entry'[k].hash # NoHash => Listed(b, entry[k].hash)'
    BY <1>1, <1>4 DEF RegInv, AttestedIsListed, Listed
  <2>3. \A k \in Of(a) : entry'[k].hash = NoHash
    BY <1>1, <1>2, KeysOf DEF NoEntry
  <2>. QED BY <1>1, <2>1, <2>2, <2>3 DEF AttestedIsListed, Of, Listed
<1>7. BarStands'
  <2>1. \A c \in Callers : req[c] # NoReq => req[c].a \in Keys \ {a}
    BY <1>3 DEF Keys
  <2>. QED BY <1>1, <2>1 DEF RegInv, BarStands
<1>. QED BY <1>5, <1>6, <1>7 DEF RegInv

LEMMA ArrivesKeeps ==
    ASSUME TypeOK, RegInv, NEW c \in Callers, NEW a \in Agents, NEW i \in Instances,
           NEW h \in Hashes \cup {NoHash}, RegisterArrives(c, a, i, h)
    PROVE  RegInv'
<1>1. \A b \in Agents : /\ code'[b].quota = code[b].quota
                        /\ code[b].state = "none" => code'[b].state = "none"
  BY CodeShape DEF RegisterArrives, TypeOK
<1>2. CASE UNCHANGED req
  BY <1>1, <1>2, RegIdle DEF RegisterArrives
<1>3. CASE ~UNCHANGED req
  <2>1. /\ req'[c].at = "attest" /\ req'[c].a = a /\ req'[c].bar = (entry[a].status = "revoked")
        /\ \A d \in Callers \ {c} : req'[d] = req[d]
        /\ UNCHANGED <<agent, entry>>
    BY <1>3 DEF RegisterArrives, TypeOK
  <2>2. code[a].quota # 0
    BY DEF RegisterArrives, RegInv, UndrawnIsUnknown
  <2>3. UndrawnIsUnknown'
    BY <1>1, <2>1, <2>2 DEF RegInv, UndrawnIsUnknown, Pending, Of
  <2>4. AttestedIsListed'
    BY <2>1 DEF RegInv, AttestedIsListed, Listed, Of
  <2>5. BarStands'
    BY <2>1 DEF RegInv, BarStands
  <2>. QED BY <2>3, <2>4, <2>5 DEF RegInv
<1>. QED BY <1>2, <1>3

LEMMA AttestKeeps ==
    ASSUME TypeOK, RegInv, NEW c \in Callers, RegisterAttest(c)
    PROVE  RegInv'
<1>1. req[c] # NoReq /\ req[c] \in Request
  BY ReqShape DEF RegisterAttest, NoReq
<1>2. \/ req'[c] = NoReq
      \/ /\ req'[c].at = "enroll" /\ req'[c].a = req[c].a /\ req'[c].hash = req[c].hash
         /\ req'[c].bar = req[c].bar /\ req'[c] # NoReq
         /\ Permits(req[c].a, req[c].hash)
  BY <1>1 DEF RegisterAttest, Done, Request, NoReq, TypeOK
<1>3. UNCHANGED <<code, agent, entry>> /\ \A d \in Callers \ {c} : req'[d] = req[d]
  BY DEF RegisterAttest, Done, TypeOK
<1>4. Permits(req[c].a, req[c].hash) => Listed(req[c].a, req[c].hash)
  BY DEF Permits, Listed
<1>5. UndrawnIsUnknown'
  BY <1>1, <1>2, <1>3 DEF RegInv, UndrawnIsUnknown, Pending, Of
<1>6. AttestedIsListed'
  BY <1>1, <1>2, <1>3, <1>4 DEF RegInv, AttestedIsListed, Listed, Of
<1>7. BarStands'
  BY <1>1, <1>2, <1>3 DEF RegInv, BarStands
<1>. QED BY <1>5, <1>6, <1>7 DEF RegInv

LEMMA EnrollKeeps ==
    ASSUME TypeOK, RegInv, NEW c \in Callers, RegisterEnroll(c)
    PROVE  RegInv'
<1> DEFINE r == req[c]
           t == Target(r.a, r.i)
<1>1. r # NoReq /\ r \in Request /\ r.at = "enroll" /\ r.a \in Agents /\ r.i \in Instances
  BY ReqShape DEF RegisterEnroll, NoReq, Request
<1>2. /\ UNCHANGED <<code, agent>> /\ req'[c] = NoReq
      /\ \A d \in Callers \ {c} : req'[d] = req[d]
  BY DEF RegisterEnroll, Done, TypeOK
<1>3. t \in Of(r.a) /\ t \in Keys
  BY <1>1 DEF Target, Of, Keys
<1>4. /\ \A k \in Keys \ {t} : entry'[k] = entry[k]
      /\ entry'[t] = entry[t] \/ (Enrollable(r.a) /\ entry'[t] = [status |-> "active", hash |-> r.hash])
  BY <1>3 DEF RegisterEnroll, TypeOK
<1>5. code[r.a].quota # 0
  BY <1>1 DEF RegInv, UndrawnIsUnknown, Pending
<1>6. \A b \in Agents \ {r.a} : \A k \in Of(b) : entry'[k] = entry[k]
  BY <1>1, <1>3, <1>4, KeysOf
<1>7. UndrawnIsUnknown'
  BY <1>2, <1>5, <1>6 DEF RegInv, UndrawnIsUnknown, Pending, Of
<1>8. AttestedIsListed'
  <2>1. Listed(r.a, r.hash)
    BY <1>1 DEF RegInv, AttestedIsListed
  <2>2. ASSUME NEW k \in Of(r.a), entry'[k].hash # NoHash
        PROVE  Listed(r.a, entry'[k].hash)
    BY <1>1, <1>4, <2>1, <2>2, KeysOf DEF RegInv, AttestedIsListed
  <2>. QED BY <1>2, <1>6, <2>2 DEF RegInv, AttestedIsListed, Listed, Of
<1>9. BarStands'
  <2> SUFFICES ASSUME NEW d \in Callers, req'[d] # NoReq, req'[d].bar
               PROVE  entry'[req'[d].a].status = "revoked"
    BY DEF BarStands
  <2>1. /\ d # c /\ req'[d] = req[d] /\ req[d].a \in Agents /\ req[d].a \in Keys
        /\ entry[req[d].a].status = "revoked"
    BY <1>2, ReqShape DEF Request, Keys, RegInv, BarStands
  <2>2. CASE t = req[d].a
    <3>1. t = r.a /\ entry[r.a].status = "pending_enrollment"
      BY <1>1, <2>1, <2>2, KeysOf DEF Target
    <3>. QED BY <2>1, <2>2, <3>1
  <2>. QED BY <1>4, <2>1, <2>2
<1>. QED BY <1>7, <1>8, <1>9 DEF RegInv

LEMMA RestartClears == TypeOK /\ Restart => RegInv'
<1> SUFFICES ASSUME TypeOK, Restart PROVE RegInv'
  OBVIOUS
<1>1. /\ \A c \in Callers : req'[c] = NoReq
      /\ \A k \in Keys : entry'[k] = NoEntry
      /\ \A a \in Agents : code'[a].state = "none"
  BY CodeShape DEF Restart
<1>2. \A a \in Agents : \A k \in Of(a) : entry'[k] = NoEntry
  BY <1>1, KeysOf
<1>. QED BY <1>1, <1>2
     DEF RegInv, UndrawnIsUnknown, Pending, AttestedIsListed, BarStands, NoEntry, Of

LEMMA RegNext == TypeOK /\ RegInv /\ [Next]_vars => RegInv'
<1> SUFFICES ASSUME TypeOK, RegInv, [Next]_vars PROVE RegInv'
  OBVIOUS
<1>1. ASSUME NEW a \in Agents, Expire(a)
      PROVE  RegInv'
  <2>1. \A b \in Agents : code'[b].quota = code[b].quota /\ code'[b].state = code[b].state
    BY <1>1 DEF Expire, TypeOK, Code
  <2>. QED BY <1>1, <2>1, RegIdle DEF Expire
<1>2. CASE Cleanup
  <2>1. \A b \in Agents : /\ code'[b].quota = code[b].quota
                          /\ code[b].state = "none" => code'[b].state = "none"
    BY <1>2, CodeShape DEF Cleanup
  <2>. QED BY <1>2, <2>1, RegIdle DEF Cleanup
<1>3. ASSUME NEW k \in Keys, Revoke(k)
      PROVE  RegInv'
  <2>1. SameRequests
    BY <1>3, BarShape DEF Revoke, SameRequests
  <2>2. ASSUME NEW c \in Callers, req[c] # NoReq
        PROVE  /\ req'[c].at = req[c].at /\ req'[c].hash = req[c].hash
               /\ req'[c].bar => k = req[c].a \/ req[c].bar
    BY <1>3, <2>2, BarShape DEF Revoke
  <2>. QED BY <1>3, <2>1, <2>2, RegStatus DEF Revoke
<1>4. ASSUME NEW k \in Keys, Deregister(k)
      PROVE  RegInv'
  <2>1. SameRequests
    BY <1>4 DEF Deregister, SameRequests
  <2>2. \A c \in Callers : req[c] # NoReq /\ req[c].bar => k # req[c].a
    BY <1>4 DEF Deregister, RegInv, BarStands
  <2>3. ASSUME NEW c \in Callers, req[c] # NoReq
        PROVE  req'[c].at = req[c].at /\ req'[c].hash = req[c].hash /\ req'[c].bar = req[c].bar
    BY <1>4 DEF Deregister
  <2>. QED BY <1>4, <2>1, <2>2, <2>3, RegStatus DEF Deregister
<1>5. ASSUME NEW k \in Keys, Restore(k)
      PROVE  RegInv'
  <2>1. SameRequests
    BY <1>5, BarShape DEF Restore, SameRequests
  <2>2. ASSUME NEW c \in Callers, req[c] # NoReq
        PROVE  /\ req'[c].at = req[c].at /\ req'[c].hash = req[c].hash
               /\ req'[c].bar => req[c].bar /\ k # req[c].a
    BY <1>5, <2>2, BarShape DEF Restore
  <2>. QED BY <1>5, <2>1, <2>2, RegStatus DEF Restore
<1>6. CASE UNCHANGED vars
  BY <1>6, RegIdle DEF vars
<1>. QED
  BY <1>1, <1>2, <1>3, <1>4, <1>5, <1>6, PreRegisterKeeps, ArrivesKeeps, AttestKeeps,
     EnrollKeeps, RestartClears DEF Next

LEMMA RegInit == Init => RegInv
<1> SUFFICES ASSUME Init PROVE RegInv
  OBVIOUS
<1>1. \A a \in Agents : \A k \in Of(a) : entry[k] = NoEntry
  BY KeysOf DEF Init
<1>. QED BY <1>1
     DEF Init, RegInv, UndrawnIsUnknown, Pending, AttestedIsListed, BarStands, NoEntry, NoCode

\* Where digests are listed, or in production, only a listed binary is enrolled.
THEOREM BinariesAreListed == Spec => []OnlyListedBinaries
<1>1. RegInv => OnlyListedBinaries
  BY DEF RegInv, AttestedIsListed, Listed, OnlyListedBinaries, Of
<1>. QED BY <1>1, RegInit, RegNext, TypeCorrect, PTL DEF Spec

\* An enrollment whose agent is revoked before the answer is not enrolled unless
\* the agent is restored, wherever between its steps the revocation comes.
THEOREM RevokedIsNotEnrolled == Spec => NoEnrollmentPastBar
<1>1. TypeOK /\ RegInv /\ [Next]_vars =>
          [\A c \in Callers :
              req[c] # NoReq /\ req[c].bar => enrolled'[req[c].a] = enrolled[req[c].a]
                                              \/ req'[c] = req[c]]_vars
  <2> SUFFICES ASSUME TypeOK, RegInv, Next, NEW c \in Callers, req[c] # NoReq, req[c].bar
               PROVE  enrolled'[req[c].a] = enrolled[req[c].a]
    OBVIOUS
  <2>1. req[c].a \in Agents /\ entry[req[c].a].status = "revoked"
    BY ReqShape DEF Request, RegInv, BarStands
  <2>2. ASSUME NEW d \in Callers, RegisterEnroll(d)
        PROVE  enrolled'[req[c].a] = enrolled[req[c].a]
    BY <2>1, <2>2 DEF RegisterEnroll, Enrollable, TypeOK
  <2>3. CASE UNCHANGED enrolled
    BY <2>3
  <2>. QED BY <2>2, <2>3
       DEF Next, PreRegister, Expire, Cleanup, RegisterArrives, RegisterAttest, Revoke, Restore,
           Deregister, Restart
<1>. QED BY <1>1, RegInit, RegNext, TypeCorrect, PTL DEF Spec, NoEnrollmentPastBar
=============================================================================
