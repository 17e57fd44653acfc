----------------------------- MODULE Enrollment -----------------------------
(***************************************************************************)
(* Pre-registration and enrollment of agents: the one-time codes           *)
(* (internal/otc/token.go), the registry (internal/registry/agent.go), the *)
(* attestation of the binary (internal/attestation/verifier.go) and the    *)
(* handlers handlePreRegister and handleRegisterEdge that call them.       *)
(*                                                                         *)
(* An enrollment takes the mutex of the code store, then reads the agent   *)
(* with no lock at all (Get hands out the registry's own pointer), then    *)
(* takes the mutex of the registry: three steps, and other enrollments     *)
(* with the same code, administrators and the cleanup come in between.     *)
(*                                                                         *)
(* Each pre-registration makes one code, so an agent stands for its code.  *)
(* The registry has an entry per agent and one per agent and instance.     *)
(* Left out: host, keys and the grant that the answer carries (Grants).    *)
(***************************************************************************)
EXTENDS Naturals, FiniteSets

CONSTANTS
    Agents,        \* agent ids that pre-registration may draw
    Instances,     \* instance ids: sent by the edge or drawn for it
    Hashes,        \* digests of binaries
    NoHash,        \* no digest yet, or none sent
    Quotas,        \* values of max_instances that are asked for
    Callers,       \* enrollments in flight
    MaxRestarts    \* bound on the restarts of the server

ASSUME HashAssumption == NoHash \notin Hashes
ASSUME QuotaAssumption == Quotas \subseteq Nat \ {0} /\ MaxRestarts \in Nat
ASSUME CallerAssumption == IsFiniteSet(Callers)
ASSUME KeyAssumption == Agents \cap (Agents \X Instances) = {}

VARIABLES
    code,        \* otc.tokens: the code of an agent
    agent,       \* what pre-registration wrote of an agent
    entry,       \* registry.agents: status, instance and enrolled hash
    req,         \* the enrollments in flight
    enrolled,    \* how many enrollments with the code have been answered OK
    restarts

vars == <<code, agent, entry, req, enrolled, restarts>>

Keys == Agents \cup (Agents \X Instances)
Profiles == {"production", "development"}
Status == {"absent", "pending_enrollment", "active", "revoked", "deregistered"}
CodeState == {"none", "live", "consumed"}

Code == [state : CodeState, expired : BOOLEAN, count : Nat, quota : Nat]
Agent == [env : Profiles, allowed : SUBSET Hashes]
Entry == [status : Status, hash : Hashes \cup {NoHash}]
Request == [at : {"attest", "enroll"}, a : Agents, i : Instances,
            hash : Hashes \cup {NoHash}, bar : BOOLEAN]

NoCode == [state |-> "none", expired |-> FALSE, count |-> 0, quota |-> 0]
NoEntry == [status |-> "absent", hash |-> NoHash]
NoReq == [at |-> "none"]

TypeOK ==
    /\ code \in [Agents -> Code]
    /\ agent \in [Agents -> Agent]
    /\ entry \in [Keys -> Entry]
    /\ req \in [Callers -> Request \cup {NoReq}]
    /\ enrolled \in [Agents -> Nat]
    /\ restarts \in 0..MaxRestarts

Unregistered == [env |-> "development", allowed |-> {}]

Init ==
    /\ code = [a \in Agents |-> NoCode]
    /\ agent = [a \in Agents |-> Unregistered]
    /\ entry = [k \in Keys |-> NoEntry]
    /\ req = [c \in Callers |-> NoReq]
    /\ enrolled = [a \in Agents |-> 0]
    /\ restarts = 0

-----------------------------------------------------------------------------
(***************************************************************************)
(* handlePreRegister.  An id is drawn at random and never comes twice, not *)
(* even after a restart: the quota of an id in use is not zero.            *)
(***************************************************************************)
PreRegister(a, env, allowed, quota) ==
    /\ code[a].quota = 0
    /\ agent' = [agent EXCEPT ![a] = [env |-> env, allowed |-> allowed]]
    /\ entry' = [entry EXCEPT ![a] = [NoEntry EXCEPT !.status = "pending_enrollment"]]
    /\ code' = [code EXCEPT ![a] = [NoCode EXCEPT !.state = "live", !.quota = quota]]
    /\ UNCHANGED <<req, enrolled, restarts>>

\* The TTL of a code runs out.
Expire(a) ==
    /\ code[a].state # "none" /\ ~code[a].expired
    /\ code' = [code EXCEPT ![a].expired = TRUE]
    /\ UNCHANGED <<agent, entry, req, enrolled, restarts>>

\* cleanupLoop drops what is expired or consumed, all of it in one turn.
Forget(c) == [c EXCEPT !.state = "none"]

Cleanup ==
    /\ code' = [a \in Agents |->
                   IF code[a].expired \/ code[a].state = "consumed" THEN Forget(code[a])
                                                                    ELSE code[a]]
    /\ UNCHANGED <<agent, entry, req, enrolled, restarts>>

-----------------------------------------------------------------------------
(***************************************************************************)
(* handleRegisterEdge.                                                     *)
(***************************************************************************)
Idle(c) == req[c] = NoReq
Done(c) == req' = [req EXCEPT ![c] = NoReq]

\* Mutant: the quota is compared before the enrollment is counted.
SpendLate(cd) ==
    [cd EXCEPT !.count = @ + 1,
               !.state = IF cd.count >= cd.quota THEN "consumed" ELSE @]

\* Mutant: places are counted down from the number used.
SpendDown(cd) ==
    [cd EXCEPT !.count = @ - 1, !.state = IF cd.count <= 1 THEN "consumed" ELSE @]

\* otc.Consume on a code that is live: the place is taken whatever follows.
Spend(cd) ==
    [cd EXCEPT !.count = @ + 1,
               !.state = IF cd.count + 1 >= cd.quota THEN "consumed" ELSE @]

RegisterArrives(c, a, i, h) ==
    /\ Idle(c)
    /\ code[a].state = "live"
    /\ IF code[a].expired
       THEN /\ code' = [code EXCEPT ![a] = Forget(@)]
            /\ UNCHANGED req
       ELSE /\ code' = [code EXCEPT ![a] = Spend(@)]
            /\ req' = [req EXCEPT ![c] =
                          [at |-> "attest", a |-> a, i |-> i, hash |-> h,
                           bar |-> entry[a].status = "revoked"]]
    /\ UNCHANGED <<agent, entry, enrolled, restarts>>

\* Mutant: a list of digests is enough, whichever the digest.
PermitsListed(a, h) ==
    /\ h # NoHash
    /\ \/ agent[a].allowed # {}
       \/ agent[a].env = "development" /\ entry[a].hash \in {NoHash, h}

\* VerifyBinaryImage
Permits(a, h) ==
    /\ h # NoHash
    /\ \/ h \in agent[a].allowed
       \/ /\ agent[a].allowed = {} /\ agent[a].env = "development"
          /\ entry[a].hash \in {NoHash, h}

RegisterAttest(c) ==
    LET r == req[c] IN
    /\ r.at = "attest"
    /\ IF entry[r.a].status # "absent" /\ Permits(r.a, r.hash)
       THEN req' = [req EXCEPT ![c].at = "enroll"]
       ELSE Done(c)
    /\ UNCHANGED <<code, agent, entry, enrolled, restarts>>

\* Mutant: an agent that is revoked can be enrolled.
EnrollableAlways(a) == entry[a].status # "absent"

Enrollable(a) == entry[a].status \notin {"absent", "revoked"}

\* The entry Enroll writes: the agent's own the first time, one for the
\* instance from then on, whatever was there before.
Target(a, i) == IF entry[a].status = "pending_enrollment" THEN a ELSE <<a, i>>

RegisterEnroll(c) ==
    LET r == req[c] IN
    /\ r.at = "enroll"
    /\ \/ /\ Enrollable(r.a)
          /\ entry' = [entry EXCEPT ![Target(r.a, r.i)] =
                          [status |-> "active", hash |-> r.hash]]
          /\ enrolled' = [enrolled EXCEPT ![r.a] = @ + 1]
       \/ /\ ~Enrollable(r.a)
          /\ UNCHANGED <<entry, enrolled>>
    /\ Done(c)
    /\ UNCHANGED <<code, agent, restarts>>

-----------------------------------------------------------------------------
(***************************************************************************)
(* Administrators, ends of sessions and the server.                        *)
(***************************************************************************)
\* "bar" of the enrollments in flight that are for the agent.
Bar(k, on) ==
    req' = [c \in Callers |->
               IF req[c] # NoReq /\ req[c].a = k THEN [req[c] EXCEPT !.bar = on]
                                                 ELSE req[c]]

\* Revoke and RevokeTarget, by agent id.
Revoke(k) ==
    /\ entry[k].status # "absent"
    /\ entry' = [entry EXCEPT ![k].status = "revoked"]
    /\ Bar(k, TRUE)
    /\ UNCHANGED <<code, agent, enrolled, restarts>>

\* RestoreTarget.
Restore(k) ==
    /\ entry[k].status # "absent"
    /\ entry' = [entry EXCEPT ![k].status = "active"]
    /\ Bar(k, FALSE)
    /\ UNCHANGED <<code, agent, enrolled, restarts>>

\* EndSessionAgent, PurgeStale and Reset on an entry that is not revoked.
Deregister(k) ==
    /\ entry[k].status \in {"active", "pending_enrollment"}
    /\ entry' = [entry EXCEPT ![k].status = "deregistered"]
    /\ UNCHANGED <<code, agent, req, enrolled, restarts>>

\* Nothing of this is saved; the enrollments in flight are lost.
Restart ==
    /\ restarts < MaxRestarts
    /\ restarts' = restarts + 1
    /\ code' = [a \in Agents |-> Forget(code[a])]
    /\ agent' = [a \in Agents |-> Unregistered]
    /\ entry' = [k \in Keys |-> NoEntry]
    /\ req' = [c \in Callers |-> NoReq]
    /\ UNCHANGED enrolled

Next ==
    \/ \E a \in Agents, env \in Profiles, allowed \in SUBSET Hashes, q \in Quotas :
           PreRegister(a, env, allowed, q)
    \/ \E a \in Agents : Expire(a)
    \/ Cleanup
    \/ \E c \in Callers :
           \/ \E a \in Agents, i \in Instances, h \in Hashes \cup {NoHash} :
                  RegisterArrives(c, a, i, h)
           \/ RegisterAttest(c)
           \/ RegisterEnroll(c)
    \/ \E k \in Keys : Revoke(k) \/ Restore(k) \/ Deregister(k)
    \/ Restart

Spec == Init /\ [][Next]_vars

-----------------------------------------------------------------------------
(***************************************************************************)
(* Properties that hold.                                                   *)
(***************************************************************************)

\* Those who hold a place of a code: enrolled with it, or about to be.
Pending(a) == {c \in Callers : req[c] # NoReq /\ req[c].a = a}

\* A code enrolls no more instances than it was made for, however many present
\* it at the same time and although spent codes are forgotten.
QuotaKept ==
    \A a \in Agents : enrolled[a] + Cardinality(Pending(a)) <= code[a].quota

\* An enrollment whose agent is revoked, when the code is presented or at any time
\* before the answer, enrolls nobody unless the agent is restored: the steps before
\* the last know nothing of a revocation, and no other enrollment lifts it.
NoEnrollmentPastBar ==
    [][\A c \in Callers :
          req[c] # NoReq /\ req[c].bar => enrolled'[req[c].a] = enrolled[req[c].a]
                                          \/ req'[c] = req[c]]_vars

\* In production, and wherever digests were listed, an entry that ever was
\* enrolled runs a listed binary.
OnlyListedBinaries ==
    \A a \in Agents, i \in Instances, k \in Keys :
        /\ k \in {a, <<a, i>>} /\ entry[k].hash # NoHash
        /\ agent[a].env = "production" \/ agent[a].allowed # {}
        => entry[k].hash \in agent[a].allowed

=============================================================================
