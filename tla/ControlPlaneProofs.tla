------------------------- MODULE ControlPlaneProofs -------------------------
(***************************************************************************)
(* The handlers of the control plane, for any sessions, users, instances,  *)
(* requests in flight and restarts: the model is type correct, a request   *)
(* that an administrator had barred before it came is not accepted, and    *)
(* the bar on an agent, a user or a session is lifted by the restore that  *)
(* is about it (the first also by an enrollment or a restart), by nothing  *)
(* in between.                                                             *)
(*                                                                         *)
(* TypeOK alone is not inductive: that what a revocation adds to           *)
(* revokedUsers is a user or a session id depends on how each handler      *)
(* resolved its target (GoodReq).                                          *)
(***************************************************************************)
EXTENDS ControlPlane, TLAPS

StartReq == [op : {"start"}, at : Places, s : Sessions, n : Names,
             k : Instances \cup {NoInstance}, closed : BOOLEAN, bar : BOOLEAN]
ClientReq == [op : {"beat", "end", "prompt"}, at : Places, s : Sessions,
              n : Identity \cup {NoUser}, k : Targets,
              closed : BOOLEAN, bar : BOOLEAN]
AdminReq == [op : Actions, at : Places, s : Sessions \cup {NoSession},
             n : Names \cup Sessions \cup {NoUser}, k : Targets,
             closed : BOOLEAN, bar : BOOLEAN]

GoodReq ==
    StartReq \cup ClientReq \cup {NoReq}
    \cup {r \in AdminReq : /\ r.at = "list" => r.s \in Sessions
                           /\ r.at = "find" => r.k \in Entries}

StoreTypes ==
    /\ sess \in [Sessions -> Session]
    /\ link \in [Sessions -> Instances \cup {NoInstance}]
    /\ savedUid \in [Sessions -> Identity]
    /\ revokedUsers \in SUBSET (Names \cup Sessions)

RestTypes ==
    /\ agents \in [Entries -> AgentStatus]
    /\ killSwitch \in BOOLEAN
    /\ owner \in [Sessions -> Names \cup {NoUser}]
    /\ up \in SUBSET Sessions
    /\ restarts \in 0..MaxRestarts

ReqTypes == req \in [Threads -> GoodReq]

TInv == StoreTypes /\ RestTypes /\ ReqTypes
-----------------------------------------------------------------------------
(***************************************************************************)
(* Types of the parts.                                                     *)
(***************************************************************************)
LEMMA GoodIsRequest == GoodReq \subseteq Request \cup {NoReq}
BY DEF GoodReq, StartReq, ClientReq, AdminReq, Request, Actions, Identity, Keys, Targets

LEMMA TInvTypes == TInv => TypeOK
<1>1. ReqTypes => req \in [Threads -> Request \cup {NoReq}]
    BY GoodIsRequest DEF ReqTypes
<1>2. QED
    BY <1>1 DEF TInv, StoreTypes, RestTypes, TypeOK

\* What the operations of the store make of a session is a session.
LEMMA RecordTypes ==
    ASSUME NEW old \in Session
    PROVE  /\ \A n \in Names : AfterStart(old, n, Blank, NoIntent) \in Session
           /\ AfterEnd(old, "ended") \in Session
           /\ AfterRevoke(old) \in Session /\ AfterRestoreUser(old) \in Session
           /\ AfterRestoreTarget(old) \in Session
           /\ AfterHeartbeat(old) \in Session
           /\ AfterSweep(old, "system_reset") \in Session
           /\ \A uid \in Names \cup {Blank} : AfterActivity(old, uid, Blank) \in Session
<1>0. Absent \in Session
    BY UnknownAssumption DEF Absent, Session, Status, Reason, Identity
<1>1. ASSUME NEW n \in Names
      PROVE  AfterStart(old, n, Blank, NoIntent) \in Session
  <2>1. NewSession(n, Blank, NoIntent) \in Session
      BY <1>0, UnknownAssumption DEF NewSession, OrNA, IntentOr, Session, Status, Identity
  <2>2. Reactivated(old, n, Blank, NoIntent) \in Session
    <3>1. /\ (IF n = Blank THEN old.uid ELSE n) \in Identity
          /\ IntentOr(NoIntent, old.intent) \in Categories
          /\ (IF WasOver(old) THEN 0 ELSE old.total) \in Nat
          /\ (IF WasOver(old) THEN 0 ELSE old.allowed) \in Nat
          /\ (IF WasOver(old) THEN 0 ELSE old.denied) \in Nat
        BY DEF Session, Identity, IntentOr
    <3>2. QED
        BY <3>1 DEF Reactivated, Session, Status, Reason
  <2>3. QED
      BY <2>1, <2>2 DEF AfterStart
<1>2. /\ AfterEnd(old, "ended") \in Session
      /\ AfterRevoke(old) \in Session /\ AfterRestoreUser(old) \in Session
      /\ AfterRestoreTarget(old) \in Session
      /\ AfterHeartbeat(old) \in Session
      /\ AfterSweep(old, "system_reset") \in Session
    BY DEF AfterEnd, AfterRevoke, AfterRestoreUser, AfterRestoreTarget, AfterHeartbeat,
       AfterSweep, Session, Status, Reason
<1>3. ASSUME NEW uid \in Names \cup {Blank}
      PROVE  AfterActivity(old, uid, Blank) \in Session
  <2>1. Witness(old, uid, Blank) \in Session
      BY <1>0 DEF Witness, Session, Status, Identity
  <2>2. ASSUME NEW r \in Session
        PROVE  Woken(r) \in Session
      BY DEF Woken, Session, Status, Reason
  <2>3. ASSUME NEW r \in Session
        PROVE  [r EXCEPT !.uid = Fill(@, uid), !.mail = Fill(@, Blank)] \in Session
      BY DEF Fill, Session, Identity
  <2>4. QED
      BY <2>1, <2>2, <2>3 DEF AfterActivity
<1>4. QED
    BY <1>1, <1>2, <1>3

LEMMA PutTypes ==
    ASSUME StoreTypes, NEW s \in Sessions, NEW new \in Session, Put(s, new)
    PROVE  sess' \in [Sessions -> Session]
BY DEF StoreTypes, Put

LEMMA KeyTypes ==
    /\ NoInstance \in Targets /\ Keys \subseteq Targets /\ Entries \subseteq Targets
    /\ \A e \in Entries : e[1] \in Keys
    /\ \A s \in Sessions : StoreTypes => Key(s) \in Keys /\ link[s] \in Targets
BY DEF StoreTypes, Key, Keys, Entries, Targets

\* A request by its operation.
LEMMA ReqFields ==
    ASSUME ReqTypes, NEW t \in Threads
    PROVE  /\ req[t].op = "start" => req[t] \in StartReq
           /\ req[t].op \in {"beat", "end", "prompt"} => req[t] \in ClientReq
           /\ req[t].op \in Actions =>
                  /\ req[t] \in AdminReq
                  /\ req[t].at = "list" => req[t].s \in Sessions
                  /\ req[t].at = "find" => req[t].k \in Entries
BY DEF ReqTypes, GoodReq, StartReq, ClientReq, AdminReq, Actions, NoReq

LEMMA BecomesTypes ==
    ASSUME ReqTypes, NEW t \in Threads, NEW new \in GoodReq, req' = [req EXCEPT ![t] = new]
    PROVE  ReqTypes'
BY DEF ReqTypes

LEMMA DoneTypes ==
    ASSUME ReqTypes, NEW t \in Threads, Done(t)
    PROVE  ReqTypes'
BY BecomesTypes DEF Done, GoodReq

LEMMA GotoTypes ==
    ASSUME ReqTypes, NEW t \in Threads, NEW place \in Places \ {"list", "find"}, Goto(t, place),
           req[t] # NoReq
    PROVE  ReqTypes'
<1>1. [req[t] EXCEPT !.at = place] \in GoodReq
  <2>1. CASE req[t] \in StartReq
      BY <2>1 DEF GoodReq, StartReq
  <2>2. CASE req[t] \in ClientReq
      BY <2>2 DEF GoodReq, ClientReq
  <2>3. CASE req[t] \in AdminReq
      BY <2>3 DEF GoodReq, AdminReq
  <2>4. QED
      BY <2>1, <2>2, <2>3 DEF ReqTypes, GoodReq
<1>2. QED
    BY <1>1, BecomesTypes DEF Goto

LEMMA AgentTypes ==
    ASSUME RestTypes, NEW k
    PROVE  /\ EnsureSessionAgent(k) \/ EndSessionAgent(k) => agents' \in [Entries -> AgentStatus]
           /\ \A a \in AgentStatus :
                  agents' = [agents EXCEPT ![k] = a] => agents' \in [Entries -> AgentStatus]
BY DEF RestTypes, EnsureSessionAgent, EndSessionAgent, AgentStatus

\* RevokeUser and RestoreUser, of a user or a session id, or of nobody.
LEMMA UserTypes ==
    ASSUME StoreTypes, NEW n \in Names \cup Sessions \cup {NoUser},
           RevokeUser(n) \/ RestoreUser(n), UNCHANGED <<link, savedUid>>
    PROVE  StoreTypes'
<1>1. sess' \in [Sessions -> Session]
    BY RecordTypes DEF StoreTypes, RevokeUser, RestoreUser
<1>2. revokedUsers' \in SUBSET (Names \cup Sessions)
    BY DEF StoreTypes, RevokeUser, RestoreUser
<1>3. QED
    BY <1>1, <1>2 DEF StoreTypes

-----------------------------------------------------------------------------
(***************************************************************************)
(* Types, request by request.                                              *)
(***************************************************************************)
LEMMA StartTypes ==
    ASSUME TInv, NEW t \in Threads, StartStep(t)
    PROVE  TInv'
<1>0. StoreTypes /\ RestTypes /\ ReqTypes
    BY DEF TInv
<1>1. /\ req[t] \in StartReq /\ req[t] # NoReq
      /\ {"session", "agent", "store", "ensure"} \subseteq Places \ {"list", "find"}
    BY <1>0, ReqFields DEF StartStep, StartUser, StartSession, StartAgent, StartStore, StartEnsure,
       At, Places, NoReq
<1>2. ASSUME UNCHANGED <<store, agents, killSwitch, client, restarts>>,
             Done(t) \/ \E place \in {"session", "agent", "store"} : Goto(t, place)
      PROVE  TInv'
    BY <1>0, <1>1, <1>2, DoneTypes, GotoTypes DEF TInv, StoreTypes, RestTypes, store, client
<1>3. CASE StartUser(t) \/ StartSession(t) \/ StartAgent(t)
    BY <1>2, <1>3 DEF StartUser, StartSession, StartAgent
<1>4. CASE StartStore(t)
  <2>1. ReqTypes'
      BY <1>0, <1>1, <1>4, DoneTypes, GotoTypes DEF StartStore
  <2>2. CASE UNCHANGED store
      BY <1>0, <1>4, <2>1, <2>2 DEF StartStore, TInv, StoreTypes, RestTypes, store, client
  <2>3. CASE /\ Put(req[t].s, AfterStart(sess[req[t].s], req[t].n, Blank, NoIntent))
             /\ Insert(req[t].s, req[t].n, req[t].k)
             /\ UNCHANGED revokedUsers
    <3>1. req[t].s \in Sessions /\ req[t].n \in Names /\ req[t].k \in Instances \cup {NoInstance}
        BY <1>1 DEF StartReq
    <3>2. sess[req[t].s] \in Session
        BY <1>0, <3>1 DEF StoreTypes
    <3>3. sess' \in [Sessions -> Session]
        BY <1>0, <2>3, <3>1, <3>2, RecordTypes, PutTypes
    <3>4. StoreTypes'
        BY <1>0, <2>3, <3>1, <3>3 DEF StoreTypes, Insert, Identity
    <3>5. QED
        BY <1>0, <1>4, <2>1, <3>4 DEF StartStore, TInv, RestTypes, client
  <2>4. QED
      BY <1>4, <2>2, <2>3 DEF StartStore
<1>5. CASE StartEnsure(t)
  <2>1. ReqTypes' /\ agents' \in [Entries -> AgentStatus]
      BY <1>0, <1>5, DoneTypes, AgentTypes DEF StartEnsure
  <2>2. up' \in SUBSET Sessions
      BY <1>0, <1>1, <1>5 DEF StartEnsure, RestTypes, StartReq
  <2>3. QED
      BY <1>0, <1>5, <2>1, <2>2 DEF StartEnsure, TInv, StoreTypes, RestTypes, store
<1>6. QED
    BY <1>3, <1>4, <1>5 DEF StartStep

LEMMA BeatTypes ==
    ASSUME TInv, NEW s \in Sessions, BeatArrives(s) \/ BeatStep(s) \/ Exit(s)
    PROVE  TInv'
<1>0. StoreTypes /\ RestTypes /\ ReqTypes /\ s \in Threads
    BY DEF TInv, Threads
<1>1. {"user", "store", "instance", "ensure", "get"} \subseteq Places \ {"list", "find"}
    BY DEF Places
<1>2. up' \in SUBSET Sessions
    BY <1>0 DEF BeatArrives, BeatStep, BeatGet, BeatUser, BeatStore, BeatInstance, BeatEnsure, Exit,
       Terminate, client, RestTypes
<1>3. CASE Exit(s)
    BY <1>0, <1>2, <1>3 DEF Exit, TInv, StoreTypes, RestTypes, ReqTypes, store
<1>4. CASE BeatArrives(s)
  <2>1. NewReq("beat", "get", s, NoUser, NoInstance) \in GoodReq
      BY <1>1, KeyTypes DEF NewReq, GoodReq, ClientReq
  <2>2. ReqTypes'
      BY <1>0, <1>4, <2>1, BecomesTypes DEF BeatArrives, ReqTypes
  <2>3. QED
      BY <1>0, <1>2, <1>4, <2>2 DEF BeatArrives, TInv, StoreTypes, RestTypes, store
<1>5. CASE BeatGet(s)
  <2>1. req[s] \in ClientReq /\ sess[s] \in Session
      BY <1>0, <1>5, ReqFields DEF BeatGet, At, StoreTypes
  <2>2. sess[s].uid \in Identity /\ (sess[s].status = "closed") \in BOOLEAN
      BY <2>1 DEF Session
  <2>3. [req[s] EXCEPT !.n = sess[s].uid, !.closed = (sess[s].status = "closed"),
                       !.at = IF Known(sess[s]) THEN "user" ELSE "store"] \in GoodReq
      BY <1>1, <2>1, <2>2 DEF GoodReq, ClientReq
  <2>4. ReqTypes'
      BY <1>0, <1>5, <2>3, BecomesTypes, DoneTypes DEF BeatGet, Terminate
  <2>5. QED
      BY <1>0, <1>2, <1>5, <2>4 DEF BeatGet, TInv, StoreTypes, RestTypes, store
<1>6. CASE BeatUser(s)
  <2>1. ReqTypes'
      BY <1>0, <1>1, <1>6, DoneTypes, GotoTypes DEF BeatUser, Terminate, At, NoReq
  <2>2. QED
      BY <1>0, <1>2, <1>6, <2>1 DEF BeatUser, TInv, StoreTypes, RestTypes, store
<1>7. CASE BeatStore(s)
  <2>1. ReqTypes'
      BY <1>0, <1>1, <1>7, DoneTypes, GotoTypes DEF BeatStore, Terminate, At, NoReq
  <2>2. sess' \in [Sessions -> Session]
      BY <1>0, <1>7, RecordTypes, PutTypes DEF BeatStore, StoreTypes
  <2>3. QED
      BY <1>0, <1>2, <1>7, <2>1, <2>2 DEF BeatStore, TInv, StoreTypes, RestTypes
<1>8. CASE BeatInstance(s)
  <2>1. ReqTypes'
      BY <1>0, <1>1, <1>8, DoneTypes, GotoTypes DEF BeatInstance, At, NoReq
  <2>2. QED
      BY <1>0, <1>8, <2>1 DEF BeatInstance, TInv, StoreTypes, RestTypes, store, client
<1>9. CASE BeatEnsure(s)
  <2>1. ReqTypes' /\ agents' \in [Entries -> AgentStatus]
      BY <1>0, <1>9, DoneTypes, AgentTypes DEF BeatEnsure
  <2>2. QED
      BY <1>0, <1>9, <2>1 DEF BeatEnsure, TInv, StoreTypes, RestTypes, store, client
<1>10. QED
    BY <1>3, <1>4, <1>5, <1>6, <1>7, <1>8, <1>9 DEF BeatStep

\* Outside the sessions Put writes nothing.
LEMMA PutAnyTypes ==
    ASSUME StoreTypes, NEW s, NEW new, s \in Sessions => new \in Session, Put(s, new)
    PROVE  sess' \in [Sessions -> Session]
BY DEF StoreTypes, Put

LEMMA EndTypes ==
    ASSUME TInv, NEW t \in Threads, EndStep(t)
    PROVE  TInv'
<1>0. StoreTypes /\ RestTypes /\ ReqTypes /\ "agent" \in Places \ {"list", "find"}
    BY DEF TInv, Places
<1>1. ReqTypes'
    BY <1>0, DoneTypes, GotoTypes DEF EndStep, EndStore, EndAgent, At, NoReq
<1>2. CASE EndStore(t)
  <2>1. sess' \in [Sessions -> Session]
      BY <1>0, <1>2, RecordTypes, PutAnyTypes DEF EndStore, StoreTypes
  <2>2. QED
      BY <1>0, <1>1, <1>2, <2>1 DEF EndStore, TInv, StoreTypes, RestTypes, client
<1>3. CASE EndAgent(t)
  <2>1. agents' \in [Entries -> AgentStatus]
      BY <1>0, <1>3, AgentTypes DEF EndAgent
  <2>2. QED
      BY <1>0, <1>1, <1>3, <2>1 DEF EndAgent, TInv, StoreTypes, RestTypes, store, client
<1>4. QED
    BY <1>2, <1>3 DEF EndStep

LEMMA PromptTypes ==
    ASSUME TInv, NEW t \in Threads, PromptStep(t)
    PROVE  TInv'
<1>0. /\ StoreTypes /\ RestTypes /\ ReqTypes
      /\ req[t] \in ClientReq /\ req[t] # NoReq
      /\ {"user", "accepted"} \subseteq Places \ {"list", "find"}
    BY ReqFields DEF TInv, Places, PromptStep, PromptStore, PromptUser, PromptAnswer, At, NoReq
<1>1. CASE PromptStore(t)
  <2>0. req[t].s \in Sessions /\ sess[req[t].s] \in Session
      BY <1>0 DEF ClientReq, StoreTypes
  <2>1. sess[req[t].s].uid \in Identity
      BY <2>0 DEF Session
  <2>2. [req[t] EXCEPT !.at = "user", !.n = sess[req[t].s].uid,
                       !.bar = req[t].bar /\ sess[req[t].s].uid = req[t].n] \in GoodReq
      BY <1>0, <2>1 DEF GoodReq, ClientReq
  <2>3. ReqTypes'
      BY <1>0, <1>1, <2>2, BecomesTypes, DoneTypes DEF PromptStore
  <2>4. sess' \in [Sessions -> Session]
      BY <1>0, <1>1, <2>0, RecordTypes, PutTypes DEF PromptStore, StoreTypes
  <2>5. QED
      BY <1>0, <1>1, <2>3, <2>4 DEF PromptStore, TInv, StoreTypes, RestTypes, client
<1>2. CASE PromptUser(t) \/ PromptAnswer(t)
  <2>1. ReqTypes'
      BY <1>0, <1>2, DoneTypes, GotoTypes DEF PromptUser, PromptAnswer
  <2>2. QED
      BY <1>0, <1>2, <2>1
      DEF PromptUser, PromptAnswer, TInv, StoreTypes, RestTypes, store, client
<1>3. QED
    BY <1>1, <1>2 DEF PromptStep

\* What an action does to the request next: a step of its own, or nothing left.
LEMMA NextStepTypes ==
    ASSUME NEW r \in AdminReq
    PROVE  AgentNext(r) \in GoodReq /\ SessionNext(r) \in GoodReq
BY DEF AgentNext, SessionNext, GoodReq, AdminReq, Places

LEMMA LiftTypes ==
    ASSUME NEW new \in [Threads -> GoodReq], NEW S, NEW n, Lift(new, S, n)
    PROVE  ReqTypes'
<1>1. ASSUME NEW r \in GoodReq, r.op \in {"start", "prompt"}
      PROVE  [r EXCEPT !.bar = FALSE] \in GoodReq
  <2>1. r \in StartReq \/ r \in ClientReq
      BY <1>1 DEF GoodReq, AdminReq, Actions, NoReq
  <2>2. CASE r \in StartReq
      BY <2>2 DEF StartReq, GoodReq
  <2>3. CASE r \in ClientReq
      BY <2>3 DEF ClientReq, GoodReq
  <2>4. QED
      BY <2>1, <2>2, <2>3
<1>2. \A t \in Threads : new[t] \in GoodReq
    BY DEF ReqTypes
<1>3. QED
    BY <1>1, <1>2 DEF Lift, ReqTypes

\* The steps of an action that look for its target.
LEMMA TargetTypes ==
    ASSUME TInv, NEW t \in Threads, TargetList(t) \/ TargetFind(t)
    PROVE  TInv'
<1>0. /\ StoreTypes /\ RestTypes /\ ReqTypes
      /\ req[t] \in AdminReq /\ req[t] # NoReq
      /\ req[t].at = "list" => req[t].s \in Sessions
      /\ req[t].at = "find" => req[t].k \in Entries
      /\ {"user", "store", "agent"} \subseteq Places \ {"list", "find"}
    BY ReqFields DEF TInv, Places, TargetList, TargetFind, AdminReq, Actions, NoReq
<1>1. ReqTypes' => TInv'
    BY <1>0 DEF TargetList, TargetFind, TInv, StoreTypes, RestTypes, store, client
<1>2. ASSUME NEW k \in Targets, NEW place \in {"user", "store", "agent"},
             req' = [req EXCEPT ![t] = [req[t] EXCEPT !.k = k, !.at = place]]
      PROVE  TInv'
  <2>1. [req[t] EXCEPT !.k = k, !.at = place] \in GoodReq
      BY <1>0 DEF GoodReq, AdminReq
  <2>2. QED
      BY <1>0, <1>1, <1>2, <2>1, BecomesTypes
<1>3. CASE TargetList(t)
  <2>0. req[t].s \in Sessions
      BY <1>0, <1>3 DEF TargetList
  <2>1. PICK e \in AgentsOf(Key(req[t].s)) \cup {NoInstance} :
            req' = [req EXCEPT ![t] = [req[t] EXCEPT
                !.k = IF req[t].op = "stop" THEN link[req[t].s] ELSE e,
                !.at = IF req[t].op = "stop" THEN "store" ELSE "user"]]
      BY <1>3 DEF TargetList
  <2>2. (IF req[t].op = "stop" THEN link[req[t].s] ELSE e) \in Targets
      BY <1>0, <2>0, <2>1, KeyTypes DEF AgentsOf
  <2>3. (IF req[t].op = "stop" THEN "store" ELSE "user") \in {"user", "store", "agent"}
      OBVIOUS
  <2>4. QED
      BY <1>2, <2>1, <2>2, <2>3
<1>4. CASE TargetFind(t)
  <2>0. req[t].k \in Entries
      BY <1>0, <1>4 DEF TargetFind
  <2>1. CASE Goto(t, "user")
      BY <1>0, <1>1, <2>1, GotoTypes
  <2>2. CASE req' = [req EXCEPT ![t] = [req[t] EXCEPT !.k = req[t].k[1], !.at = "agent"]]
      BY <1>2, <2>0, <2>2, KeyTypes
  <2>3. ASSUME NEW s \in Sessions,
               req' = [req EXCEPT ![t] = [req[t] EXCEPT
                  !.s = s, !.n = UserOf(s, NoUser),
                  !.k = IF req[t].op = "stop" THEN link[s] ELSE req[t].k,
                  !.at = IF req[t].op = "stop" THEN "store" ELSE "user"]]
        PROVE  TInv'
    <3> DEFINE n == UserOf(s, NoUser)
               k == IF req[t].op = "stop" THEN link[s] ELSE req[t].k
               place == IF req[t].op = "stop" THEN "store" ELSE "user"
    <3>1. n \in Names \cup Sessions \cup {NoUser}
        BY DEF UserOf
    <3>2. k \in Targets /\ place \in {"user", "store"}
        BY <1>0, KeyTypes DEF AdminReq
    <3>3. req' = [req EXCEPT ![t] = [req[t] EXCEPT !.s = s, !.n = n, !.k = k, !.at = place]]
        BY <2>3
    <3> HIDE DEF n, k, place
    <3>4. [req[t] EXCEPT !.s = s, !.n = n, !.k = k, !.at = place] \in GoodReq
        BY <1>0, <3>1, <3>2 DEF GoodReq, AdminReq
    <3>5. QED
        BY <1>0, <1>1, <3>3, <3>4, BecomesTypes
  <2>4. QED
      BY <1>4, <2>1, <2>2, <2>3 DEF TargetFind
<1>5. QED
    BY <1>3, <1>4

\* The steps that write a store.
LEMMA ActionTypes ==
    ASSUME TInv, NEW t \in Threads,
           \/ StopStore(t) \/ StopAgent(t)
           \/ RevokeUserStep(t) \/ RevokeSessionStep(t) \/ RevokeAgentStep(t)
           \/ RestoreUserStep(t) \/ RestoreSessionStep(t) \/ RestoreAgentStep(t)
    PROVE  TInv'
<1>0. StoreTypes /\ RestTypes /\ ReqTypes /\ req[t] \in AdminReq /\ req[t] # NoReq
    BY ReqFields DEF TInv, StopStore, StopAgent, RevokeUserStep, RevokeSessionStep, RevokeAgentStep,
       RestoreUserStep, RestoreSessionStep, RestoreAgentStep, At, Actions, NoReq
<1>1. AgentNext(req[t]) \in GoodReq /\ SessionNext(req[t]) \in GoodReq
    BY <1>0, NextStepTypes
<1>2. /\ [req EXCEPT ![t] = AgentNext(req[t])] \in [Threads -> GoodReq]
      /\ [req EXCEPT ![t] = SessionNext(req[t])] \in [Threads -> GoodReq]
    BY <1>0, <1>1 DEF ReqTypes
<1>3. ReqTypes'
  <2>1. CASE StopStore(t)
      BY <1>0, <2>1, GotoTypes DEF StopStore, Places
  <2>2. CASE StopAgent(t) \/ RevokeAgentStep(t) \/ RestoreAgentStep(t)
      BY <1>0, <2>2, DoneTypes DEF StopAgent, RevokeAgentStep, RestoreAgentStep
  <2>3. CASE RevokeUserStep(t) \/ RevokeSessionStep(t)
      BY <1>2, <2>3 DEF RevokeUserStep, RevokeSessionStep, ReqTypes
  <2>4. CASE RestoreUserStep(t) \/ RestoreSessionStep(t)
      BY <1>2, <2>4, LiftTypes DEF RestoreUserStep, RestoreSessionStep
  <2>5. QED
      BY <2>1, <2>2, <2>3, <2>4
<1>4. StoreTypes'
  <2>1. CASE RevokeUserStep(t) \/ RestoreUserStep(t)
      BY <1>0, <2>1, UserTypes DEF RevokeUserStep, RestoreUserStep, AdminReq
  <2>2. CASE StopStore(t) \/ RevokeSessionStep(t) \/ RestoreSessionStep(t)
    <3>1. req[t].s \in Sessions => sess[req[t].s] \in Session
        BY <1>0 DEF StoreTypes
    <3>2. sess' \in [Sessions -> Session]
        BY <1>0, <2>2, <3>1, RecordTypes, PutAnyTypes
        DEF StopStore, RevokeSessionStep, RestoreSessionStep, StoreTypes
    <3>3. QED
        BY <1>0, <2>2, <3>2 DEF StopStore, RevokeSessionStep, RestoreSessionStep, StoreTypes
  <2>3. CASE StopAgent(t) \/ RevokeAgentStep(t) \/ RestoreAgentStep(t)
      BY <1>0, <2>3 DEF StopAgent, RevokeAgentStep, RestoreAgentStep, StoreTypes, store
  <2>4. QED
      BY <2>1, <2>2, <2>3
<1>5. RestTypes'
  <2>1. agents' \in [Entries -> AgentStatus]
      BY <1>0, AgentTypes DEF StopStore, StopAgent, RevokeUserStep, RevokeSessionStep,
         RevokeAgentStep, RestoreUserStep, RestoreSessionStep, RestoreAgentStep, AgentStatus,
         RestTypes
  <2>2. QED
      BY <1>0, <2>1 DEF StopStore, StopAgent, RevokeUserStep, RevokeSessionStep,
         RevokeAgentStep, RestoreUserStep, RestoreSessionStep, RestoreAgentStep, RestTypes, client
<1>6. QED
    BY <1>3, <1>4, <1>5 DEF TInv

Arrival(t) == ClientArrival(t) \/ AdminArrival(t)

LEMMA ArrivalTypes ==
    ASSUME TInv, NEW t \in Threads, Arrival(t)
    PROVE  TInv'
<1>0. /\ StoreTypes /\ RestTypes /\ ReqTypes
      /\ {"user", "store", "find", "list"} \subseteq Places
    BY DEF TInv, Places
<1>1. ASSUME NEW new \in GoodReq, req' = [req EXCEPT ![t] = new],
             UNCHANGED <<store, agents, killSwitch, up, restarts>>,
             owner' \in [Sessions -> Names \cup {NoUser}]
      PROVE  TInv'
    BY <1>0, <1>1, BecomesTypes DEF TInv, StoreTypes, RestTypes, store
<1>2. ASSUME NEW s \in Sessions, NEW n \in Names, NEW k \in Instances \cup {NoInstance},
             StartArrives(t, s, n, k)
      PROVE  TInv'
  <2>1. [NewReq("start", "user", s, n, k) EXCEPT !.bar = Barred(s, n)] \in GoodReq
      BY <1>0 DEF NewReq, GoodReq, StartReq, Barred, IsRevoked
  <2>2. owner' \in [Sessions -> Names \cup {NoUser}]
      BY <1>0, <1>2 DEF StartArrives, RestTypes
  <2>3. QED
      BY <1>1, <1>2, <2>1, <2>2 DEF StartArrives
<1>3. ASSUME NEW s \in Sessions, EndArrives(t, s)
      PROVE  TInv'
  <2>1. (IF Known(sess[s]) THEN Key(s) ELSE NoInstance) \in Targets
      BY <1>0, KeyTypes
  <2>2. NewReq("end", "store", s, NoUser, IF Known(sess[s]) THEN Key(s) ELSE NoInstance) \in GoodReq
      BY <1>0, <2>1 DEF NewReq, GoodReq, ClientReq
  <2>3. QED
      BY <1>0, <1>1, <1>3, <2>2 DEF EndArrives, RestTypes, client
<1>4. ASSUME NEW s \in Sessions, PromptArrives(t, s)
      PROVE  TInv'
  <2>1. sess[s].uid \in Identity
      BY <1>0 DEF StoreTypes, Session
  <2>2. [NewReq("prompt", "store", s, sess[s].uid, NoInstance) EXCEPT
             !.bar = sess[s].uid \in revokedUsers] \in GoodReq
    <3>1. NewReq("prompt", "store", s, sess[s].uid, NoInstance) \in ClientReq
        BY <1>0, <2>1, KeyTypes DEF NewReq, ClientReq
    <3>2. ASSUME NEW r \in ClientReq, NEW b \in BOOLEAN
          PROVE  [r EXCEPT !.bar = b] \in ClientReq
        BY DEF ClientReq
    <3>3. (sess[s].uid \in revokedUsers) \in BOOLEAN
        OBVIOUS
    <3>4. QED
        BY <3>1, <3>2, <3>3 DEF GoodReq
  <2>3. QED
      BY <1>0, <1>1, <1>4, <2>2 DEF PromptArrives, RestTypes, client
<1>5. ASSUME NEW op \in Actions, NEW s \in Sessions \cup {NoSession},
             NEW n \in Names \cup Sessions \cup {NoUser}, NEW k \in Targets,
             NEW place \in {"user", "store", "find", "list"}, place = "list" => s \in Sessions,
             place = "find" => k \in Entries,
             req' = [req EXCEPT ![t] = NewReq(op, place, s, n, k)],
             UNCHANGED <<store, agents, killSwitch, client, restarts>>
      PROVE  TInv'
  <2>1. NewReq(op, place, s, n, k) \in GoodReq
      BY <1>0, <1>5 DEF NewReq, GoodReq, AdminReq
  <2>2. QED
      BY <1>0, <1>1, <1>5, <2>1 DEF RestTypes, client
<1>6. ASSUME NEW op \in Actions, NEW s \in Sessions, TargetSession(t, op, s)
      PROVE  TInv'
  <2>1. UserOf(s, s) \in Names \cup Sessions \cup {NoUser}
      BY DEF UserOf
  <2>2. QED
      BY <1>5, <1>6, <2>1, KeyTypes DEF TargetSession
<1>7. ASSUME NEW op \in Actions, NEW e \in Entries, TargetAgent(t, op, e)
      PROVE  TInv'
    BY <1>5, <1>7, KeyTypes DEF TargetAgent
<1>8. ASSUME NEW op \in Actions, NEW n \in Names, TargetName(t, op, n)
      PROVE  TInv'
  <2>1. ASSUME NEW s \in Sessions,
               req' = [req EXCEPT ![t] =
                         NewReq(op, IF op = "stop" THEN "store" ELSE "user", s, n,
                                IF op = "stop" THEN link[s] ELSE NoInstance)]
        PROVE  TInv'
    <3>1. /\ (IF op = "stop" THEN "store" ELSE "user") \in {"user", "store"}
          /\ (IF op = "stop" THEN link[s] ELSE NoInstance) \in Targets
        BY <1>0, KeyTypes
    <3>2. QED
        BY <1>5, <1>8, <2>1, <3>1 DEF TargetName
  <2>2. QED
      BY <1>5, <1>8, <2>1, KeyTypes DEF TargetName
<1>9. QED
    BY <1>2, <1>3, <1>4, <1>6, <1>7, <1>8 DEF Arrival, ClientArrival, AdminArrival

LEMMA SingleTypes ==
    ASSUME TInv, Single \/ Restart
    PROVE  TInv'
<1>0. StoreTypes /\ RestTypes /\ ReqTypes
    BY DEF TInv
<1>1. ASSUME NEW e \in Entries, EnrollAgent(e) \/ RevokeAgent(e)
      PROVE  TInv'
  <2>1. agents' \in [Entries -> AgentStatus]
      BY <1>0, <1>1, AgentTypes DEF EnrollAgent, RevokeAgent, AgentStatus
  <2>2. QED
      BY <1>0, <1>1, <2>1 DEF EnrollAgent, RevokeAgent, TInv, StoreTypes, RestTypes, ReqTypes, store, client
<1>2. CASE RevokeApp
  <2>1. agents' \in [Entries -> AgentStatus]
      BY <1>2 DEF RevokeApp, AgentStatus
  <2>2. QED
      BY <1>0, <1>2, <2>1 DEF RevokeApp, TInv, StoreTypes, RestTypes, ReqTypes, store, client
<1>3. ASSUME NEW on \in BOOLEAN, SetKillSwitch(on)
      PROVE  TInv'
    BY <1>0, <1>3 DEF SetKillSwitch, TInv, StoreTypes, RestTypes, ReqTypes, store, client
<1>4. ASSUME NEW s \in Sessions, NEW uid \in Names \cup {Blank}, EventArrives(s, uid)
      PROVE  TInv'
  <2>1. sess' \in [Sessions -> Session]
      BY <1>0, <1>4, RecordTypes, PutTypes DEF EventArrives, StoreTypes
  <2>2. StoreTypes'
      BY <1>0, <1>4, <2>1 DEF EventArrives, Insert, StoreTypes, Identity
  <2>3. QED
      BY <1>0, <1>4, <2>2 DEF EventArrives, TInv, RestTypes, ReqTypes, client
<1>5. CASE ResetSessions
  <2>1. sess' \in [Sessions -> Session]
      BY <1>0, <1>5, RecordTypes DEF ResetSessions, StoreTypes
  <2>2. QED
      BY <1>0, <1>5, <2>1 DEF ResetSessions, TInv, StoreTypes, RestTypes, ReqTypes, client
<1>6. CASE Restart
  <2>1. ASSUME NEW old \in Session, NEW uid \in Identity
        PROVE  [old EXCEPT !.uid = uid] \in Session
      BY DEF Session
  <2>2. StoreTypes'
      BY <1>0, <1>6, <2>1 DEF Restart, StoreTypes
  <2>3. RestTypes'
    <3>1. agents' \in [Entries -> AgentStatus] /\ killSwitch' \in BOOLEAN
        BY <1>6 DEF Restart, AgentStatus
    <3>2. restarts' \in 0..MaxRestarts
        BY <1>0, <1>6, RestartAssumption DEF Restart, RestTypes
    <3>3. QED
        BY <1>0, <1>6, <3>1, <3>2 DEF Restart, RestTypes, client
  <2>4. ReqTypes'
      BY <1>6 DEF Restart, ReqTypes, GoodReq
  <2>5. QED
      BY <2>2, <2>3, <2>4 DEF TInv
<1>7. Instances \X Fleets \subseteq Entries
    BY DEF Entries
<1>8. QED
    BY <1>1, <1>2, <1>3, <1>4, <1>5, <1>6, <1>7 DEF Single

LEMMA TInvInit == Init => TInv
<1>1. Absent \in Session
    BY UnknownAssumption DEF Absent, Session, Status, Reason, Identity
<1>2. Init => StoreTypes /\ ReqTypes
    BY <1>1 DEF Init, StoreTypes, ReqTypes, GoodReq, Identity
<1>3. Init => RestTypes
  <2>1. 0 \in 0..MaxRestarts
      BY RestartAssumption
  <2>2. QED
      BY <2>1 DEF Init, RestTypes, AgentStatus
<1>4. QED
    BY <1>2, <1>3 DEF TInv

LEMMA TInvNext == TInv /\ [Next]_vars => TInv'
<1> SUFFICES ASSUME TInv, [Next]_vars
             PROVE  TInv'
    OBVIOUS
<1>1. ASSUME NEW t \in Callers, Arrival(t) \/ CallerStep(t)
      PROVE  TInv'
    BY <1>1, ArrivalTypes, StartTypes, EndTypes, PromptTypes, TargetTypes, ActionTypes
    DEF CallerStep, AdminStep, Threads
<1>2. ASSUME NEW s \in Sessions, BeatArrives(s) \/ BeatStep(s) \/ Exit(s)
      PROVE  TInv'
    BY <1>2, BeatTypes
<1>3. CASE UNCHANGED vars
    BY <1>3 DEF vars, store, client, TInv, StoreTypes, RestTypes, ReqTypes
<1>4. QED
    BY <1>1, <1>2, <1>3, SingleTypes DEF Next, Arrival, Callers

LEMMA TInvHolds == Spec => []TInv
BY TInvInit, TInvNext, PTL DEF Spec

\* The variables of the handlers' model have their types: what a revocation bars
\* is a user or a session id, whichever way the handler resolved its target.
THEOREM TypeCorrect == Spec => []TypeOK
BY TInvHolds, TInvTypes, PTL

-----------------------------------------------------------------------------
(***************************************************************************)
(* Bars stand.  A start that was barred waits for the question that turns  *)
(* it away: about its user, or about its session, and what that question   *)
(* is answered from is still barred.  A prompt likewise, about its user.   *)
(***************************************************************************)
StartStands(t) ==
    req[t].op = "start" /\ req[t].bar =>
        \/ /\ req[t].at = "user"
           /\ req[t].n \in revokedUsers \/ IsRevoked(sess[req[t].s])
        \/ req[t].at = "session" /\ IsRevoked(sess[req[t].s])

PromptStands(t) ==
    req[t].op = "prompt" /\ req[t].bar =>
        req[t].at \in {"store", "user"} /\ req[t].n \in revokedUsers

Stands == \A t \in Threads : StartStands(t) /\ PromptStands(t)

BarInv == TInv /\ Stands

\* Nobody is restored by the step.
NoneRestored ==
    /\ revokedUsers \subseteq revokedUsers'
    /\ \A s \in Sessions : IsRevoked(sess[s]) => IsRevoked(sess'[s])

LEMMA StandsOn ==
    ASSUME BarInv, NoneRestored, NEW t \in Threads, TInv',
           \A u \in Threads \ {t} : req'[u] = req[u],
           StartStands(t)' /\ PromptStands(t)'
    PROVE  BarInv'
<1>1. ASSUME NEW u \in Threads \ {t}
      PROVE  StartStands(u)' /\ PromptStands(u)'
  <2>1. req'[u] = req[u] /\ StartStands(u) /\ PromptStands(u)
      BY DEF BarInv, Stands
  <2>2. req[u].op = "start" => req[u].s \in Sessions
      BY ReqFields DEF BarInv, TInv, StartReq
  <2>3. QED
      BY <2>1, <2>2 DEF StartStands, PromptStands, NoneRestored
<1>2. QED
    BY <1>1 DEF BarInv, Stands

\* A revoked session stays revoked whatever is reported of it.
LEMMA RevokedRecord ==
    ASSUME NEW old \in Session, IsRevoked(old)
    PROVE  /\ StartRefused(old) /\ EndRefused(old)
           /\ IsRevoked(AfterHeartbeat(old)) /\ IsRevoked(AfterRevoke(old))
           /\ \A uid \in Names \cup {Blank} : IsRevoked(AfterActivity(old, uid, Blank))
           /\ old.status # "active" /\ Known(old)
<1>1. /\ Known(old) /\ ~TimedOut(old) /\ old.status # "active"
      /\ AfterHeartbeat(old) = old /\ Woken(old) = old
      /\ \A uid \in Names \cup {Blank} : Witness(old, uid, Blank) = old
    BY DEF Known, IsRevoked, TimedOut, AfterHeartbeat, Woken, Witness
<1>2. ASSUME NEW uid \in Names \cup {Blank}
      PROVE  IsRevoked(AfterActivity(old, uid, Blank))
    BY <1>1 DEF AfterActivity, IsRevoked, Session
<1>3. QED
    BY <1>1, <1>2 DEF StartRefused, EndRefused, IsRevoked, AfterRevoke, Session

LEMMA NoneRestoredByClients ==
    ASSUME TInv, NEW t \in Threads,
           StartStep(t) \/ EndStep(t) \/ PromptStep(t) \/ BeatStep(t)
    PROVE  NoneRestored
<1>1. revokedUsers' = revokedUsers
    BY DEF StartStep, StartUser, StartSession, StartAgent, StartStore, StartEnsure, EndStep,
       EndStore, EndAgent, PromptStep, PromptStore, PromptUser, PromptAnswer, BeatStep, BeatGet,
       BeatUser, BeatStore, BeatInstance, BeatEnsure, store
<1>2. ASSUME NEW s \in Sessions, IsRevoked(sess[s])
      PROVE  IsRevoked(sess'[s])
  <2>1. sess[s] \in Session /\ sess \in [Sessions -> Session]
      BY DEF TInv, StoreTypes
  <2>2. CASE sess' = sess
      BY <1>2, <2>2
  <2>3. CASE StartStore(t) \/ EndStore(t)
      BY <1>2, <2>1, <2>3, RevokedRecord DEF StartStore, EndStore, Put, store
  <2>4. CASE PromptStore(t) \/ BeatStore(t)
      BY <1>2, <2>1, <2>4, RevokedRecord DEF PromptStore, BeatStore, Put
  <2>5. QED
      BY <2>2, <2>3, <2>4
      DEF StartStep, StartUser, StartSession, StartAgent, StartEnsure, EndStep, EndAgent,
          PromptStep, PromptUser, PromptAnswer, BeatStep, BeatGet, BeatUser, BeatInstance,
          BeatEnsure, store
<1>3. QED
    BY <1>1, <1>2 DEF NoneRestored

LEMMA NoneRestoredByAdministrators ==
    ASSUME TInv, NEW t \in Threads, AdminStep(t), ~RestoreUserStep(t), ~RestoreSessionStep(t)
    PROVE  NoneRestored
<1>0. StoreTypes
    BY DEF TInv
<1>1. CASE UNCHANGED store
    BY <1>1 DEF NoneRestored, store
<1>2. CASE StopStore(t) \/ RevokeSessionStep(t)
    BY <1>0, <1>2, RevokedRecord
    DEF StopStore, RevokeSessionStep, NoneRestored, Put, StoreTypes
<1>3. CASE RevokeUserStep(t)
    BY <1>0, <1>3, RevokedRecord DEF RevokeUserStep, RevokeUser, NoneRestored, StoreTypes
<1>4. QED
    BY <1>1, <1>2, <1>3
    DEF AdminStep, TargetList, TargetFind, StopAgent, RevokeAgentStep, RestoreAgentStep

LEMMA NoneRestoredBySingles == TInv /\ Single => NoneRestored
<1> SUFFICES ASSUME TInv, Single
             PROVE  NoneRestored
    OBVIOUS
<1>0. StoreTypes
    BY DEF TInv
<1>1. CASE UNCHANGED store
    BY <1>1 DEF NoneRestored, store
<1>2. ASSUME NEW s \in Sessions, NEW uid \in Names \cup {Blank}, EventArrives(s, uid)
      PROVE  NoneRestored
    BY <1>0, <1>2, RevokedRecord DEF EventArrives, NoneRestored, Put, StoreTypes
<1>3. CASE ResetSessions
    BY <1>0, <1>3, RevokedRecord DEF ResetSessions, NoneRestored, StoreTypes
<1>4. QED
    BY <1>1, <1>2, <1>3 DEF Single, EnrollAgent, RevokeAgent, RevokeApp, SetKillSwitch

LEMMA ClientsStand ==
    ASSUME BarInv, NEW t \in Threads,
           StartStep(t) \/ EndStep(t) \/ PromptStep(t)
    PROVE  BarInv'
<1>0. /\ NoneRestored /\ TInv' /\ req \in [Threads -> GoodReq]
      /\ StartStands(t) /\ PromptStands(t)
    BY NoneRestoredByClients, StartTypes, EndTypes, PromptTypes DEF BarInv, Stands, TInv, ReqTypes
<1>1. \A u \in Threads \ {t} : req'[u] = req[u]
    BY <1>0 DEF StartStep, StartUser, StartSession, StartAgent, StartStore, StartEnsure, EndStep,
       EndStore, EndAgent, PromptStep, PromptStore, PromptUser, PromptAnswer, Done, Goto
<1>2. req[t] # NoReq
    BY DEF StartStep, StartUser, StartSession, StartAgent, StartStore, StartEnsure, EndStep,
       EndStore, EndAgent, PromptStep, PromptStore, PromptUser, PromptAnswer, At, NoReq
<1>3. CASE Done(t)
  <2>1. req'[t].op = "none"
      BY <1>0, <1>3 DEF Done, NoReq
  <2>2. QED
      BY <1>0, <1>1, <2>1, StandsOn DEF StartStands, PromptStands
<1>4. CASE StartStep(t) /\ ~Done(t)
  <2>0. req[t] \in StartReq
      BY <1>0, <1>4, ReqFields DEF BarInv, TInv, StartStep, StartUser, StartSession, StartAgent,
         StartStore, StartEnsure, At
  <2>1. \E place : Goto(t, place)
      BY <1>4 DEF StartStep, StartUser, StartSession, StartAgent, StartStore, StartEnsure
  <2>2. /\ req'[t].op = "start" /\ req'[t].bar = req[t].bar
        /\ req'[t].s = req[t].s /\ req'[t].n = req[t].n
      BY <1>0, <2>0, <2>1 DEF Goto, StartReq
  <2>3. req[t].bar => req'[t].at = "session" /\ IsRevoked(sess'[req[t].s])
    <3>1. CASE StartUser(t)
        BY <1>0, <1>4, <2>0, <3>1 DEF StartUser, At, Goto, StartStands, store, StartReq
    <3>2. CASE ~StartUser(t)
        BY <1>0, <1>4, <2>0, <3>2
        DEF StartStep, StartSession, StartAgent, StartStore, StartEnsure, At, StartStands
    <3>3. QED
        BY <3>1, <3>2
  <2>4. QED
      BY <1>0, <1>1, <2>2, <2>3, StandsOn DEF StartStands, PromptStands
<1>5. CASE EndStep(t) /\ ~Done(t)
  <2>1. req[t].op = "end" /\ req[t] \in ClientReq /\ Goto(t, "agent")
      BY <1>0, <1>5, ReqFields DEF BarInv, TInv, EndStep, EndStore, EndAgent, At
  <2>2. req'[t].op = "end"
      BY <1>0, <2>1 DEF Goto, ClientReq
  <2>3. QED
      BY <1>0, <1>1, <2>2, StandsOn DEF StartStands, PromptStands
<1>6. CASE PromptStep(t) /\ ~Done(t)
  <2>0. req[t].op = "prompt" /\ req[t] \in ClientReq
      BY <1>0, <1>6, ReqFields DEF BarInv, TInv, PromptStep, PromptStore, PromptUser,
         PromptAnswer, At
  <2>1. CASE PromptStore(t)
    <3>1. req'[t] = [req[t] EXCEPT !.at = "user", !.n = sess[req[t].s].uid,
                        !.bar = req[t].bar /\ sess[req[t].s].uid = req[t].n]
        BY <1>0, <1>6, <2>1 DEF PromptStore
    <3>2. /\ req'[t].op = "prompt" /\ req'[t].at = "user"
          /\ req'[t].bar => req[t].bar /\ req'[t].n = req[t].n
        BY <2>0, <3>1 DEF ClientReq
    <3>3. QED
        BY <1>0, <1>1, <2>0, <3>2, StandsOn DEF StartStands, PromptStands, NoneRestored
  <2>2. CASE PromptUser(t)
    <3>1. Goto(t, "accepted") /\ req[t].n \notin revokedUsers
        BY <1>6, <2>2 DEF PromptUser
    <3>2. ~req[t].bar /\ req'[t].op = "prompt" /\ req'[t].bar = req[t].bar
        BY <1>0, <2>0, <3>1 DEF PromptStands, Goto, ClientReq
    <3>3. QED
        BY <1>0, <1>1, <3>2, StandsOn DEF StartStands, PromptStands
  <2>3. QED
      BY <1>6, <2>1, <2>2 DEF PromptStep, PromptAnswer
<1>7. QED
    BY <1>3, <1>4, <1>5, <1>6

LEMMA BeatsStand ==
    ASSUME BarInv, NEW s \in Sessions, BeatArrives(s) \/ BeatStep(s) \/ Exit(s)
    PROVE  BarInv'
<1>0. s \in Threads /\ TInv /\ TInv' /\ req \in [Threads -> GoodReq]
    BY BeatTypes DEF BarInv, TInv, ReqTypes, Threads
<1>1. NoneRestored
    BY <1>0, NoneRestoredByClients DEF BeatArrives, Exit, store, NoneRestored
<1>2. \A u \in Threads \ {s} : req'[u] = req[u]
    BY <1>0 DEF BeatArrives, BeatStep, BeatGet, BeatUser, BeatStore, BeatInstance, BeatEnsure, Exit,
       Terminate, Done, Goto
<1>3. CASE UNCHANGED req
  <2>1. StartStands(s) /\ PromptStands(s)
      BY <1>0 DEF BarInv, Stands
  <2>2. req[s].op = "start" => req[s].s \in Sessions
      BY <1>0, ReqFields DEF TInv, StartReq
  <2>3. StartStands(s)' /\ PromptStands(s)'
      BY <1>1, <1>3, <2>1, <2>2 DEF StartStands, PromptStands, NoneRestored
  <2>4. QED
      BY <1>0, <1>1, <1>2, <2>3, StandsOn
<1>4. CASE BeatArrives(s) /\ ~UNCHANGED req
  <2>1. req'[s] = NewReq("beat", "get", s, NoUser, NoInstance)
      BY <1>0, <1>4 DEF BeatArrives
  <2>2. req'[s].op = "beat"
      BY <2>1 DEF NewReq
  <2>3. QED
      BY <1>0, <1>1, <1>2, <2>2, StandsOn DEF StartStands, PromptStands
<1>5. CASE BeatStep(s)
  <2>1. req[s].op = "beat" /\ req[s] \in ClientReq
      BY <1>0, <1>5, ReqFields DEF TInv, BeatStep, BeatGet, BeatUser, BeatStore, BeatInstance,
         BeatEnsure, At
  <2>2. req'[s].op \in {"beat", "none"}
    <3>1. CASE Done(s)
        BY <1>0, <3>1 DEF Done, NoReq
    <3>2. CASE \E place : Goto(s, place)
        BY <1>0, <2>1, <3>2 DEF Goto, ClientReq
    <3>3. CASE BeatGet(s) /\ ~Done(s)
      <4>1. req'[s] = [req[s] EXCEPT !.n = sess[s].uid, !.closed = (sess[s].status = "closed"),
                          !.at = IF Known(sess[s]) THEN "user" ELSE "store"]
          BY <1>0, <3>3 DEF BeatGet, Terminate
      <4>2. QED
          BY <2>1, <4>1 DEF ClientReq
    <3>4. QED
        BY <1>5, <3>1, <3>2, <3>3
        DEF BeatStep, BeatUser, BeatStore, BeatInstance, BeatEnsure, Terminate
  <2>3. QED
      BY <1>0, <1>1, <1>2, <2>2, StandsOn DEF StartStands, PromptStands
<1>6. QED
    BY <1>3, <1>4, <1>5 DEF Exit

\* What an action leaves of its request is neither a start nor a prompt.
LEMMA AdminNext ==
    ASSUME NEW r \in AdminReq
    PROVE  /\ AgentNext(r).op \notin {"start", "prompt"}
           /\ SessionNext(r).op \notin {"start", "prompt"}
BY DEF AgentNext, SessionNext, AdminReq, Actions, NoReq

LEMMA AdminStands ==
    ASSUME BarInv, NEW t \in Threads, AdminStep(t),
           ~RestoreUserStep(t), ~RestoreSessionStep(t)
    PROVE  BarInv'
<1>0. /\ TInv /\ TInv' /\ req \in [Threads -> GoodReq] /\ req[t] \in AdminReq
      /\ StoreTypes /\ req[t].op \in Actions
    BY TargetTypes, ActionTypes, ReqFields
    DEF BarInv, TInv, ReqTypes, AdminStep, TargetList, TargetFind, StopStore, StopAgent,
        RevokeUserStep, RevokeSessionStep, RevokeAgentStep, RestoreAgentStep, At, Actions
<1>1. \A u \in Threads \ {t} : req'[u] = req[u]
    BY <1>0 DEF AdminStep, TargetList, TargetFind, StopStore, StopAgent, RevokeUserStep,
       RevokeSessionStep, RevokeAgentStep, RestoreAgentStep, Done, Goto
<1>2. req'[t].op \notin {"start", "prompt"}
  <2>1. CASE Done(t)
      BY <1>0, <2>1 DEF Done, NoReq
  <2>2. CASE \E place : Goto(t, place)
      BY <1>0, <2>2 DEF Goto, AdminReq, Actions
  <2>3. CASE TargetList(t)
    <3>1. \E k, place : req' = [req EXCEPT ![t] = [req[t] EXCEPT !.k = k, !.at = place]]
        BY <2>3 DEF TargetList
    <3>2. QED
        BY <1>0, <3>1 DEF AdminReq, Actions
  <2>4. CASE TargetFind(t) /\ ~\E place : Goto(t, place)
    <3>1. CASE req' = [req EXCEPT ![t] = [req[t] EXCEPT !.k = req[t].k[1], !.at = "agent"]]
        BY <1>0, <3>1 DEF AdminReq, Actions
    <3>2. ASSUME NEW s \in Sessions,
                 req' = [req EXCEPT ![t] = [req[t] EXCEPT
                     !.s = s, !.n = UserOf(s, NoUser),
                     !.k = IF req[t].op = "stop" THEN link[s] ELSE req[t].k,
                     !.at = IF req[t].op = "stop" THEN "store" ELSE "user"]]
          PROVE  req'[t].op \notin {"start", "prompt"}
        BY <1>0, <3>2 DEF AdminReq, Actions
    <3>3. QED
        BY <2>4, <3>1, <3>2 DEF TargetFind
  <2>5. CASE RevokeUserStep(t) \/ RevokeSessionStep(t)
      BY <1>0, <2>5, AdminNext DEF RevokeUserStep, RevokeSessionStep
  <2>6. QED
      BY <2>1, <2>2, <2>3, <2>4, <2>5
      DEF AdminStep, StopStore, StopAgent, RevokeAgentStep, RestoreAgentStep
<1>3. NoneRestored
    BY <1>0, NoneRestoredByAdministrators
<1>4. QED
    BY <1>0, <1>1, <1>2, <1>3, StandsOn DEF StartStands, PromptStands

\* A restore lifts the bar of every start and prompt that it could let through.
LEMMA RestoresStand ==
    ASSUME BarInv, NEW t \in Threads, RestoreUserStep(t) \/ RestoreSessionStep(t)
    PROVE  BarInv'
<1>0. /\ TInv /\ TInv' /\ req \in [Threads -> GoodReq] /\ req[t] \in AdminReq
      /\ StoreTypes
    BY ActionTypes, ReqFields
    DEF BarInv, TInv, ReqTypes, RestoreUserStep, RestoreSessionStep, At, Actions
<1>1. ASSUME NEW new \in [Threads -> GoodReq], NEW S \in SUBSET Sessions, NEW n,
             \A u \in Threads \ {t} : new[u] = req[u],
             new[t].op \notin {"start", "prompt"},
             Lift(new, S, n),
             revokedUsers \ {n} \subseteq revokedUsers',
             \A s \in Sessions \ S : IsRevoked(sess[s]) => IsRevoked(sess'[s])
      PROVE  BarInv'
  <2>1. ASSUME NEW u \in Threads
        PROVE  StartStands(u)' /\ PromptStands(u)'
    <3>0. new[u] \in GoodReq
        BY <1>1
    <3>1. CASE new[u].op \in {"start", "prompt"} /\ (new[u].n = n \/ new[u].s \in S)
      <4>1. new[u] \in StartReq \cup ClientReq
          BY <3>0, <3>1 DEF GoodReq, AdminReq, Actions, NoReq
      <4>2. req'[u] = [new[u] EXCEPT !.bar = FALSE]
          BY <1>1, <3>1 DEF Lift
      <4>3. ~req'[u].bar
          BY <4>1, <4>2 DEF StartReq, ClientReq
      <4>4. QED
          BY <4>3 DEF StartStands, PromptStands
    <3>2. CASE ~(new[u].op \in {"start", "prompt"} /\ (new[u].n = n \/ new[u].s \in S))
      <4>1. req'[u] = new[u]
          BY <1>1, <3>2 DEF Lift
      <4>2. CASE req'[u].op \notin {"start", "prompt"}
          BY <4>2 DEF StartStands, PromptStands
      <4>3. CASE req'[u].op \in {"start", "prompt"}
        <5>1. req'[u] = req[u] /\ req[u].n # n /\ req[u].s \notin S
            BY <1>1, <3>2, <4>1, <4>3
        <5>2. StartStands(u) /\ PromptStands(u)
            BY DEF BarInv, Stands
        <5>3. req[u].op = "start" => req[u].s \in Sessions
            BY <1>0, ReqFields DEF TInv, StartReq
        <5>4. QED
            BY <1>1, <5>1, <5>2, <5>3 DEF StartStands, PromptStands
      <4>4. QED
          BY <4>2, <4>3
    <3>3. QED
        BY <3>1, <3>2
  <2>2. QED
      BY <1>0, <2>1 DEF BarInv, Stands
<1>2. /\ [req EXCEPT ![t] = AgentNext(req[t])] \in [Threads -> GoodReq]
      /\ [req EXCEPT ![t] = SessionNext(req[t])] \in [Threads -> GoodReq]
    BY <1>0, NextStepTypes
<1>3. CASE RestoreUserStep(t)
  <2> DEFINE new == [req EXCEPT ![t] = SessionNext(req[t])]
             S == {s \in Sessions : BelongsTo(sess[s], req[t].n)}
  <2>1. new \in [Threads -> GoodReq] /\ \A u \in Threads \ {t} : new[u] = req[u]
      BY <1>0, <1>2
  <2>2. new[t].op \notin {"start", "prompt"}
      BY <1>0, AdminNext
  <2>3. Lift(new, S, req[t].n)
      BY <1>3 DEF RestoreUserStep
  <2>4. /\ revokedUsers \ {req[t].n} \subseteq revokedUsers'
        /\ \A s \in Sessions \ S : IsRevoked(sess[s]) => IsRevoked(sess'[s])
      BY <1>0, <1>3 DEF RestoreUserStep, RestoreUser, StoreTypes
  <2> HIDE DEF new, S
  <2>5. S \in SUBSET Sessions
      BY DEF S
  <2>6. QED
      BY <1>1, <2>1, <2>2, <2>3, <2>4, <2>5
<1>4. CASE RestoreSessionStep(t)
  <2> DEFINE new == [req EXCEPT ![t] = AgentNext(req[t])]
             S == {req[t].s} \cap Sessions
  <2>1. new \in [Threads -> GoodReq] /\ \A u \in Threads \ {t} : new[u] = req[u]
      BY <1>0, <1>2
  <2>2. new[t].op \notin {"start", "prompt"}
      BY <1>0, AdminNext
  <2>3. Lift(new, S, NoUser)
    <3>1. Lift(new, {req[t].s}, NoUser)
        BY <1>4 DEF RestoreSessionStep
    <3>2. ASSUME NEW u \in Threads, new[u].op \in {"start", "prompt"}
          PROVE  new[u].s \in Sessions
      <4>1. new[u] \in StartReq \cup ClientReq
          BY <2>1, <3>2 DEF GoodReq, AdminReq, Actions, NoReq
      <4>2. QED
          BY <4>1 DEF StartReq, ClientReq
    <3>3. QED
        BY <3>1, <3>2 DEF Lift
  <2>4. /\ revokedUsers \ {NoUser} \subseteq revokedUsers'
        /\ \A s \in Sessions \ S : IsRevoked(sess[s]) => IsRevoked(sess'[s])
      BY <1>0, <1>4 DEF RestoreSessionStep, Put, StoreTypes
  <2> HIDE DEF new, S
  <2>5. S \in SUBSET Sessions
      BY DEF S
  <2>6. QED
      BY <1>1, <2>1, <2>2, <2>3, <2>4, <2>5
<1>5. QED
    BY <1>3, <1>4

LEMMA ArrivalsStand ==
    ASSUME BarInv, NEW t \in Threads, Arrival(t)
    PROVE  BarInv'
<1>0. TInv /\ TInv' /\ req \in [Threads -> GoodReq] /\ StoreTypes
    BY ArrivalTypes DEF BarInv, TInv, ReqTypes
<1>1. UNCHANGED store
    BY DEF Arrival, ClientArrival, AdminArrival, StartArrives, EndArrives, PromptArrives,
       TargetSession, TargetAgent, TargetName
<1>2. NoneRestored
    BY <1>1 DEF NoneRestored, store
<1>3. ASSUME NEW new, req' = [req EXCEPT ![t] = new],
             new.op = "start" /\ new.bar =>
                 /\ new.at = "user"
                 /\ new.n \in revokedUsers' \/ IsRevoked(sess'[new.s]),
             new.op = "prompt" /\ new.bar => new.at = "store" /\ new.n \in revokedUsers'
      PROVE  BarInv'
  <2>1. req'[t] = new /\ \A u \in Threads \ {t} : req'[u] = req[u]
      BY <1>0, <1>3
  <2>2. StartStands(t)' /\ PromptStands(t)'
      BY <1>3, <2>1 DEF StartStands, PromptStands
  <2>3. QED
      BY <1>0, <1>2, <2>1, <2>2, StandsOn
<1>4. ASSUME NEW s \in Sessions, NEW n \in Names, NEW k \in Instances \cup {NoInstance},
             StartArrives(t, s, n, k)
      PROVE  BarInv'
  <2> DEFINE new == [NewReq("start", "user", s, n, k) EXCEPT !.bar = Barred(s, n)]
  <2>1. new.op = "start" /\ new.at = "user" /\ new.n = n /\ new.s = s /\ new.bar = Barred(s, n)
      BY DEF NewReq
  <2>2. req' = [req EXCEPT ![t] = new]
      BY <1>4 DEF StartArrives
  <2> HIDE DEF new
  <2>3. QED
      BY <1>1, <1>3, <2>1, <2>2 DEF Barred, store
<1>5. ASSUME NEW s \in Sessions, PromptArrives(t, s)
      PROVE  BarInv'
  <2> DEFINE new == [NewReq("prompt", "store", s, sess[s].uid, NoInstance) EXCEPT
                        !.bar = sess[s].uid \in revokedUsers]
  <2>1. /\ new.op = "prompt" /\ new.at = "store" /\ new.n = sess[s].uid
        /\ new.bar = (sess[s].uid \in revokedUsers)
      BY DEF NewReq
  <2>2. req' = [req EXCEPT ![t] = new]
      BY <1>5 DEF PromptArrives
  <2> HIDE DEF new
  <2>3. QED
      BY <1>1, <1>3, <2>1, <2>2 DEF store
<1>6. ASSUME NEW op \in {"end"} \cup Actions, NEW place, NEW s, NEW n, NEW k,
             req' = [req EXCEPT ![t] = NewReq(op, place, s, n, k)]
      PROVE  BarInv'
  <2>1. NewReq(op, place, s, n, k).op \notin {"start", "prompt"}
      BY DEF NewReq, Actions
  <2>2. QED
      BY <1>3, <1>6, <2>1
<1>7. ASSUME NEW s \in Sessions, EndArrives(t, s)
      PROVE  BarInv'
    BY <1>6, <1>7 DEF EndArrives
<1>8. ASSUME NEW op \in Actions, NEW s \in Sessions, TargetSession(t, op, s)
      PROVE  BarInv'
  <2>1. CASE req' = [req EXCEPT ![t] = NewReq(op, "list", s, UserOf(s, s), NoInstance)]
      BY <1>6, <2>1
  <2>2. CASE req' = [req EXCEPT ![t] = NewReq(op, "user", NoSession, s, NoInstance)]
      BY <1>6, <2>2
  <2>3. QED
      BY <1>8, <2>1, <2>2 DEF TargetSession
<1>9. ASSUME NEW op \in Actions, NEW e \in Entries, TargetAgent(t, op, e)
      PROVE  BarInv'
    BY <1>6, <1>9 DEF TargetAgent
<1>10. ASSUME NEW op \in Actions, NEW n \in Names, TargetName(t, op, n)
       PROVE  BarInv'
  <2>1. ASSUME NEW s \in Sessions,
               req' = [req EXCEPT ![t] =
                         NewReq(op, IF op = "stop" THEN "store" ELSE "user", s, n,
                                IF op = "stop" THEN link[s] ELSE NoInstance)]
        PROVE  BarInv'
      BY <1>6, <2>1
  <2>2. CASE req' = [req EXCEPT ![t] = NewReq(op, "user", NoSession, n, NoInstance)]
      BY <1>6, <2>2
  <2>3. QED
      BY <1>10, <2>1, <2>2 DEF TargetName
<1>11. QED
    BY <1>4, <1>5, <1>7, <1>8, <1>9, <1>10 DEF Arrival, ClientArrival, AdminArrival

LEMMA SinglesStand ==
    ASSUME BarInv, Single
    PROVE  BarInv'
<1>0. TInv /\ TInv' /\ StoreTypes /\ UNCHANGED req
    BY SingleTypes DEF BarInv, TInv, Single, EnrollAgent, RevokeAgent, RevokeApp, SetKillSwitch, EventArrives,
       ResetSessions
<1>1. NoneRestored
    BY <1>0, NoneRestoredBySingles
<1>2. ASSUME NEW u \in Threads
      PROVE  StartStands(u)' /\ PromptStands(u)'
  <2>1. req[u].op = "start" => req[u].s \in Sessions
      BY <1>0, ReqFields DEF TInv, StartReq
  <2>2. QED
      BY <1>0, <1>1, <2>1 DEF BarInv, Stands, StartStands, PromptStands, NoneRestored
<1>3. QED
    BY <1>0, <1>2 DEF BarInv, Stands

LEMMA BarInvInit == Init => BarInv
BY TInvInit DEF Init, BarInv, Stands, StartStands, PromptStands, NoReq

LEMMA BarInvNext == BarInv /\ [Next]_vars => BarInv'
<1> SUFFICES ASSUME BarInv, [Next]_vars
             PROVE  BarInv'
    OBVIOUS
<1>1. ASSUME NEW t \in Callers, Arrival(t) \/ CallerStep(t)
      PROVE  BarInv'
  <2>1. t \in Threads
      BY DEF Threads
  <2>2. CASE AdminStep(t)
      BY <2>1, <2>2, AdminStands, RestoresStand
  <2>3. CASE StartStep(t) \/ EndStep(t) \/ PromptStep(t)
      BY <2>1, <2>3, ClientsStand
  <2>4. QED
      BY <1>1, <2>1, <2>2, <2>3, ArrivalsStand DEF CallerStep
<1>2. ASSUME NEW s \in Sessions, BeatArrives(s) \/ BeatStep(s) \/ Exit(s)
      PROVE  BarInv'
    BY <1>2, BeatsStand
<1>3. CASE Restart
  <2>1. TInv' /\ \A u \in Threads : req'[u] = NoReq
      BY <1>3, SingleTypes DEF BarInv, Restart
  <2>2. QED
      BY <2>1 DEF BarInv, Stands, StartStands, PromptStands, NoReq
<1>4. CASE UNCHANGED vars
  <2>1. TInv'
      BY <1>4, TInvNext DEF BarInv
  <2>2. QED
      BY <1>4, <2>1 DEF vars, store, BarInv, Stands, StartStands, PromptStands
<1>5. QED
    BY <1>1, <1>2, <1>3, <1>4, SinglesStand DEF Next, Arrival, Callers

\* A start or a prompt that an administrator had barred when it came, and has not
\* freed since, is not accepted, whatever other requests do between its calls.
THEOREM BarredIsTurnedAway == Spec => []NothingPastBar
<1>1. BarInv => NothingPastBar
    BY DEF BarInv, Stands, StartStands, PromptStands, NothingPastBar, At, Threads
<1>2. QED
    BY <1>1, BarInvInit, BarInvNext, PTL DEF Spec

-----------------------------------------------------------------------------
\* What frees an agent.
AgentFreed ==
    \A e \in Entries :
        agents[e] = "revoked" /\ agents'[e] # "revoked" =>
            \/ \E t \in Callers :
                   req'[t] # req[t] /\ At(t, "restore", "agent") /\ req[t].k = e
            \/ e \in Instances \X Fleets /\ EnrollAgent(e)
            \/ restarts' # restarts

LEMMA FreedOnlySo == TInv /\ [Next]_vars => AgentFreed
<1> SUFFICES ASSUME TInv, [Next]_vars
             PROVE  AgentFreed
    OBVIOUS
<1>0. /\ agents \in [Entries -> AgentStatus] /\ restarts \in 0..MaxRestarts
      /\ req \in [Threads -> GoodReq]
    BY DEF TInv, RestTypes, ReqTypes
<1>1. ASSUME NEW k, EnsureSessionAgent(k) \/ EndSessionAgent(k)
             \/ agents' = [agents EXCEPT ![k] = "revoked"]
      PROVE  AgentFreed
    BY <1>0, <1>1 DEF EnsureSessionAgent, EndSessionAgent, AgentFreed
<1>2. CASE UNCHANGED agents
    BY <1>2 DEF AgentFreed
<1>3. ASSUME NEW t \in Callers, Arrival(t) \/ CallerStep(t)
      PROVE  AgentFreed
  <2>1. CASE RestoreAgentStep(t)
    <3>1. t \in Threads /\ req'[t] = NoReq /\ req[t].op = "restore"
        BY <1>0, <2>1 DEF RestoreAgentStep, Done, At, Threads
    <3>2. req'[t] # req[t]
        BY <3>1 DEF NoReq
    <3>3. QED
        BY <1>0, <2>1, <3>2 DEF RestoreAgentStep, AgentFreed
  <2>2. CASE Arrival(t)
      BY <1>2, <2>2 DEF Arrival, ClientArrival, AdminArrival, StartArrives, EndArrives, PromptArrives, TargetSession, TargetAgent,
         TargetName
  <2>3. CASE StartStep(t)
      BY <1>1, <1>2, <2>3 DEF StartStep, StartUser, StartSession, StartAgent, StartStore, StartEnsure
  <2>4. CASE EndStep(t) \/ PromptStep(t)
      BY <1>1, <1>2, <2>4 DEF EndStep, EndStore, EndAgent, PromptStep, PromptStore, PromptUser,
         PromptAnswer
  <2>5. CASE AdminStep(t) /\ ~RestoreAgentStep(t)
      BY <1>1, <1>2, <2>5 DEF AdminStep, TargetList, TargetFind, StopStore, StopAgent,
         RevokeUserStep, RevokeSessionStep, RevokeAgentStep, RestoreUserStep, RestoreSessionStep
  <2>6. QED
      BY <1>3, <2>1, <2>2, <2>3, <2>4, <2>5 DEF CallerStep
<1>4. ASSUME NEW s \in Sessions, BeatArrives(s) \/ BeatStep(s) \/ Exit(s)
      PROVE  AgentFreed
    BY <1>1, <1>2, <1>4 DEF BeatArrives, BeatStep, BeatGet, BeatUser, BeatStore, BeatInstance,
       BeatEnsure, Exit
<1>5. CASE Single
  <2>1. CASE RevokeApp
      BY <1>0, <2>1 DEF RevokeApp, AgentFreed
  <2>2. ASSUME NEW e \in Instances \X Fleets, EnrollAgent(e)
        PROVE  AgentFreed
      BY <1>0, <2>2 DEF EnrollAgent, AgentFreed
  <2>3. QED
      BY <1>1, <1>2, <1>5, <2>1, <2>2
      DEF Single, RevokeAgent, SetKillSwitch, EventArrives, ResetSessions
<1>6. CASE Restart
  <2>1. restarts' # restarts
      BY <1>0, <1>6, RestartAssumption DEF Restart
  <2>2. QED
      BY <2>1 DEF AgentFreed
<1>7. CASE UNCHANGED vars
    BY <1>2, <1>7 DEF vars
<1>8. QED
    BY <1>3, <1>4, <1>5, <1>6, <1>7 DEF Next, Arrival, Callers

\* The bar on an agent goes with an administrator's restore of that agent, with a
\* new enrollment of its instance under its fleet, or with a restart; no start,
\* heartbeat or end of a session takes it away.
THEOREM AgentsStayRevoked == Spec => RevokedAgentStays
<1>1. Spec => [][AgentFreed]_vars
    BY TInvHolds, FreedOnlySo, PTL DEF Spec
<1>2. QED
    BY <1>1 DEF AgentFreed, RevokedAgentStays

-----------------------------------------------------------------------------
\* What frees a session or a user.
RevocationLifted ==
    /\ \A s \in Sessions : IsRevoked(sess[s]) /\ ~IsRevoked(sess'[s]) =>
           \E t \in Callers :
               /\ req'[t] # req[t]
               /\ \/ At(t, "restore", "session") /\ req[t].s = s
                  \/ At(t, "restore", "user") /\ BelongsTo(sess[s], req[t].n)
    /\ \A n \in revokedUsers \ revokedUsers' :
           \E t \in Callers :
               req'[t] # req[t] /\ At(t, "restore", "user") /\ req[t].n = n

\* A restore that is carried out goes on to its next step.
LEMMA RestoreMoves ==
    ASSUME TInv, NEW t \in Callers, RestoreUserStep(t) \/ RestoreSessionStep(t)
    PROVE  req'[t] # req[t]
<1>0. t \in Threads /\ req \in [Threads -> GoodReq] /\ req[t] \in AdminReq
      /\ req[t].op = "restore"
    BY ReqFields DEF Threads, TInv, ReqTypes, RestoreUserStep, RestoreSessionStep, At, Actions
<1>1. ASSUME NEW new, NEW S, NEW n, Lift([req EXCEPT ![t] = new], S, n),
             new.op \notin {"start", "prompt"}
      PROVE  req'[t] = new
    BY <1>0, <1>1 DEF Lift
<1>2. /\ AgentNext(req[t]).op \notin {"start", "prompt"}
      /\ SessionNext(req[t]).op \notin {"start", "prompt"}
    BY <1>0, AdminNext
<1>3. CASE RestoreUserStep(t)
  <2>1. req'[t] = SessionNext(req[t]) /\ req[t].at = "user"
      BY <1>1, <1>2, <1>3 DEF RestoreUserStep, At
  <2>2. SessionNext(req[t]).op = "none" \/ SessionNext(req[t]).at \in {"session", "agent"}
      BY <1>0 DEF SessionNext, AgentNext, AdminReq, NoReq
  <2>3. QED
      BY <1>0, <2>1, <2>2
<1>4. CASE RestoreSessionStep(t)
  <2>1. req'[t] = AgentNext(req[t]) /\ req[t].at = "session"
      BY <1>1, <1>2, <1>4 DEF RestoreSessionStep, At
  <2>2. AgentNext(req[t]).op = "none" \/ AgentNext(req[t]).at = "agent"
      BY <1>0 DEF AgentNext, AdminReq, NoReq
  <2>3. QED
      BY <1>0, <2>1, <2>2
<1>5. QED
    BY <1>3, <1>4

LEMMA LiftedByRestores == TInv /\ [Next]_vars => RevocationLifted
<1> SUFFICES ASSUME TInv, [Next]_vars
             PROVE  RevocationLifted
    OBVIOUS
<1>0. StoreTypes
    BY DEF TInv
<1>1. CASE NoneRestored
    BY <1>1 DEF NoneRestored, RevocationLifted
<1>2. CASE UNCHANGED store
    BY <1>1, <1>2 DEF NoneRestored, store
<1>3. ASSUME NEW t \in Callers, RestoreUserStep(t)
      PROVE  RevocationLifted
  <2>1. req'[t] # req[t] /\ At(t, "restore", "user")
      BY <1>3, RestoreMoves DEF RestoreUserStep
  <2>2. /\ revokedUsers \ {req[t].n} \subseteq revokedUsers'
        /\ \A s \in Sessions : ~BelongsTo(sess[s], req[t].n) => sess'[s] = sess[s]
      BY <1>3 DEF RestoreUserStep, RestoreUser
  <2>3. QED
      BY <2>1, <2>2 DEF RevocationLifted
<1>4. ASSUME NEW t \in Callers, RestoreSessionStep(t)
      PROVE  RevocationLifted
  <2>1. req'[t] # req[t] /\ At(t, "restore", "session")
      BY <1>4, RestoreMoves DEF RestoreSessionStep
  <2>2. /\ revokedUsers' = revokedUsers
        /\ \A s \in Sessions : s # req[t].s => sess'[s] = sess[s]
      BY <1>0, <1>4 DEF RestoreSessionStep, Put, StoreTypes
  <2>3. QED
      BY <2>1, <2>2 DEF RevocationLifted
<1>5. ASSUME NEW t \in Callers, Arrival(t) \/ CallerStep(t)
      PROVE  RevocationLifted
  <2>0. t \in Threads
      BY DEF Threads
  <2>1. CASE Arrival(t)
      BY <1>2, <2>1 DEF Arrival, ClientArrival, AdminArrival, StartArrives, EndArrives,
         PromptArrives, TargetSession, TargetAgent, TargetName
  <2>2. CASE StartStep(t) \/ EndStep(t) \/ PromptStep(t)
      BY <1>1, <2>0, <2>2, NoneRestoredByClients
  <2>3. CASE AdminStep(t) /\ ~RestoreUserStep(t) /\ ~RestoreSessionStep(t)
      BY <1>1, <2>0, <2>3, NoneRestoredByAdministrators
  <2>4. QED
      BY <1>3, <1>4, <1>5, <2>1, <2>2, <2>3 DEF CallerStep, AdminStep
<1>6. ASSUME NEW s \in Sessions, BeatArrives(s) \/ BeatStep(s) \/ Exit(s)
      PROVE  RevocationLifted
  <2>0. s \in Threads
      BY DEF Threads
  <2>1. CASE BeatStep(s)
      BY <1>1, <2>0, <2>1, NoneRestoredByClients
  <2>2. QED
      BY <1>2, <1>6, <2>1 DEF BeatArrives, Exit
<1>7. CASE Single
    BY <1>1, <1>7, NoneRestoredBySingles
<1>8. CASE Restart
  <2>1. revokedUsers' = revokedUsers
      BY <1>8 DEF Restart
  <2>2. \A s \in Sessions : IsRevoked(sess[s]) => IsRevoked(sess'[s])
      BY <1>0, <1>8 DEF Restart, IsRevoked, StoreTypes, Session
  <2>3. QED
      BY <1>1, <2>1, <2>2 DEF NoneRestored
<1>9. CASE UNCHANGED vars
    BY <1>2, <1>9 DEF vars
<1>10. QED
    BY <1>5, <1>6, <1>7, <1>8, <1>9 DEF Next, Arrival, Callers

\* A revocation of a user or a session goes with the administrator's restore that
\* is about it, at the moment it is carried out; no start or heartbeat that was
\* checked before, no prompt, event, sweep or restart takes it away.
THEOREM RevocationsStand == Spec => RevokedStaysRevoked
<1>1. Spec => [][RevocationLifted]_vars
    BY TInvHolds, LiftedByRestores, PTL DEF Spec
<1>2. QED
    BY <1>1 DEF RevocationLifted, RevokedStaysRevoked
=============================================================================
