---------------------------- MODULE ControlPlane ----------------------------
(***************************************************************************)
(* The session handlers of the control plane (internal/api/handlers.go)    *)
(* over the session store, the agent registry and the policy store.        *)
(*                                                                         *)
(* Go runs each request in a goroutine of its own, and a handler calls the *)
(* stores one after the other; each call takes that store's mutex and no   *)
(* lock spans two calls.  So a request is a record whose "at" names the    *)
(* call it makes next, and one action is one call together with the code   *)
(* that leads to the next one.  The first call is made as the request      *)
(* arrives.  A request that is answered leaves no record.                  *)
(*                                                                         *)
(* The sessions are the records of SessionRecord with neither counters nor *)
(* intents; their rows are up to date whenever no call is in progress      *)
(* (SessionStore!WriteThrough), so a restart keeps what is modelled of     *)
(* them, but for the user (Saved).  There is one application.  The agents  *)
(* of an instance are the entries of the registry that carry its id (the   *)
(* session id for a session that has none): the one that its sessions      *)
(* made, and those it enrolled as under a fleet, a pre-registered agent.   *)
(* E-mail addresses are "NA".                                              *)
(***************************************************************************)
EXTENDS SessionRecord, FiniteSets

CONSTANTS
    Sessions,      \* session ids
    Instances,     \* instance ids of clients that send one
    Fleets,        \* pre-registered agents that instances enroll under
    Clients,       \* requests in flight of hooks, launchers and watchers, and
    Admins,        \* of administrators; both besides the heartbeats
    NoSession, NoInstance, NoUser, NoFleet,
    Ops,           \* which requests arrive: the bound of an instance
    MaxRestarts    \* bound on the restarts of the server

AllOps == {"start", "beat", "end", "prompt", "stop", "revoke", "restore", "name", "agent",
           "revoke_agent", "revoke_app", "freeze", "event", "reset", "enroll"}

ASSUME OpsAssumption == Ops \subseteq AllOps
ASSUME RestartAssumption == MaxRestarts \in Nat
ASSUME IdsAssumption ==
    /\ Sessions \cap Instances = {} /\ Sessions \cap Names = {}
    /\ Sessions \cap (Clients \cup Admins) = {}
    /\ NoSession \notin Sessions /\ NoInstance \notin Sessions \cup Instances
    /\ NoUser \notin Names \cup Sessions \cup {Blank, NA}
    /\ NoFleet \notin Fleets

VARIABLES
    sess,          \* sessionStore.sessions
    link,          \* Session.InstanceID, NoInstance when it is empty
    savedUid,      \* column user_id: the user when the row was inserted
    revokedUsers,  \* sessionStore.revokedUsers: users, and session ids
    agents,        \* registry.agents: the status of each entry
    killSwitch,    \* policyStore's bundle.KillSwitch
    req,           \* the requests in flight
    owner,         \* the user who runs the workload of a session
    up,            \* the sessions whose workload is running
    restarts       \* restarts so far

store == <<sess, link, savedUid, revokedUsers>>
client == <<owner, up>>
vars == <<store, agents, killSwitch, req, client, restarts>>

Keys == Sessions \cup Instances
\* An instance enrolls over the network, with an id of its own.
Entries == (Keys \X {NoFleet}) \cup (Instances \X Fleets)
Callers == Clients \cup Admins
\* The watcher of session s sends the heartbeats of s one at a time.
Threads == Callers \cup Sessions
AgentStatus == {"absent", "active", "revoked", "deregistered"}
Places == {"user", "session", "agent", "store", "ensure", "get", "instance", "list", "find",
           "accepted"}

\* What "k" names: an instance, or the entry of an agent in a revoke or a restore.
Targets == Keys \cup {NoInstance} \cup Entries
Request == [op : {"start", "beat", "end", "prompt", "stop", "revoke", "restore"}, at : Places,
            s : Sessions \cup {NoSession}, n : Identity \cup Sessions \cup {NoUser},
            k : Targets, closed : BOOLEAN, bar : BOOLEAN]

NoReq == [op |-> "none"]

TypeOK ==
    /\ sess \in [Sessions -> Session]
    /\ link \in [Sessions -> Instances \cup {NoInstance}]
    /\ savedUid \in [Sessions -> Identity]
    /\ revokedUsers \in SUBSET (Names \cup Sessions)
    /\ agents \in [Entries -> AgentStatus]
    /\ killSwitch \in BOOLEAN
    /\ req \in [Threads -> Request \cup {NoReq}]
    /\ owner \in [Sessions -> Names \cup {NoUser}]
    /\ up \in SUBSET Sessions
    /\ restarts \in 0..MaxRestarts

Init ==
    /\ sess = [s \in Sessions |-> Absent]
    /\ link = [s \in Sessions |-> NoInstance]
    /\ savedUid = [s \in Sessions |-> Blank]
    /\ revokedUsers = {}
    /\ agents = [e \in Entries |-> "absent"]
    /\ killSwitch = FALSE
    /\ req = [t \in Threads |-> NoReq]
    /\ owner = [s \in Sessions |-> NoUser]
    /\ up = {}
    /\ restarts = 0

-----------------------------------------------------------------------------
(***************************************************************************)
(* Requests.                                                               *)
(***************************************************************************)
At(t, op, place) == req[t].op = op /\ req[t].at = place
Idle(t) == req[t] = NoReq
Goto(t, place) == req' = [req EXCEPT ![t].at = place]
Done(t) == req' = [req EXCEPT ![t] = NoReq]
NewReq(op, place, s, n, k) ==
    [op |-> op, at |-> place, s |-> s, n |-> n, k |-> k,
     closed |-> FALSE, bar |-> FALSE]

(***************************************************************************)
(* Calls of the registry, by instance id.  Entries are a Go map: the code  *)
(* that takes the first match takes any of them.                           *)
(***************************************************************************)
Key(s) == IF link[s] = NoInstance THEN s ELSE link[s]
AgentsOf(k) == {e \in Entries : e[1] = k /\ agents[e] # "absent"}

\* Mutant: any agent is set active.
EnsureAnyAgent(k) ==
    \E e \in IF AgentsOf(k) = {} THEN {<<k, NoFleet>>} ELSE AgentsOf(k) :
        agents' = [agents EXCEPT ![e] = "active"]

\* EnsureSessionAgent: creates or re-activates, except a revoked agent.
EnsureSessionAgent(k) ==
    \E e \in IF AgentsOf(k) = {} THEN {<<k, NoFleet>>} ELSE AgentsOf(k) :
        agents' = [agents EXCEPT ![e] = IF @ = "revoked" THEN @ ELSE "active"]

\* EndSessionAgent: without an instance id it means every agent of the app.
EndSessionAgent(k) ==
    agents' = [e \in Entries |->
        IF agents[e] = "active" /\ (k = e[1] \/ k = NoInstance) THEN "deregistered"
                                                                ELSE agents[e]]

(***************************************************************************)
(* Calls of the session store.                                             *)
(***************************************************************************)
Put(s, new) == sess' = [sess EXCEPT ![s] = new]

\* The columns that only the insert of a row writes.
Insert(s, uid, k) ==
    IF Known(sess[s]) THEN UNCHANGED <<link, savedUid>>
    ELSE /\ link' = [link EXCEPT ![s] = k]
         /\ savedUid' = [savedUid EXCEPT ![s] = uid]

RevokeUser(n) ==
    /\ revokedUsers' = revokedUsers \cup ({n} \ {NoUser})
    /\ sess' = [s \in Sessions |->
                   IF Known(sess[s]) /\ BelongsTo(sess[s], n) THEN AfterRevoke(sess[s])
                                                              ELSE sess[s]]

RestoreUser(n) ==
    /\ revokedUsers' = revokedUsers \ {n}
    /\ sess' = [s \in Sessions |->
                   IF Known(sess[s]) /\ BelongsTo(sess[s], n) THEN AfterRestoreUser(sess[s])
                                                              ELSE sess[s]]

-----------------------------------------------------------------------------
(***************************************************************************)
(* handleSessionStart.  Sent to launch a workload and again by its watcher *)
(* (watch.go), which ignores the answer.  No two users launch the same     *)
(* session id at once.                                                     *)
(***************************************************************************)
Barred(s, n) == n \in revokedUsers \/ IsRevoked(sess[s])

StartArrives(t, s, n, k) ==
    /\ "start" \in Ops /\ Idle(t)
    /\ \/ /\ s \notin up
          /\ \A u \in Callers : ~(req[u].op = "start" /\ req[u].s = s)
          /\ owner' = [owner EXCEPT ![s] = n]
       \/ /\ s \in up /\ owner[s] = n
          /\ UNCHANGED owner
    /\ ~killSwitch
    /\ req' = [req EXCEPT ![t] =
                  [NewReq("start", "user", s, n, k) EXCEPT !.bar = Barred(s, n)]]
    /\ UNCHANGED <<store, agents, killSwitch, up, restarts>>

\* Mutant: the user is not checked.
StartUserUnchecked(t) ==
    /\ At(t, "start", "user")
    /\ Goto(t, "session")
    /\ UNCHANGED <<store, agents, killSwitch, client, restarts>>

StartUser(t) ==
    /\ At(t, "start", "user")
    /\ IF req[t].n \in revokedUsers THEN Done(t) ELSE Goto(t, "session")
    /\ UNCHANGED <<store, agents, killSwitch, client, restarts>>

StartSession(t) ==
    /\ At(t, "start", "session")
    /\ IF IsRevoked(sess[req[t].s]) THEN Done(t) ELSE Goto(t, "agent")
    /\ UNCHANGED <<store, agents, killSwitch, client, restarts>>

\* Compares the instance ids of the agents with the session id.
StartAgent(t) ==
    /\ At(t, "start", "agent")
    /\ IF \E e \in AgentsOf(req[t].s) : agents[e] = "revoked" THEN Done(t)
       ELSE Goto(t, "store")
    /\ UNCHANGED <<store, agents, killSwitch, client, restarts>>

\* Mutant: the store trusts the check that the handler made before.
StartStoreUnchecked(t) ==
    LET s == req[t].s IN
    /\ At(t, "start", "store")
    /\ Put(s, AfterStart(sess[s], req[t].n, Blank, NoIntent))
    /\ Insert(s, req[t].n, req[t].k)
    /\ Goto(t, "ensure")
    /\ UNCHANGED <<revokedUsers, agents, killSwitch, client, restarts>>

StartStore(t) ==
    LET s == req[t].s
        old == sess[s] IN
    /\ At(t, "start", "store")
    /\ \/ /\ StartRefused(old)
          /\ Done(t)
          /\ UNCHANGED store
       \/ /\ ~StartRefused(old)
          /\ Put(s, AfterStart(old, req[t].n, Blank, NoIntent))
          /\ Insert(s, req[t].n, req[t].k)
          /\ Goto(t, "ensure")
          /\ UNCHANGED revokedUsers
    /\ UNCHANGED <<agents, killSwitch, client, restarts>>

StartEnsure(t) ==
    /\ At(t, "start", "ensure")
    /\ EnsureSessionAgent(Key(req[t].s))
    /\ up' = up \cup {req[t].s}
    /\ Done(t)
    /\ UNCHANGED <<store, killSwitch, owner, restarts>>

(***************************************************************************)
(* handleHeartbeat with a session id.  The answer "terminate" makes the    *)
(* watcher kill the workload; any other one lets it go on.  The handler    *)
(* ends by looking among the agents for one with the session's id as its   *)
(* agent id, and there is none.                                            *)
(***************************************************************************)
Terminate(s) == up' = up \ {s} /\ Done(s)

BeatArrives(s) ==
    /\ "beat" \in Ops /\ s \in up /\ Idle(s)
    /\ IF IsRevoked(sess[s]) \/ s \in revokedUsers
       THEN up' = up \ {s} /\ UNCHANGED req
       ELSE /\ req' = [req EXCEPT ![s] = NewReq("beat", "get", s, NoUser, NoInstance)]
            /\ UNCHANGED up
    /\ UNCHANGED <<store, agents, killSwitch, owner, restarts>>

\* Get copies the session; its user and "closed" are looked at afterwards.
BeatGet(s) ==
    /\ At(s, "beat", "get")
    /\ IF IsRevoked(sess[s]) THEN Terminate(s)
       ELSE /\ req' = [req EXCEPT ![s] =
                   [@ EXCEPT !.n = sess[s].uid, !.closed = (sess[s].status = "closed"),
                             !.at = IF Known(sess[s]) THEN "user" ELSE "store"]]
            /\ UNCHANGED up
    /\ UNCHANGED <<store, agents, killSwitch, owner, restarts>>

\* Mutant: a beat asks about the session and not about its user.
BeatUserUnchecked(s) ==
    /\ At(s, "beat", "user")
    /\ IF req[s].closed THEN Terminate(s) ELSE Goto(s, "store") /\ UNCHANGED up
    /\ UNCHANGED <<store, agents, killSwitch, owner, restarts>>

BeatUser(s) ==
    /\ At(s, "beat", "user")
    /\ IF req[s].n \in revokedUsers \/ req[s].closed THEN Terminate(s)
       ELSE Goto(s, "store") /\ UNCHANGED up
    /\ UNCHANGED <<store, agents, killSwitch, owner, restarts>>

BeatStore(s) ==
    /\ At(s, "beat", "store")
    /\ \/ /\ ~Known(sess[s])
          /\ Done(s)
          /\ UNCHANGED <<sess, up>>
       \/ /\ Known(sess[s])
          /\ Put(s, AfterHeartbeat(sess[s]))
          /\ IF IsRevoked(sess[s]) THEN Terminate(s)
             ELSE Goto(s, "instance") /\ UNCHANGED up
    /\ UNCHANGED <<link, savedUid, revokedUsers, agents, killSwitch, owner, restarts>>

\* Mutant: an agent the registry does not know is not created again.
BeatInstanceOnly(s) ==
    /\ At(s, "beat", "instance")
    /\ Done(s)
    /\ UNCHANGED <<store, agents, killSwitch, client, restarts>>

\* HeartbeatInstance refreshes the agent it finds, if that is not revoked.
BeatInstance(s) ==
    /\ At(s, "beat", "instance")
    /\ \/ /\ \E e \in AgentsOf(Key(s)) : agents[e] # "revoked"
          /\ Done(s)
       \/ /\ AgentsOf(Key(s)) = {} \/ \E e \in AgentsOf(Key(s)) : agents[e] = "revoked"
          /\ Goto(s, "ensure")
    /\ UNCHANGED <<store, agents, killSwitch, client, restarts>>

BeatEnsure(s) ==
    /\ At(s, "beat", "ensure")
    /\ EnsureSessionAgent(Key(s))
    /\ Done(s)
    /\ UNCHANGED <<store, killSwitch, client, restarts>>

\* The workload exits; nobody has been told yet, and perhaps nobody will be.
\* killProcessPID of a stop or a revoke, where it finds the workload, is one too.
Exit(s) ==
    /\ s \in up
    /\ up' = up \ {s}
    /\ UNCHANGED <<store, agents, killSwitch, req, owner, restarts>>

(***************************************************************************)
(* handleSessionEnd, from a hook or from the watcher.                      *)
(***************************************************************************)
EndArrives(t, s) ==
    /\ "end" \in Ops /\ Idle(t)
    /\ req' = [req EXCEPT ![t] =
                  NewReq("end", "store", s, NoUser,
                         IF Known(sess[s]) THEN Key(s) ELSE NoInstance)]
    /\ UNCHANGED <<store, agents, killSwitch, client, restarts>>

EndStore(t) ==
    LET s == req[t].s IN
    /\ At(t, "end", "store")
    /\ IF EndRefused(sess[s]) THEN Done(t) /\ UNCHANGED sess
       ELSE /\ Put(s, AfterEnd(sess[s], "ended"))
            /\ IF req[t].k = NoInstance THEN Done(t) ELSE Goto(t, "agent")
    /\ UNCHANGED <<link, savedUid, revokedUsers, agents, killSwitch, client, restarts>>

EndAgent(t) ==
    /\ At(t, "end", "agent")
    /\ EndSessionAgent(req[t].k)
    /\ Done(t)
    /\ UNCHANGED <<store, killSwitch, client, restarts>>

(***************************************************************************)
(* handleSessionPrompt, for a prompt whose fields are valid.  It asks about *)
(* the session first; the user is known once the prompt has been recorded. *)
(***************************************************************************)
PromptArrives(t, s) ==
    /\ "prompt" \in Ops /\ Idle(t)
    /\ ~IsRevoked(sess[s]) /\ s \notin revokedUsers
    /\ req' = [req EXCEPT ![t] = [NewReq("prompt", "store", s, sess[s].uid, NoInstance) EXCEPT
                                     !.bar = sess[s].uid \in revokedUsers]]
    /\ UNCHANGED <<store, agents, killSwitch, client, restarts>>

\* SetPromptAndIntent wakes the session like a heartbeat, and returns a copy.
PromptStore(t) ==
    LET s == req[t].s
        uid == sess[s].uid IN
    /\ At(t, "prompt", "store")
    /\ IF ~Known(sess[s]) THEN Done(t) /\ UNCHANGED sess
       ELSE /\ Put(s, AfterHeartbeat(sess[s]))
            /\ IF IsRevoked(sess[s]) THEN Done(t)
               ELSE req' = [req EXCEPT ![t] =
                           [@ EXCEPT !.at = "user", !.n = uid,
                                     !.bar = req[t].bar /\ uid = req[t].n]]
    /\ UNCHANGED <<link, savedUid, revokedUsers, agents, killSwitch, client, restarts>>

PromptUser(t) ==
    /\ At(t, "prompt", "user")
    /\ IF req[t].n \in revokedUsers THEN Done(t) ELSE Goto(t, "accepted")
    /\ UNCHANGED <<store, agents, killSwitch, client, restarts>>

\* The event goes to the audit store, and the answer to the hook.
PromptAnswer(t) ==
    /\ At(t, "prompt", "accepted")
    /\ Done(t)
    /\ UNCHANGED <<store, agents, killSwitch, client, restarts>>

-----------------------------------------------------------------------------
(***************************************************************************)
(* handleTargetedKillAgent: stop, revoke or restore a target.  The target  *)
(* is looked for among the session ids, the agents, then the users of the  *)
(* sessions; what is none of these is taken for a user name.               *)
(***************************************************************************)
Actions == {"stop", "revoke", "restore"}

\* Mutant: the user of the session, blank or not.
UserOfAny(s, target) == sess[s].uid

\* The user an action is about: the session's, or the target itself.
UserOf(s, target) == IF sess[s].uid \in Names THEN sess[s].uid ELSE target

TargetSession(t, op, s) ==
    /\ op \in Ops \cap Actions /\ Idle(t)
    /\ \/ /\ Known(sess[s])
          /\ req' = [req EXCEPT ![t] = NewReq(op, "list", s, UserOf(s, s), NoInstance)]
       \/ /\ ~Known(sess[s]) /\ op # "stop"
          /\ req' = [req EXCEPT ![t] = NewReq(op, "user", NoSession, s, NoInstance)]
    /\ UNCHANGED <<store, agents, killSwitch, client, restarts>>

\* A stop goes to the instance of the session as it stands, empty or not.
TargetList(t) ==
    LET r == req[t] IN
    /\ r.op \in Actions /\ r.at = "list"
    /\ \E e \in IF AgentsOf(Key(r.s)) = {} THEN {NoInstance} ELSE AgentsOf(Key(r.s)) :
           req' = [req EXCEPT ![t] = [@ EXCEPT
               !.k = IF r.op = "stop" THEN link[r.s] ELSE e,
               !.at = IF r.op = "stop" THEN "store" ELSE "user"]]
    /\ UNCHANGED <<store, agents, killSwitch, client, restarts>>

TargetAgent(t, op, e) ==
    /\ "agent" \in Ops /\ op \in Ops \cap Actions /\ Idle(t)
    /\ agents[e] # "absent"
    /\ req' = [req EXCEPT ![t] = NewReq(op, "find", NoSession, NoUser, e)]
    /\ UNCHANGED <<store, agents, killSwitch, client, restarts>>

\* An open session of the agent (the code takes the newest one).  An agent id
\* that stands for a user bars nobody, and the model leaves it out.
TargetFind(t) ==
    LET r == req[t]
        open == {s \in Sessions : /\ Known(sess[s]) /\ sess[s].status # "closed"
                                  /\ Key(s) = r.k[1]} IN
    /\ r.op \in Actions /\ r.at = "find"
    /\ \/ /\ open = {}
          /\ IF r.op = "stop" THEN req' = [req EXCEPT ![t] = [@ EXCEPT !.k = r.k[1], !.at = "agent"]]
             ELSE Goto(t, "user")
       \/ \E s \in open :
              req' = [req EXCEPT ![t] = [@ EXCEPT
                  !.s = s, !.n = UserOf(s, NoUser),
                  !.k = IF r.op = "stop" THEN link[s] ELSE r.k,
                  !.at = IF r.op = "stop" THEN "store" ELSE "user"]]
    /\ UNCHANGED <<store, agents, killSwitch, client, restarts>>

\* By user name: a session of the user (the newest one), and no agent.  The
\* user_id a request may carry is left empty, and so are targets that name the
\* instance of a session without being an agent id.
TargetName(t, op, n) ==
    LET mine == {s \in Sessions : Known(sess[s]) /\ sess[s].uid = n} IN
    /\ "name" \in Ops /\ op \in Ops \cap Actions /\ Idle(t)
    /\ \/ \E s \in mine :
              req' = [req EXCEPT ![t] =
                         NewReq(op, IF op = "stop" THEN "store" ELSE "user", s, n,
                                IF op = "stop" THEN link[s] ELSE NoInstance)]
       \/ /\ mine = {} /\ op # "stop"
          /\ req' = [req EXCEPT ![t] = NewReq(op, "user", NoSession, n, NoInstance)]
    /\ UNCHANGED <<store, agents, killSwitch, client, restarts>>

\* An error of End is ignored.
StopStore(t) ==
    LET s == req[t].s IN
    /\ At(t, "stop", "store")
    /\ IF EndRefused(sess[s]) THEN UNCHANGED sess ELSE Put(s, AfterEnd(sess[s], "ended"))
    /\ Goto(t, "agent")
    /\ UNCHANGED <<link, savedUid, revokedUsers, agents, killSwitch, client, restarts>>

StopAgent(t) ==
    /\ At(t, "stop", "agent")
    /\ EndSessionAgent(req[t].k)
    /\ Done(t)
    /\ UNCHANGED <<store, killSwitch, client, restarts>>

\* The next of the steps user, session, agent that has something to do.
AgentNext(r) == IF r.k = NoInstance THEN NoReq ELSE [r EXCEPT !.at = "agent"]
SessionNext(r) == IF r.s = NoSession THEN AgentNext(r) ELSE [r EXCEPT !.at = "session"]

RevokeUserStep(t) ==
    /\ At(t, "revoke", "user")
    /\ RevokeUser(req[t].n)
    /\ req' = [req EXCEPT ![t] = SessionNext(@)]
    /\ UNCHANGED <<link, savedUid, agents, killSwitch, client, restarts>>

RevokeSessionStep(t) ==
    LET s == req[t].s IN
    /\ At(t, "revoke", "session")
    /\ Put(s, AfterRevoke(sess[s]))
    /\ req' = [req EXCEPT ![t] = AgentNext(@)]
    /\ UNCHANGED <<link, savedUid, revokedUsers, agents, killSwitch, client, restarts>>

RevokeAgentStep(t) ==
    /\ At(t, "revoke", "agent")
    /\ agents' = [agents EXCEPT ![req[t].k] = "revoked"]
    /\ Done(t)
    /\ UNCHANGED <<store, killSwitch, client, restarts>>

\* "bar" of a request says that an administrator has barred it and has not
\* changed his mind: a restore of its user, or of its session, clears it.
Lift(new, S, n) ==
    req' = [t \in Threads |->
               IF new[t].op \in {"start", "prompt"} /\ (new[t].n = n \/ new[t].s \in S)
               THEN [new[t] EXCEPT !.bar = FALSE] ELSE new[t]]

RestoreUserStep(t) ==
    LET n == req[t].n IN
    /\ At(t, "restore", "user")
    /\ RestoreUser(n)
    /\ Lift([req EXCEPT ![t] = SessionNext(@)], {s \in Sessions : BelongsTo(sess[s], n)}, n)
    /\ UNCHANGED <<link, savedUid, agents, killSwitch, client, restarts>>

RestoreSessionStep(t) ==
    LET s == req[t].s IN
    /\ At(t, "restore", "session")
    /\ Put(s, AfterRestoreTarget(sess[s]))
    /\ Lift([req EXCEPT ![t] = AgentNext(@)], {s}, NoUser)
    /\ UNCHANGED <<link, savedUid, revokedUsers, agents, killSwitch, client, restarts>>

RestoreAgentStep(t) ==
    /\ At(t, "restore", "agent")
    /\ agents' = [agents EXCEPT ![req[t].k] = "active"]
    /\ Done(t)
    /\ UNCHANGED <<store, killSwitch, client, restarts>>

-----------------------------------------------------------------------------
(***************************************************************************)
(* Requests of a single call.                                              *)
(***************************************************************************)
\* The last call of handleRegisterEdge, with a place of a code and a fleet that is
\* not revoked (module Enrollment has these): whatever the instance's entry under
\* the fleet was, it is active now.
EnrollAgent(e) ==
    /\ "enroll" \in Ops
    /\ agents' = [agents EXCEPT ![e] = "active"]
    /\ UNCHANGED <<store, killSwitch, req, client, restarts>>

\* handleRevoke
RevokeAgent(e) ==
    /\ "revoke_agent" \in Ops /\ agents[e] # "absent"
    /\ agents' = [agents EXCEPT ![e] = "revoked"]
    /\ UNCHANGED <<store, killSwitch, req, client, restarts>>

\* handleRevokeApp
RevokeApp ==
    /\ "revoke_app" \in Ops
    /\ agents' = [e \in Entries |-> IF agents[e] = "absent" THEN "absent" ELSE "revoked"]
    /\ UNCHANGED <<store, killSwitch, req, client, restarts>>

\* handleKillSwitch
SetKillSwitch(on) ==
    /\ "freeze" \in Ops
    /\ killSwitch' = on
    /\ UNCHANGED <<store, agents, req, client, restarts>>

\* handleAuditIngest, for one event of the batch; it may come late.
EventArrives(s, uid) ==
    /\ "event" \in Ops
    /\ Put(s, AfterActivity(sess[s], uid, Blank))
    /\ Insert(s, uid, NoInstance)
    /\ UNCHANGED <<revokedUsers, agents, killSwitch, req, client, restarts>>

\* handleResetSessions
ResetSessions ==
    /\ "reset" \in Ops
    /\ sess' = [s \in Sessions |-> IF sess[s].status = "active"
                                   THEN AfterSweep(sess[s], "system_reset") ELSE sess[s]]
    /\ UNCHANGED <<link, savedUid, revokedUsers, agents, killSwitch, req, client, restarts>>

\* The server stops, with the requests it had, and starts again.
Restart ==
    /\ restarts < MaxRestarts
    /\ restarts' = restarts + 1
    /\ sess' = [s \in Sessions |-> [sess[s] EXCEPT !.uid = savedUid[s]]]
    /\ agents' = [e \in Entries |-> "absent"]
    /\ killSwitch' = FALSE
    /\ req' = [t \in Threads |-> NoReq]
    /\ UNCHANGED <<link, savedUid, revokedUsers, client>>

-----------------------------------------------------------------------------
StartStep(t) ==
    StartUser(t) \/ StartSession(t) \/ StartAgent(t) \/ StartStore(t) \/ StartEnsure(t)
BeatStep(s) ==
    BeatGet(s) \/ BeatUser(s) \/ BeatStore(s) \/ BeatInstance(s) \/ BeatEnsure(s)
EndStep(t) == EndStore(t) \/ EndAgent(t)
PromptStep(t) == PromptStore(t) \/ PromptUser(t) \/ PromptAnswer(t)
AdminStep(t) ==
    \/ TargetList(t) \/ TargetFind(t)
    \/ StopStore(t) \/ StopAgent(t)
    \/ RevokeUserStep(t) \/ RevokeSessionStep(t) \/ RevokeAgentStep(t)
    \/ RestoreUserStep(t) \/ RestoreSessionStep(t) \/ RestoreAgentStep(t)

CallerStep(t) == StartStep(t) \/ EndStep(t) \/ PromptStep(t) \/ AdminStep(t)

ClientArrival(t) ==
    \/ \E s \in Sessions, n \in Names, k \in Instances \cup {NoInstance} :
           StartArrives(t, s, n, k)
    \/ \E s \in Sessions : EndArrives(t, s) \/ PromptArrives(t, s)

AdminArrival(t) ==
    \E op \in Actions :
        \/ \E s \in Sessions : TargetSession(t, op, s)
        \/ \E e \in Entries : TargetAgent(t, op, e)
        \/ \E n \in Names : TargetName(t, op, n)

Single ==
    \/ \E e \in Instances \X Fleets : EnrollAgent(e)
    \/ \E e \in Entries : RevokeAgent(e)
    \/ RevokeApp
    \/ \E on \in BOOLEAN : SetKillSwitch(on)
    \/ \E s \in Sessions, uid \in Names \cup {Blank} : EventArrives(s, uid)
    \/ ResetSessions

Next ==
    \/ \E t \in Clients : ClientArrival(t)
    \/ \E t \in Admins : AdminArrival(t)
    \/ \E t \in Callers : CallerStep(t)
    \/ \E s \in Sessions : BeatArrives(s) \/ BeatStep(s) \/ Exit(s)
    \/ Single
    \/ Restart

Spec == Init /\ [][Next]_vars

\* A watcher beats every two seconds and a handler, once called, returns.
Fairness ==
    /\ \A s \in Sessions : WF_vars(BeatArrives(s)) /\ WF_vars(BeatStep(s))
    /\ \A t \in Callers : WF_vars(CallerStep(t))

FairSpec == Spec /\ Fairness

-----------------------------------------------------------------------------
(***************************************************************************)
(* Properties that hold.                                                   *)
(***************************************************************************)

\* A start that arrives when its user or its session is revoked, or a prompt
\* whose session's user is, and is not restored meanwhile, is not accepted: no
\* call of the stores and no other request of the two turns it around.
NothingPastBar ==
    \A t \in Callers :
        req[t] # NoReq /\ req[t].bar =>
            ~At(t, "start", "ensure") /\ ~At(t, "prompt", "accepted")

\* The bar on an agent is lifted by the administrator's restore of that very
\* agent, by a new enrollment of its instance under its fleet, which takes a place
\* of a code, or by a restart (the registry is in memory).  Sessions do not lift it,
\* by starts, heartbeats and ends that were checked before the revocation or by the
\* agents they create again; nor does the restore of another agent of the instance.
RevokedAgentStays ==
    [][\A e \in Entries :
          agents[e] = "revoked" /\ agents'[e] # "revoked" =>
              \/ \E t \in Callers :
                     req'[t] # req[t] /\ At(t, "restore", "agent") /\ req[t].k = e
              \/ e \in Instances \X Fleets /\ EnrollAgent(e)
              \/ restarts' # restarts]_vars

\* A revocation of a user or a session is lifted by the administrator's restore
\* of that user, of a user of the session, or of the session, as it is carried
\* out, and by nothing else: not by a start, a prompt or a heartbeat that was
\* checked before the revocation, an event that comes late, a sweep or a restart.
RevokedStaysRevoked ==
    [][/\ \A s \in Sessions : IsRevoked(sess[s]) /\ ~IsRevoked(sess'[s]) =>
              \E t \in Callers :
                  /\ req'[t] # req[t]
                  /\ \/ At(t, "restore", "session") /\ req[t].s = s
                     \/ At(t, "restore", "user") /\ BelongsTo(sess[s], req[t].n)
       /\ \A n \in revokedUsers \ revokedUsers' :
              \E t \in Callers :
                  req'[t] # req[t] /\ At(t, "restore", "user") /\ req[t].n = n]_vars

\* A running workload of a user who is revoked is terminated, whichever starts,
\* ends, restores and beats raced with the revocation, or else the user is
\* restored, or the session's record names somebody else: after a restart it names
\* the user its row was inserted with, who may be another one or nobody.
RevokedUserIsStopped ==
    \A s \in Sessions, n \in Names :
        (s \in up /\ owner[s] = n /\ n \in revokedUsers)
            ~> (s \notin up \/ n \notin revokedUsers \/ sess[s].uid # n)

\* The registry is in memory; a session whose workload is running comes to be
\* known to it again after a restart, by the heartbeat that finds no agent.
PresenceReturns ==
    \A s \in Sessions :
        (s \in up) ~> (s \notin up \/ AgentsOf(Key(s)) # {})

-----------------------------------------------------------------------------
(***************************************************************************)
(* What the source says and the code does not do.                          *)
(***************************************************************************)

\* The answer of handleTargetedKillAgent to a revoke: "User %s access revoked by
\* administrator. Future sessions blocked."
NoLiveSessionOfRevokedUser ==
    \A s \in Sessions :
        sess[s].status = "active" => sess[s].uid \notin revokedUsers
=============================================================================
