----------------------------- MODULE Workstation -----------------------------
(***************************************************************************)
(* One workstation of one user: what stops its workloads and its commands  *)
(* when an administrator says so.  The parts are the launcher (bapedge     *)
(* session-start) and the SessionStart hook, the watcher of each session   *)
(* (bapedge watch), the hooks for tool calls and prompts                   *)
(* (cchook/interceptor.go) and the commands (bapedge check, bapedge exec). *)
(* All are processes that share two files without a lock:                  *)
(*   .bap/policy-state.json, the last answer of the control plane, and     *)
(*   .bap-revoked, the mark that keeps the user from starting again.       *)
(* os.WriteFile truncates a file and then writes it, so a reader may find  *)
(* it empty, and two writers may leave a text that is neither's: Garbled.  *)
(* Either half may fail (a directory that is read-only, a full disk), and  *)
(* nobody looks at the error.                                              *)
(*                                                                         *)
(* A handler of the control plane is one step here (ControlPlane has its   *)
(* steps), on the status of the sessions only.  A request may be lost,     *)
(* which stands for timeouts and being offline; it is not handled later.   *)
(* The event of a command that comes late, from the log or by a slow       *)
(* handler (EdgeAudit), is the event of a command that took longer.        *)
(*                                                                         *)
(* Left out: session markers, other than that there is a watcher; copies   *)
(* of the two files in other directories; what the policy store keeps in   *)
(* policy-state.json (PolicyCache); ids that contain each other, which the *)
(* code takes for the same; hooks in audit mode; policy decisions, which   *)
(* are any; a second launch of a session id whose watcher still runs; the  *)
(* refusal of an instance that was revoked as an agent, without its user   *)
(* or session (handlers.go:917); and the purge of idle sessions, which     *)
(* the server never runs.                                                  *)
(* A SessionStart hook that exits with 2 is taken to keep the workload     *)
(* from starting.                                                          *)
(***************************************************************************)
CONSTANTS
    Sessions,      \* session ids, one workload each
    Commands,      \* hooks and commands in progress
    NoFile, Garbled, NoAnswer,
    Colocated      \* the control plane works in the directory of the workloads

Answers == [kill : BOOLEAN, sessions : SUBSET Sessions]
Unreadable == {NoFile, Garbled}
Marks == {NoFile, Garbled, "whole"}

ASSUME ProcessAssumption == Sessions # {} /\ Sessions \cap Commands = {}
ASSUME PlaceAssumption == Colocated \in BOOLEAN
ASSUME FileAssumption ==
    /\ NoFile \notin {Garbled, "whole"}
    /\ (Unreadable \cup {NoAnswer}) \cap Answers = {}

VARIABLES
    sess,          \* status of the sessions at the control plane
    userRevoked,   \* the user is one of revokedUsers
    kill,          \* bundle.KillSwitch
    state,         \* .bap/policy-state.json
    mark,          \* .bap-revoked
    work,          \* the workloads
    proc,          \* launcher or watcher of a session; hook or command
    everBarred,    \* ghost: somebody was revoked, or the fleet frozen, once
    unreported     \* ghost: sessions whose end nobody will report

server == <<sess, userRevoked, kill>>
ghosts == <<everBarred, unreported>>
vars == <<server, state, mark, work, proc, ghosts>>

Status == {"absent", "active", "closed", "revoked"}
Processes == Sessions \cup Commands

LaunchPlaces == {"preflight", "hookstart"}
SyncPlaces == {"fetch", "open", "write", "look"}
WatchPlaces == {"enroll", "tick", "beat", "stopping", "mark", "marking", "end"}
HookPlaces == {"hook", "ask", "prompt", "run"}
Places == {"none"} \cup LaunchPlaces \cup SyncPlaces \cup WatchPlaces \cup HookPlaces

Kinds == {"prompt", "check", "exec", "mcp"}

Process ==
    {r \in [at : Places, kind : Kinds \cup {"watch"}, s : Sessions,
            told : Answers \cup {NoAnswer}, spoiled : BOOLEAN,
            revoked : BOOLEAN, dead : BOOLEAN] :
        r.at \in {"open", "write"} => r.told # NoAnswer}

NoProcess(s, kind) == [at |-> "none", kind |-> kind, s |-> s, told |-> NoAnswer,
                       spoiled |-> FALSE, revoked |-> FALSE, dead |-> FALSE]
Nobody(p) == IF p \in Sessions THEN NoProcess(p, "watch")
             ELSE NoProcess(CHOOSE s \in Sessions : TRUE, "exec")

TypeOK ==
    /\ sess \in [Sessions -> Status]
    /\ userRevoked \in BOOLEAN /\ kill \in BOOLEAN
    /\ state \in Answers \cup Unreadable
    /\ mark \in Marks
    /\ work \in [Sessions -> {"down", "starting", "up"}]
    /\ proc \in [Processes -> Process]
    /\ everBarred \in BOOLEAN /\ unreported \in SUBSET Sessions

Init ==
    /\ sess = [s \in Sessions |-> "absent"]
    /\ userRevoked = FALSE /\ kill = FALSE
    /\ state = NoFile /\ mark = NoFile
    /\ work = [s \in Sessions |-> "down"]
    /\ proc = [p \in Processes |-> Nobody(p)]
    /\ everBarred = FALSE /\ unreported = {}

At(p, place) == proc[p].at = place
Becomes(p, new) == proc' = [proc EXCEPT ![p] = new]
Goto(p, place) == Becomes(p, [proc[p] EXCEPT !.at = place])
Gone(p) == Becomes(p, Nobody(p))
Watched(s) == proc[s].at \notin {"none", "hookstart"}
Leaving(s) == At(s, "stopping")
Down(s) == work' = [work EXCEPT ![s] = "down"]

-----------------------------------------------------------------------------
(***************************************************************************)
(* The control plane.                                                      *)
(***************************************************************************)
Known(s) == sess[s] # "absent"

\* handleSessionStart answers 403.
Refused(s) == kill \/ userRevoked \/ sess[s] = "revoked"

\* handleSessionStart, reached.
Started(s) == sess' = [sess EXCEPT ![s] = IF Refused(s) THEN @ ELSE "active"]

\* Mutant: a status that the rest of the code does not know.
EndedByName(s) == sess' = [sess EXCEPT ![s] = IF @ = "active" THEN "ended" ELSE @]

\* End, for a session that is neither unknown nor revoked.
Ended(s) == sess' = [sess EXCEPT ![s] = IF @ \in {"active", "closed"} THEN "closed" ELSE @]

\* RecordEvent, for a session that may be unknown or closed.
Recorded(s) == sess' = [sess EXCEPT ![s] = IF @ = "revoked" THEN @ ELSE "active"]

\* handleGetRevocations, and what remotelyRevoked reads in its answer.
Revocations == [kill |-> kill, sessions |-> {s \in Sessions : sess[s] = "revoked"}]
RemotelyRevoked(s) == kill \/ sess[s] = "revoked" \/ userRevoked

\* handleHeartbeat.  The kill switch is not among the things it looks at.
HeartbeatStatus(s) ==
    CASE sess[s] = "revoked" \/ (Known(s) /\ userRevoked) -> "revoked"
      [] sess[s] = "closed" /\ ~userRevoked -> "closed"
      [] OTHER -> "ok"

SetKillSwitch(on) ==
    /\ kill # on /\ kill' = on
    /\ everBarred' = (everBarred \/ on)
    /\ UNCHANGED <<sess, userRevoked, state, mark, work, proc, unreported>>

\* A revoke of the user, or of a session of the user.
RevokeUser ==
    /\ userRevoked' = TRUE
    /\ sess' = [s \in Sessions |-> IF Known(s) THEN "revoked" ELSE "absent"]
    /\ mark' = IF Colocated THEN "whole" ELSE mark
    /\ everBarred' = TRUE
    /\ UNCHANGED <<kill, state, work, proc, unreported>>

\* A restore of the user; of a session in particular, which is activated
\* whether anything runs or not.
Restore(targets) ==
    /\ userRevoked' = FALSE
    /\ sess' = [s \in Sessions |->
                   CASE s \in targets /\ Known(s) -> "active"
                     [] sess[s] = "revoked" /\ s \notin targets -> "closed"
                     [] OTHER -> sess[s]]
    /\ mark' = IF Colocated THEN NoFile ELSE mark
    /\ unreported' = unreported \cup {s \in targets : ~Watched(s) \/ Leaving(s)}
    /\ UNCHANGED <<kill, state, work, proc, everBarred>>

\* A stop from the dashboard.
Stop(s) ==
    /\ sess[s] = "active"
    /\ Ended(s)
    /\ unreported' = unreported \ {s}
    /\ UNCHANGED <<userRevoked, kill, state, mark, work, proc, everBarred>>

-----------------------------------------------------------------------------
(***************************************************************************)
(* Launching: session-start of the launcher, then the hook; or the         *)
(* SessionStart hook alone, which then starts the watcher itself.          *)
(***************************************************************************)
\* session-start passes over a mark it cannot parse.
LaunchArrives(s) ==
    /\ work[s] = "down" /\ At(s, "none")
    /\ mark # "whole"
    /\ Goto(s, "preflight")
    /\ UNCHANGED <<server, state, mark, work, ghosts>>

Spawn(s, status) ==
    /\ work' = [work EXCEPT ![s] = status]
    /\ Goto(s, "enroll")
    /\ unreported' = unreported \ {s}

Preflight(s) ==
    /\ At(s, "preflight")
    /\ Started(s)
    /\ IF Refused(s) THEN Goto(s, "mark") /\ UNCHANGED <<work, unreported>>
                     ELSE Spawn(s, "starting")
    /\ UNCHANGED <<userRevoked, kill, state, mark, everBarred>>

PreflightLost(s) ==
    /\ At(s, "preflight")
    /\ Spawn(s, "starting")
    /\ UNCHANGED <<server, state, mark, everBarred>>

\* isStartupBlocked: nothing that is ever written into .bap-revoked blocks it.
Frozen == state \notin Unreadable /\ state.kill

HookStart(s) ==
    /\ work[s] = "starting" /\ ~At(s, "hookstart")
    /\ work' = [work EXCEPT ![s] = IF Frozen THEN "down" ELSE "up"]
    /\ UNCHANGED <<server, state, mark, proc, ghosts>>

HookLaunch(s) ==
    /\ work[s] = "down" /\ At(s, "none")
    /\ ~Frozen
    /\ work' = [work EXCEPT ![s] = "starting"]
    /\ Goto(s, "hookstart")
    /\ UNCHANGED <<server, state, mark, ghosts>>

HookEnroll(s) ==
    /\ At(s, "hookstart")
    /\ \/ /\ Refused(s)
          /\ Down(s) /\ Gone(s)
          /\ UNCHANGED <<sess, unreported>>
       \/ /\ Spawn(s, "up")
          /\ \/ ~Refused(s) /\ Started(s)
             \/ UNCHANGED sess
    /\ UNCHANGED <<userRevoked, kill, state, mark, everBarred>>

\* The workload ends, by itself or by its user.
Exit(s) ==
    /\ work[s] # "down" /\ ~At(s, "hookstart")
    /\ Down(s)
    /\ UNCHANGED <<server, state, mark, proc, ghosts>>

\* session-end; launchers run it when the workload has ended.
SessionEnd(s) ==
    /\ work[s] # "starting" /\ sess[s] = "active"
    /\ Ended(s)
    /\ unreported' = unreported \ {s}
    /\ UNCHANGED <<userRevoked, kill, state, mark, work, proc, everBarred>>

-----------------------------------------------------------------------------
(***************************************************************************)
(* syncRevocationsFast, run by watchers and commands.  It reads the file   *)
(* before it writes it, but overwrites all that anybody looks at.          *)
(***************************************************************************)
\* Mutant: the answer is not written.
FetchUnsaved(p) ==
    /\ At(p, "fetch")
    /\ Becomes(p, [proc[p] EXCEPT !.told = Revocations, !.at = "look"])
    /\ UNCHANGED <<server, state, mark, work, ghosts>>

FetchAnswered(p) ==
    /\ At(p, "fetch")
    /\ Becomes(p, [proc[p] EXCEPT !.told = Revocations, !.at = "open"])
    /\ UNCHANGED <<server, state, mark, work, ghosts>>

FetchLost(p) ==
    /\ At(p, "fetch")
    /\ Becomes(p, [proc[p] EXCEPT !.told = NoAnswer, !.at = "look"])
    /\ UNCHANGED <<server, state, mark, work, ghosts>>

\* "spoiled" of a command between its truncation and its look: the file is not
\* what it wrote, since another process has truncated or written it.
Touch(p, new) ==
    [q \in Processes |->
        IF q = p THEN new
        ELSE [proc[q] EXCEPT !.spoiled = @ \/ (q \in Commands /\ proc[q].at \in {"write", "look"}
                                                          /\ proc[q].told # NoAnswer)]]

\* The process goes on to look at the file; a watcher has no more use for what
\* it was told.
ToLook(p, spoiled) ==
    IF p \in Commands THEN [proc[p] EXCEPT !.at = "look", !.spoiled = spoiled]
    ELSE [proc[p] EXCEPT !.at = "look", !.told = NoAnswer]

SyncOpen(p) ==
    /\ At(p, "open")
    /\ state' = Garbled
    /\ proc' = Touch(p, [proc[p] EXCEPT !.at = "write"])
    /\ UNCHANGED <<server, mark, work, ghosts>>

SyncWrite(p) ==
    /\ At(p, "write")
    /\ state' = proc[p].told
    /\ proc' = Touch(p, ToLook(p, proc[p].spoiled))
    /\ UNCHANGED <<server, mark, work, ghosts>>

\* The errors of MkdirAll and WriteFile are dropped, and the process looks at the
\* file as it is: as before, or truncated and perhaps written in part.  Over what
\* another process wrote meanwhile the end of its text may remain.
SyncFails(p) ==
    /\ \/ /\ At(p, "open") \/ At(p, "write")
          /\ Becomes(p, ToLook(p, TRUE)) /\ UNCHANGED state
       \/ /\ At(p, "write")
          /\ proc' = Touch(p, ToLook(p, TRUE)) /\ state' = Garbled
    /\ UNCHANGED <<server, mark, work, ghosts>>

\* An answer, or the file, says that a session is to stop.
Bars(answer, s) ==
    answer \notin Unreadable \cup {NoAnswer} /\ (answer.kill \/ s \in answer.sessions)

SyncStep(p) ==
    \/ FetchAnswered(p) \/ FetchLost(p) \/ SyncOpen(p) \/ SyncWrite(p) \/ SyncFails(p)

-----------------------------------------------------------------------------
(***************************************************************************)
(* runWatchLoop.                                                           *)
(***************************************************************************)
\* The watcher posts a start of its own and ignores the answer.
WatchEnroll(s) ==
    /\ At(s, "enroll")
    /\ Started(s) \/ UNCHANGED sess
    /\ Goto(s, "tick")
    /\ UNCHANGED <<userRevoked, kill, state, mark, work, ghosts>>

\* Two ticks in a row without the workload are its end.
WatchTick(s) ==
    /\ At(s, "tick")
    /\ Becomes(s, [proc[s] EXCEPT
                      !.dead = (work[s] = "down"),
                      !.at = IF work[s] = "down" /\ proc[s].dead THEN "end" ELSE "beat"])
    /\ UNCHANGED <<server, state, mark, work, ghosts>>

\* Mutant: the end is left to the launcher.
WatchEndSilent(s) ==
    /\ At(s, "end")
    /\ Gone(s)
    /\ UNCHANGED <<server, state, mark, work, ghosts>>

WatchEnd(s) ==
    /\ At(s, "end")
    /\ \/ Ended(s) /\ UNCHANGED unreported
       \/ UNCHANGED sess /\ unreported' = unreported \cup {s}
    /\ Gone(s)
    /\ UNCHANGED <<userRevoked, kill, state, mark, work, everBarred>>

\* Mutant: closed is taken for revoked.
WatchBeatEitherWay(s) ==
    /\ At(s, "beat")
    /\ Becomes(s, [proc[s] EXCEPT !.revoked = (HeartbeatStatus(s) # "ok"), !.at = "fetch"])
    /\ UNCHANGED <<server, state, mark, work, ghosts>>

WatchBeat(s) ==
    LET status == HeartbeatStatus(s) IN
    /\ At(s, "beat")
    /\ IF status = "closed" THEN Goto(s, "stopping")
       ELSE Becomes(s, [proc[s] EXCEPT !.revoked = (status = "revoked"), !.at = "fetch"])
    /\ UNCHANGED <<server, state, mark, work, ghosts>>

\* The workload is killed, and no end is posted: the session is closed, unless
\* it was made active since the answer.
WatchStop(s) ==
    /\ At(s, "stopping")
    /\ Down(s) /\ Gone(s)
    /\ UNCHANGED <<server, state, mark, ghosts>>

WatchBeatLost(s) ==
    /\ At(s, "beat")
    /\ Becomes(s, [proc[s] EXCEPT !.revoked = FALSE, !.at = "fetch"])
    /\ UNCHANGED <<server, state, mark, work, ghosts>>

\* Mutant: the watcher goes by the answer to its heartbeat alone.
WatchLookBeatOnly(s) ==
    /\ At(s, "look") /\ s \in Sessions
    /\ Becomes(s, [NoProcess(s, "watch") EXCEPT
                      !.at = IF proc[s].revoked THEN "mark" ELSE "tick",
                      !.dead = proc[s].dead])
    /\ UNCHANGED <<server, state, mark, work, ghosts>>

\* isSessionRevokedInState.
WatchLook(s) ==
    /\ At(s, "look") /\ s \in Sessions
    /\ Becomes(s, [NoProcess(s, "watch") EXCEPT
                      !.at = IF proc[s].revoked \/ Bars(state, s) THEN "mark" ELSE "tick",
                      !.dead = proc[s].dead])
    /\ UNCHANGED <<server, state, mark, work, ghosts>>

\* writeLocalRevoked, by the watcher or by the launcher, and the kill, which come
\* whether the mark could be written or not.  No end is posted.
MarkOpen(s) ==
    /\ At(s, "mark")
    /\ mark' = Garbled
    /\ Goto(s, "marking")
    /\ UNCHANGED <<server, state, work, ghosts>>

\* A file removed meanwhile is gone, unless the removal failed because it was open.
MarkWrite(s) ==
    /\ \/ At(s, "mark") /\ UNCHANGED mark
       \/ /\ At(s, "marking")
          /\ mark' \in {"whole", mark} \cup (IF mark = NoFile THEN {} ELSE {Garbled})
    /\ Down(s) /\ Gone(s)
    /\ unreported' = unreported \cup {s}
    /\ UNCHANGED <<server, state, everBarred>>

WatchStep(s) ==
    \/ WatchEnroll(s) \/ WatchTick(s) \/ WatchEnd(s) \/ WatchBeat(s) \/ WatchBeatLost(s)
    \/ WatchStop(s) \/ WatchLook(s) \/ MarkOpen(s) \/ MarkWrite(s)

-----------------------------------------------------------------------------
(***************************************************************************)
(* Hooks and commands.  A tool call is a hook, which runs bapedge check    *)
(* and has the call replaced by bapedge exec; a command may also be given  *)
(* to bapedge exec directly, or to the MCP server (executeCommand), which  *)
(* asks the policy and nobody else.                                        *)
(***************************************************************************)
Arrives(c, s, kind, place) ==
    /\ At(c, "none") /\ work[s] = "up"
    /\ Becomes(c, [NoProcess(s, kind) EXCEPT !.at = place])
    /\ UNCHANGED <<server, state, mark, work, ghosts>>

HookArrives(c, s) == \E kind \in {"prompt", "check"} : Arrives(c, s, kind, "hook")
ExecArrives(c, s) == Arrives(c, s, "exec", "fetch")
McpArrives(c, s) == Arrives(c, s, "mcp", "run")

\* outputDecision("deny") of a tool call; outputPromptBlocked kills the parent.
Deny(c) ==
    /\ Gone(c)
    /\ IF proc[c].kind = "prompt" THEN Down(proc[c].s) ELSE UNCHANGED work

\* isSessionRevoked: a mark, parsable or not, then the state file.
HookLocal(c) ==
    /\ At(c, "hook")
    /\ IF mark # NoFile \/ Bars(state, proc[c].s) THEN Deny(c)
       ELSE Goto(c, "ask") /\ UNCHANGED work
    /\ UNCHANGED <<server, state, mark, ghosts>>

HookPassed(c) == Goto(c, IF proc[c].kind = "prompt" THEN "prompt" ELSE "fetch")

HookAsk(c) ==
    /\ At(c, "ask")
    /\ \/ IF RemotelyRevoked(proc[c].s) THEN Deny(c) ELSE HookPassed(c) /\ UNCHANGED work
       \/ HookPassed(c) /\ UNCHANGED work
    /\ UNCHANGED <<server, state, mark, ghosts>>

\* handleSessionPrompt answers 403, or anything else, or not in time.
HookPrompt(c) ==
    LET s == proc[c].s IN
    /\ At(c, "prompt")
    /\ \/ /\ sess[s] = "revoked" \/ (Known(s) /\ userRevoked)
          /\ Deny(c)
       \/ Gone(c) /\ UNCHANGED work
    /\ UNCHANGED <<server, state, mark, ghosts>>

\* The exit of a command transmits an event, denied or not (exec.go,
\* executeCommand), and handleAuditIngest records it.
Transmit(s) ==
    \/ UNCHANGED <<sess, unreported>>
    \/ /\ Recorded(s)
       /\ unreported' = IF sess[s] # "revoked" /\ (~Watched(s) \/ Leaving(s))
                        THEN unreported \cup {s} ELSE unreported

\* CheckSessionRevocation, and then the policy.
CommandLook(c) ==
    LET s == proc[c].s IN
    /\ At(c, "look") /\ c \in Commands
    /\ \/ Gone(c) /\ Transmit(s)
       \/ /\ ~Bars(state, s) /\ proc[c].kind = "exec"
          /\ Goto(c, "run") /\ UNCHANGED <<sess, unreported>>
       \/ /\ ~Bars(state, s) /\ proc[c].kind = "check"
          /\ Becomes(c, [NoProcess(s, "exec") EXCEPT !.at = "fetch"])
          /\ Transmit(s)
    /\ UNCHANGED <<userRevoked, kill, state, mark, work, everBarred>>

\* RunSandboxedCommandWithExitCode, and the exit.
CommandRun(c) ==
    /\ At(c, "run")
    /\ Gone(c) /\ Transmit(proc[c].s)
    /\ UNCHANGED <<userRevoked, kill, state, mark, work, everBarred>>

CommandStep(c) ==
    \/ HookLocal(c) \/ HookAsk(c) \/ HookPrompt(c) \/ CommandLook(c) \/ CommandRun(c)

-----------------------------------------------------------------------------
\* A process is killed between two of its steps, and leaves the files as they
\* are.
Dies(p) ==
    /\ ~At(p, "none") /\ ~At(p, "hookstart")
    /\ Gone(p)
    /\ unreported' = unreported \cup ({p} \cap Sessions)
    /\ UNCHANGED <<server, state, mark, work, everBarred>>

Administrator ==
    \/ \E on \in BOOLEAN : SetKillSwitch(on)
    \/ RevokeUser
    \/ Restore({})
    \/ \E s \in Sessions : Restore({s}) \/ Stop(s)

Launch(s) ==
    \/ LaunchArrives(s) \/ Preflight(s) \/ PreflightLost(s)
    \/ HookStart(s) \/ HookLaunch(s) \/ HookEnroll(s)

Next ==
    \/ Administrator
    \/ \E s \in Sessions : Launch(s) \/ Exit(s) \/ SessionEnd(s) \/ WatchStep(s)
    \/ \E p \in Processes : SyncStep(p) \/ Dies(p)
    \/ \E c \in Commands :
           \/ \E s \in Sessions : HookArrives(c, s) \/ ExecArrives(c, s) \/ McpArrives(c, s)
           \/ CommandStep(c)

Spec == Init /\ [][Next]_vars

-----------------------------------------------------------------------------
(***************************************************************************)
(* A watcher ticks every two seconds; the control plane is reached and the *)
(* state file written now and then; and not every look of a watcher falls  *)
(* into the moment in which another process rewrites the file.             *)
(***************************************************************************)
LookReadable(s) == state \notin Unreadable /\ WatchLook(s)

Fairness ==
    \A s \in Sessions :
        /\ WF_vars(WatchStep(s) \/ SyncStep(s))
        /\ SF_vars(WatchBeat(s)) /\ SF_vars(FetchAnswered(s))
        /\ SF_vars(SyncOpen(s)) /\ SF_vars(SyncWrite(s)) /\ SF_vars(LookReadable(s))

FairSpec == Spec /\ Fairness

-----------------------------------------------------------------------------
(***************************************************************************)
(* Properties.                                                             *)
(***************************************************************************)

\* The answer a command fetches reaches it only through the file: told to stop,
\* it runs only if its own write failed, or another process has truncated or
\* written the file before it looked.
ToldCommandStops ==
    \A c \in Commands : At(c, "run") /\ Bars(proc[c].told, proc[c].s) => proc[c].spoiled

\* "Future sessions by this user are permitted", says the answer to a stop: only
\* a revocation or the kill switch ever leaves the mark.
StopLeavesNoMark == mark # NoFile => everBarred

\* A session that no watcher looks after is not active, though the watcher may
\* bring a session back that was ended, and restores and events a session that
\* is about to end.  Excepted are a session whose last report was lost, or whose
\* watcher was killed or had a mark to write; and one that a restore or a late
\* event has made active after its watcher left, or while it was about to stop.
EndIsReported ==
    \A s \in Sessions : ~Watched(s) /\ s \notin unreported => sess[s] # "active"

Supervised(s) == work[s] = "up" /\ Watched(s)

\* A workload does not run for ever beside its watcher while its session is
\* closed, or revoked, or the fleet frozen, whatever stale answers other
\* processes write into the file.
StoppedIsKilled ==
    \A s \in Sessions :
        /\ ~<>[](Supervised(s) /\ kill)
        /\ ~<>[](Supervised(s) /\ sess[s] \in {"closed", "revoked"})
=============================================================================
