-------------------------- MODULE WorkstationProofs --------------------------
(***************************************************************************)
(* Workstation is type correct, and its three invariants hold, for any     *)
(* number of sessions, watchers and commands on the same two files.        *)
(*                                                                         *)
(* EndIsReported holds of a session whose watcher is about to stop as well *)
(* (EndsKnown), since that watcher reports nothing.  ToldCommandStops      *)
(* needs to know what a command finds in the state file at its look, as    *)
(* long as nothing has spoiled what it wrote (FileKept).  StopLeavesNoMark *)
(* needs that, before anybody is barred, nothing barring is anywhere on    *)
(* its way: at the control plane, in a file, or in a process (Clean).      *)
(***************************************************************************)
EXTENDS Workstation, TLAPS

Kept(r, file) ==
    /\ r.at = "look" /\ r.told # NoAnswer /\ ~r.spoiled => file = r.told
    /\ r.at = "run" /\ Bars(r.told, r.s) => r.spoiled

FileKept == \A c \in Commands : Kept(proc[c], state)

EndsKnown ==
    \A s \in Sessions :
        (~Watched(s) \/ Leaving(s)) /\ s \notin unreported => sess[s] # "active"

Harmless == Unreadable \cup {NoAnswer, [kill |-> FALSE, sessions |-> {}]}

CleanProcess(r) == r.at \notin {"mark", "marking"} /\ ~r.revoked /\ r.told \in Harmless

CleanServer == ~kill /\ ~userRevoked /\ \A s \in Sessions : sess[s] # "revoked"

CleanAll ==
    /\ CleanServer
    /\ mark = NoFile /\ state \in Harmless
    /\ \A p \in Processes : CleanProcess(proc[p])

Clean == ~everBarred => CleanAll
-----------------------------------------------------------------------------
LEMMA NobodyTyped ==
    /\ \A s \in Sessions, kind \in Kinds \cup {"watch"} : NoProcess(s, kind) \in Process
    /\ \A p \in Processes : Nobody(p) \in Process
<1>1. \A s \in Sessions, kind \in Kinds \cup {"watch"} : NoProcess(s, kind) \in Process
    BY DEF NoProcess, Process, Places
<1>2. (CHOOSE s \in Sessions : TRUE) \in Sessions
    BY ProcessAssumption
<1>3. QED
    BY <1>1, <1>2 DEF Nobody, Kinds

LEMMA BecomesTyped ==
    ASSUME TypeOK, NEW p \in Processes, NEW new \in Process, Becomes(p, new)
    PROVE  proc' \in [Processes -> Process]
BY DEF TypeOK, Becomes

LEMMA GotoTyped ==
    ASSUME TypeOK, NEW p \in Processes, NEW place \in Places \ {"open", "write"}, Goto(p, place)
    PROVE  proc' \in [Processes -> Process]
<1>1. [proc[p] EXCEPT !.at = place] \in Process
    BY DEF TypeOK, Process
<1>2. QED
    BY <1>1, BecomesTyped DEF Goto

LEMMA GoneTyped ==
    ASSUME TypeOK, NEW p \in Processes, Gone(p)
    PROVE  proc' \in [Processes -> Process]
BY NobodyTyped, BecomesTyped DEF Gone

LEMMA RevocationsTyped ==
    ASSUME TypeOK
    PROVE  Revocations \in Answers
BY DEF TypeOK, Revocations, Answers

\* A process that other processes' work on the file is held against.
LEMMA TouchTyped ==
    ASSUME TypeOK, NEW p \in Processes, NEW new \in Process
    PROVE  Touch(p, new) \in [Processes -> Process]
BY DEF TypeOK, Touch, Process

LEMMA ToLookTyped ==
    ASSUME TypeOK, NEW p \in Processes, NEW b \in BOOLEAN
    PROVE  ToLook(p, b) \in Process
BY DEF TypeOK, ToLook, Process, Places, SyncPlaces
-----------------------------------------------------------------------------
(***************************************************************************)
(* Types.                                                                  *)
(***************************************************************************)
LEMMA TypeInit == Init => TypeOK
BY NobodyTyped DEF Init, TypeOK, Status, Unreadable, Marks

LEMMA AdministratorTypes ==
    ASSUME TypeOK, Administrator
    PROVE  TypeOK'
<1>1. CASE \E on \in BOOLEAN : SetKillSwitch(on)
    BY <1>1 DEF SetKillSwitch, TypeOK
<1>2. CASE RevokeUser
    BY <1>2 DEF RevokeUser, TypeOK, Status, Marks
<1>3. ASSUME NEW targets \in SUBSET Sessions, Restore(targets)
      PROVE  TypeOK'
  <2>1. sess' \in [Sessions -> Status]
      BY <1>3 DEF Restore, TypeOK, Status
  <2>2. unreported' \in SUBSET Sessions /\ mark' \in Marks
      BY <1>3 DEF Restore, TypeOK, Marks
  <2>3. QED
      BY <1>3, <2>1, <2>2 DEF Restore, TypeOK
<1>4. CASE \E s \in Sessions : Stop(s)
    BY <1>4 DEF Stop, Ended, TypeOK, Status
<1>5. QED
    BY <1>1, <1>2, <1>3, <1>4 DEF Administrator

LEMMA StartedTypes ==
    ASSUME TypeOK, NEW s \in Sessions, Started(s) \/ UNCHANGED sess
    PROVE  sess' \in [Sessions -> Status]
BY DEF TypeOK, Started, Status

LEMMA SpawnTypes ==
    ASSUME TypeOK, NEW s \in Sessions, NEW status \in {"starting", "up"}, Spawn(s, status)
    PROVE  /\ work' \in [Sessions -> {"down", "starting", "up"}]
           /\ proc' \in [Processes -> Process]
           /\ unreported' \in SUBSET Sessions
<1>1. Goto(s, "enroll") /\ s \in Processes /\ "enroll" \in Places
    BY DEF Spawn, Processes, Places, WatchPlaces
<1>2. proc' \in [Processes -> Process]
    BY <1>1, GotoTyped
<1>3. QED
    BY <1>2 DEF TypeOK, Spawn

LEMMA LaunchTypes ==
    ASSUME TypeOK, NEW s \in Sessions, Launch(s) \/ Exit(s) \/ SessionEnd(s)
    PROVE  TypeOK'
<1>0. s \in Processes /\ {"preflight", "mark", "hookstart", "enroll"} \subseteq Places
    BY DEF Processes, Places, LaunchPlaces, WatchPlaces
<1>1. CASE LaunchArrives(s)
    BY <1>0, <1>1, GotoTyped DEF LaunchArrives, server, ghosts, TypeOK
<1>2. CASE Preflight(s)
  <2>1. sess' \in [Sessions -> Status]
      BY <1>2, StartedTypes DEF Preflight
  <2>2. CASE Refused(s)
      BY <1>0, <1>2, <2>1, <2>2, GotoTyped DEF Preflight, TypeOK
  <2>3. CASE ~Refused(s)
      BY <1>2, <2>1, <2>3, SpawnTypes DEF Preflight, TypeOK
  <2>4. QED
      BY <2>2, <2>3
<1>3. CASE PreflightLost(s)
    BY <1>3, SpawnTypes DEF PreflightLost, server, TypeOK
<1>4. CASE HookStart(s)
    BY <1>4 DEF HookStart, server, ghosts, TypeOK
<1>5. CASE HookLaunch(s)
    BY <1>0, <1>5, GotoTyped DEF HookLaunch, server, ghosts, TypeOK
<1>6. CASE HookEnroll(s)
  <2>1. CASE Down(s) /\ Gone(s) /\ UNCHANGED <<sess, unreported>>
      BY <1>0, <1>6, <2>1, GoneTyped DEF HookEnroll, Down, TypeOK
  <2>2. CASE Spawn(s, "up") /\ (Started(s) \/ UNCHANGED sess)
      BY <1>6, <2>2, SpawnTypes, StartedTypes DEF HookEnroll, TypeOK
  <2>3. QED
      BY <1>6, <2>1, <2>2 DEF HookEnroll
<1>7. CASE Exit(s)
    BY <1>7 DEF Exit, Down, server, ghosts, TypeOK
<1>8. CASE SessionEnd(s)
    BY <1>8 DEF SessionEnd, Ended, TypeOK, Status
<1>9. QED
    BY <1>1, <1>2, <1>3, <1>4, <1>5, <1>6, <1>7, <1>8 DEF Launch

LEMMA SyncTypes ==
    ASSUME TypeOK, NEW p \in Processes, SyncStep(p)
    PROVE  TypeOK'
<1>1. CASE FetchAnswered(p)
  <2>1. [proc[p] EXCEPT !.told = Revocations, !.at = "open"] \in Process
      BY RevocationsTyped, FileAssumption DEF TypeOK, Process, Places, SyncPlaces
  <2>2. QED
      BY <1>1, <2>1, BecomesTyped DEF FetchAnswered, server, ghosts, TypeOK
<1>2. CASE FetchLost(p)
  <2>1. [proc[p] EXCEPT !.told = NoAnswer, !.at = "look"] \in Process
      BY DEF TypeOK, Process, Places, SyncPlaces
  <2>2. QED
      BY <1>2, <2>1, BecomesTyped DEF FetchLost, server, ghosts, TypeOK
<1>3. CASE SyncOpen(p)
  <2>1. [proc[p] EXCEPT !.at = "write"] \in Process
      BY <1>3 DEF SyncOpen, At, TypeOK, Process, Places, SyncPlaces
  <2>2. QED
      BY <1>3, <2>1, TouchTyped DEF SyncOpen, server, ghosts, TypeOK, Unreadable
<1>4. CASE SyncWrite(p)
  <2>1. ToLook(p, proc[p].spoiled) \in Process
      BY ToLookTyped DEF TypeOK, Process
  <2>2. proc[p].told \in Answers
      BY <1>4 DEF SyncWrite, At, TypeOK, Process
  <2>3. QED
      BY <1>4, <2>1, <2>2, TouchTyped DEF SyncWrite, server, ghosts, TypeOK
<1>5. CASE SyncFails(p)
    BY <1>5, ToLookTyped, TouchTyped, BecomesTyped
    DEF SyncFails, server, ghosts, TypeOK, Unreadable
<1>6. QED
    BY <1>1, <1>2, <1>3, <1>4, <1>5 DEF SyncStep

LEMMA WatchTypes ==
    ASSUME TypeOK, NEW s \in Sessions, WatchStep(s)
    PROVE  TypeOK'
<1>0. s \in Processes /\ {"tick", "stopping", "marking"} \subseteq Places
    BY DEF Processes, Places, WatchPlaces
<1>1. CASE WatchEnroll(s)
    BY <1>0, <1>1, GotoTyped, StartedTypes DEF WatchEnroll, ghosts, TypeOK
<1>2. CASE WatchTick(s)
  <2>1. [proc[s] EXCEPT
            !.dead = (work[s] = "down"),
            !.at = IF work[s] = "down" /\ proc[s].dead THEN "end" ELSE "beat"] \in Process
    <3>1. ASSUME NEW place \in {"end", "beat"}, NEW dead \in BOOLEAN
          PROVE  [proc[s] EXCEPT !.dead = dead, !.at = place] \in Process
        BY <1>0 DEF TypeOK, Process, Places, WatchPlaces
    <3>2. QED
        BY <3>1
  <2>2. QED
      BY <1>0, <1>2, <2>1, BecomesTyped DEF WatchTick, server, ghosts, TypeOK
<1>3. CASE WatchEnd(s)
  <2>1. sess' \in [Sessions -> Status] /\ unreported' \in SUBSET Sessions
      BY <1>3 DEF WatchEnd, Ended, TypeOK, Status
  <2>2. QED
      BY <1>0, <1>3, <2>1, GoneTyped DEF WatchEnd, TypeOK
<1>4. CASE WatchBeat(s)
  <2>1. [proc[s] EXCEPT !.revoked = (HeartbeatStatus(s) = "revoked"), !.at = "fetch"]
          \in Process
      BY <1>0 DEF TypeOK, Process, Places, SyncPlaces
  <2>2. QED
      BY <1>0, <1>4, <2>1, BecomesTyped, GotoTyped DEF WatchBeat, server, ghosts, TypeOK
<1>5. CASE WatchBeatLost(s)
  <2>1. [proc[s] EXCEPT !.revoked = FALSE, !.at = "fetch"] \in Process
      BY <1>0 DEF TypeOK, Process, Places, SyncPlaces
  <2>2. QED
      BY <1>0, <1>5, <2>1, BecomesTyped DEF WatchBeatLost, server, ghosts, TypeOK
<1>6. CASE WatchLook(s)
  <2>1. [NoProcess(s, "watch") EXCEPT
            !.at = IF proc[s].revoked \/ Bars(state, s) THEN "mark" ELSE "tick",
            !.dead = proc[s].dead] \in Process
    <3>1. proc[s].dead \in BOOLEAN
        BY <1>0 DEF TypeOK, Process
    <3>2. NoProcess(s, "watch") \in Process
        BY NobodyTyped
    <3>3. QED
        BY <3>1, <3>2 DEF Process, Places, WatchPlaces
  <2>2. QED
      BY <1>0, <1>6, <2>1, BecomesTyped DEF WatchLook, server, ghosts, TypeOK
<1>7. CASE MarkOpen(s)
    BY <1>0, <1>7, GotoTyped DEF MarkOpen, server, ghosts, TypeOK, Marks
<1>8. CASE MarkWrite(s)
    BY <1>0, <1>8, GoneTyped DEF MarkWrite, Down, server, TypeOK, Marks
<1>9. CASE WatchStop(s)
    BY <1>0, <1>9, GoneTyped DEF WatchStop, Down, server, ghosts, TypeOK
<1>10. QED
    BY <1>1, <1>2, <1>3, <1>4, <1>5, <1>6, <1>7, <1>8, <1>9 DEF WatchStep

LEMMA ArrivalTypes ==
    ASSUME TypeOK, NEW c \in Commands, NEW s \in Sessions,
           HookArrives(c, s) \/ ExecArrives(c, s) \/ McpArrives(c, s)
    PROVE  TypeOK'
<1>1. PICK kind \in Kinds, place \in {"hook", "fetch", "run"} : Arrives(c, s, kind, place)
    BY DEF HookArrives, ExecArrives, McpArrives, Kinds
<1>2. [NoProcess(s, kind) EXCEPT !.at = place] \in Process
    BY NobodyTyped DEF Process, Places, SyncPlaces, HookPlaces
<1>3. QED
    BY <1>1, <1>2, BecomesTyped DEF Arrives, Processes, server, ghosts, TypeOK

\* A command that is denied or done is gone; a blocked prompt takes its workload
\* along.
LEMMA DenyTypes ==
    ASSUME TypeOK, NEW c \in Commands, Deny(c) \/ (Gone(c) /\ UNCHANGED work)
    PROVE  /\ proc' \in [Processes -> Process]
           /\ work' \in [Sessions -> {"down", "starting", "up"}]
<1>1. c \in Processes
    BY DEF Processes
<1>2. QED
    BY <1>1, GoneTyped DEF Deny, Down, TypeOK

\* The event of a command is recorded, or lost.
LEMMA TransmitTypes ==
    ASSUME TypeOK, NEW c \in Processes, Transmit(proc[c].s)
    PROVE  sess' \in [Sessions -> Status] /\ unreported' \in SUBSET Sessions
<1>1. proc[c].s \in Sessions
    BY DEF TypeOK, Process
<1>2. QED
    BY <1>1 DEF TypeOK, Transmit, Recorded, Status

LEMMA CommandTypes ==
    ASSUME TypeOK, NEW c \in Commands, CommandStep(c)
    PROVE  TypeOK'
<1>0. c \in Processes /\ {"ask", "prompt", "fetch", "run"} \subseteq Places
    BY DEF Processes, Places, SyncPlaces, HookPlaces
<1>1. CASE HookLocal(c)
    BY <1>0, <1>1, DenyTypes, GotoTyped DEF HookLocal, server, ghosts, TypeOK
<1>2. CASE HookAsk(c)
  <2>1. CASE HookPassed(c) /\ UNCHANGED work
      BY <1>0, <1>2, <2>1, GotoTyped DEF HookAsk, HookPassed, server, ghosts, TypeOK
  <2>2. CASE Deny(c)
      BY <1>2, <2>2, DenyTypes DEF HookAsk, server, ghosts, TypeOK
  <2>3. QED
      BY <1>2, <2>1, <2>2 DEF HookAsk
<1>3. CASE HookPrompt(c)
    BY <1>3, DenyTypes DEF HookPrompt, server, ghosts, TypeOK
<1>4. CASE CommandLook(c)
  <2>1. [NoProcess(proc[c].s, "exec") EXCEPT !.at = "fetch"] \in Process
      BY <1>0, NobodyTyped DEF TypeOK, Process, Kinds
  <2>2. proc' \in [Processes -> Process]
      BY <1>0, <1>4, <2>1, GoneTyped, GotoTyped, BecomesTyped DEF CommandLook
  <2>3. sess' \in [Sessions -> Status] /\ unreported' \in SUBSET Sessions
      BY <1>0, <1>4, TransmitTypes DEF CommandLook, TypeOK
  <2>4. QED
      BY <1>4, <2>2, <2>3 DEF CommandLook, TypeOK
<1>5. CASE CommandRun(c)
  <2>1. sess' \in [Sessions -> Status] /\ unreported' \in SUBSET Sessions
      BY <1>0, <1>5, TransmitTypes DEF CommandRun
  <2>2. QED
      BY <1>0, <1>5, <2>1, GoneTyped DEF CommandRun, TypeOK
<1>6. QED
    BY <1>1, <1>2, <1>3, <1>4, <1>5 DEF CommandStep

LEMMA DeathTypes ==
    ASSUME TypeOK, NEW p \in Processes, Dies(p)
    PROVE  TypeOK'
BY GoneTyped DEF Dies, server, TypeOK

LEMMA TypeStep == TypeOK /\ [Next]_vars => TypeOK'
<1>1. SUFFICES ASSUME TypeOK, [Next]_vars
               PROVE  TypeOK'
    OBVIOUS
<1>2. CASE UNCHANGED vars
    BY <1>1, <1>2 DEF vars, server, ghosts, TypeOK
<1>3. CASE Next
    BY <1>1, <1>3, AdministratorTypes, LaunchTypes, WatchTypes, SyncTypes, DeathTypes,
       ArrivalTypes, CommandTypes DEF Next
<1>4. QED
    BY <1>1, <1>2, <1>3

\* The workstation is type correct for any sessions and commands.
THEOREM TypeCorrect == Spec => []TypeOK
BY TypeInit, TypeStep, PTL DEF Spec

-----------------------------------------------------------------------------
(***************************************************************************)
(* EndIsReported.                                                          *)
(***************************************************************************)
\* A step that leaves the control plane and the ghosts alone keeps the property
\* if nobody stops watching.
LEMMA StillWatched ==
    ASSUME TypeOK, EndsKnown, UNCHANGED <<sess, unreported>>,
           \A s \in Sessions : Watched(s) => Watched(s)',
           \A s \in Sessions : Leaving(s)' => Leaving(s)
    PROVE  EndsKnown'
BY DEF EndsKnown

LEMMA AdministratorReports ==
    ASSUME TypeOK, EndsKnown, Administrator
    PROVE  EndsKnown'
<1>1. CASE \E on \in BOOLEAN : SetKillSwitch(on)
    BY <1>1 DEF SetKillSwitch, EndsKnown, Watched, Leaving, At
<1>2. CASE RevokeUser
    BY <1>2 DEF RevokeUser, EndsKnown
<1>3. ASSUME NEW targets \in SUBSET Sessions, Restore(targets)
      PROVE  EndsKnown'
    BY <1>3 DEF Restore, EndsKnown, Watched, Leaving, At, TypeOK
<1>4. CASE \E s \in Sessions : Stop(s)
    BY <1>4 DEF Stop, Ended, EndsKnown, Watched, Leaving, At, TypeOK
<1>5. QED
    BY <1>1, <1>2, <1>3, <1>4 DEF Administrator

LEMMA LaunchReports ==
    ASSUME TypeOK, EndsKnown, NEW s \in Sessions, Launch(s) \/ Exit(s) \/ SessionEnd(s)
    PROVE  EndsKnown'
<1> USE DEF Watched, Leaving, At
<1>0. s \in Processes
    BY DEF Processes
<1>1. CASE LaunchArrives(s)
    BY <1>0, <1>1 DEF LaunchArrives, Goto, Becomes, server, ghosts, EndsKnown, TypeOK, Process
<1>2. CASE Preflight(s)
  <2>1. proc'[s].at \in {"mark", "enroll"} /\ \A t \in Sessions \ {s} : proc'[t] = proc[t]
      BY <1>0, <1>2 DEF Preflight, Spawn, Goto, Becomes, TypeOK, Process, Processes
  <2>2. unreported \subseteq unreported' \cup {s} /\ \A t \in Sessions \ {s} : sess'[t] = sess[t]
      BY <1>2 DEF Preflight, Started, Spawn, TypeOK
  <2>3. QED
      BY <2>1, <2>2 DEF EndsKnown
<1>3. CASE PreflightLost(s)
    BY <1>0, <1>3 DEF PreflightLost, Spawn, Goto, Becomes, server, EndsKnown, TypeOK, Process
<1>4. CASE HookStart(s)
    BY <1>4 DEF HookStart, server, ghosts, EndsKnown
<1>5. CASE HookLaunch(s)
    BY <1>0, <1>5 DEF HookLaunch, Goto, Becomes, server, ghosts, EndsKnown, TypeOK, Process
<1>6. CASE HookEnroll(s)
  <2>1. CASE Gone(s) /\ UNCHANGED <<sess, unreported>>
      BY <1>0, <1>6, <2>1 DEF HookEnroll, Gone, Becomes, EndsKnown, TypeOK, Process
  <2>2. CASE Spawn(s, "up") /\ (Started(s) \/ UNCHANGED sess)
      BY <1>0, <1>6, <2>2 DEF HookEnroll, Started, Spawn, Goto, Becomes, EndsKnown, TypeOK, Process
  <2>3. QED
      BY <1>6, <2>1, <2>2 DEF HookEnroll
<1>7. CASE Exit(s)
    BY <1>7 DEF Exit, server, ghosts, EndsKnown
<1>8. CASE SessionEnd(s)
    BY <1>8 DEF SessionEnd, Ended, EndsKnown, TypeOK
<1>9. QED
    BY <1>1, <1>2, <1>3, <1>4, <1>5, <1>6, <1>7, <1>8 DEF Launch

LEMMA SyncReports ==
    ASSUME TypeOK, EndsKnown, NEW p \in Processes, SyncStep(p)
    PROVE  EndsKnown'
<1> USE DEF Watched, Leaving, At, server, ghosts, EndsKnown, TypeOK, Process
<1>0. Sessions \subseteq Processes
    BY DEF Processes
<1>1. CASE FetchAnswered(p)
    BY <1>0, <1>1 DEF FetchAnswered, Becomes
<1>2. CASE FetchLost(p)
    BY <1>0, <1>2 DEF FetchLost, Becomes
<1>3. CASE SyncOpen(p)
    BY <1>0, <1>3 DEF SyncOpen, Touch
<1>4. CASE SyncWrite(p)
    BY <1>0, <1>4 DEF SyncWrite, Touch, ToLook
<1>5. CASE SyncFails(p)
  <2>1. \A s \in Sessions : proc'[s].at = proc[s].at \/ (s = p /\ proc'[s].at = "look")
    <3>1. CASE Becomes(p, ToLook(p, TRUE))
        BY <1>0, <3>1 DEF Becomes, ToLook
    <3>2. CASE proc' = Touch(p, ToLook(p, TRUE))
        BY <1>0, <3>2 DEF Touch, ToLook
    <3>3. QED
        BY <1>5, <3>1, <3>2 DEF SyncFails
  <2>2. proc[p].at \in {"open", "write"} /\ UNCHANGED <<sess, unreported>>
      BY <1>5 DEF SyncFails
  <2>3. QED
      BY <2>1, <2>2
<1>6. QED
    BY <1>1, <1>2, <1>3, <1>4, <1>5 DEF SyncStep

LEMMA WatchReports ==
    ASSUME TypeOK, EndsKnown, NEW s \in Sessions, WatchStep(s)
    PROVE  EndsKnown'
<1> USE DEF Watched, Leaving, At, server, ghosts, EndsKnown, TypeOK, Process
<1>0. Sessions \subseteq Processes
    BY DEF Processes
<1>1. CASE WatchEnroll(s)
    BY <1>0, <1>1 DEF WatchEnroll, Started, Goto, Becomes
<1>2. CASE WatchTick(s)
    BY <1>0, <1>2 DEF WatchTick, Becomes
<1>3. CASE WatchEnd(s)
    BY <1>0, <1>3 DEF WatchEnd, Ended, Gone, Becomes
<1>4. CASE WatchBeat(s)
  <2>1. HeartbeatStatus(s) = "closed" => sess[s] = "closed"
      BY DEF HeartbeatStatus
  <2>2. CASE HeartbeatStatus(s) = "closed"
      BY <1>0, <1>4, <2>1, <2>2 DEF WatchBeat, Goto, Becomes
  <2>3. CASE HeartbeatStatus(s) # "closed"
    <3>1. proc'[s].at = "fetch" /\ \A t \in Sessions \ {s} : proc'[t] = proc[t]
      <4>1. ASSUME NEW b, Becomes(s, [proc[s] EXCEPT !.revoked = b, !.at = "fetch"])
            PROVE  proc'[s].at = "fetch" /\ \A t \in Sessions \ {s} : proc'[t] = proc[t]
          BY <1>0, <4>1 DEF Becomes
      <4>2. Becomes(s, [proc[s] EXCEPT !.revoked = (HeartbeatStatus(s) = "revoked"), !.at = "fetch"])
          BY <1>4, <2>3 DEF WatchBeat
      <4>3. QED
          BY <4>1, <4>2
    <3>2. UNCHANGED <<sess, unreported>> /\ proc[s].at = "beat"
        BY <1>4 DEF WatchBeat
    <3>3. QED
        BY <3>1, <3>2
  <2>4. QED
      BY <2>2, <2>3
<1>5. CASE WatchBeatLost(s)
    BY <1>0, <1>5 DEF WatchBeatLost, Becomes
<1>6. CASE WatchLook(s)
  <2>1. proc'[s].at \in {"mark", "tick"} /\ \A t \in Sessions \ {s} : proc'[t] = proc[t]
      BY <1>0, <1>6 DEF WatchLook, NoProcess, Becomes
  <2>2. QED
      BY <1>6, <2>1 DEF WatchLook
<1>7. CASE MarkOpen(s)
    BY <1>0, <1>7 DEF MarkOpen, Goto, Becomes
<1>8. CASE MarkWrite(s)
    BY <1>0, <1>8 DEF MarkWrite, Gone, Becomes
<1>9. CASE WatchStop(s)
    BY <1>0, <1>9 DEF WatchStop, Nobody, NoProcess, Gone, Becomes
<1>10. QED
    BY <1>1, <1>2, <1>3, <1>4, <1>5, <1>6, <1>7, <1>8, <1>9 DEF WatchStep

LEMMA CommandReports ==
    ASSUME TypeOK, EndsKnown, NEW c \in Commands,
           \/ \E s \in Sessions : HookArrives(c, s) \/ ExecArrives(c, s) \/ McpArrives(c, s)
           \/ CommandStep(c)
    PROVE  EndsKnown'
<1>0. c \in Processes /\ proc[c].s \in Sessions
    BY DEF Processes, TypeOK, Process
<1>1. UNCHANGED <<sess, unreported>> \/ Transmit(proc[c].s)
    BY DEF HookArrives, ExecArrives, McpArrives, Arrives, CommandStep, HookLocal, HookAsk,
       HookPrompt, CommandLook, CommandRun, server, ghosts
<1>2. \E new : Becomes(c, new)
    BY DEF HookArrives, ExecArrives, McpArrives, Arrives, CommandStep, HookLocal, HookAsk,
       HookPrompt, HookPassed, CommandLook, CommandRun, Deny, Gone, Goto
<1>3. \A s \in Sessions : proc'[s] = proc[s]
    BY <1>2, ProcessAssumption DEF Becomes, Processes, TypeOK
<1>4. CASE UNCHANGED <<sess, unreported>>
    BY <1>3, <1>4, StillWatched DEF Watched, Leaving, At
<1>5. CASE Transmit(proc[c].s)
    BY <1>0, <1>3, <1>5 DEF Transmit, Recorded, EndsKnown, Watched, Leaving, At, TypeOK
<1>6. QED
    BY <1>1, <1>4, <1>5

LEMMA DeathReports ==
    ASSUME TypeOK, EndsKnown, NEW p \in Processes, Dies(p)
    PROVE  EndsKnown'
BY ProcessAssumption
DEF Dies, Gone, Becomes, Nobody, NoProcess, server, EndsKnown, Watched, Leaving, At, Processes, TypeOK

LEMMA ReportStep == TypeOK /\ EndsKnown /\ [Next]_vars => EndsKnown'
<1>1. SUFFICES ASSUME TypeOK, EndsKnown, [Next]_vars
               PROVE  EndsKnown'
    OBVIOUS
<1>2. CASE UNCHANGED vars
    BY <1>1, <1>2 DEF vars, server, ghosts, EndsKnown, Watched, Leaving, At
<1>3. CASE Next
    BY <1>1, <1>3, AdministratorReports, LaunchReports, WatchReports, SyncReports,
       DeathReports, CommandReports DEF Next
<1>4. QED
    BY <1>1, <1>2, <1>3

\* A session that nobody watches any more is not active, whatever brought it
\* back while it was watched: the watcher's own start, a launch, an event.  What
\* brings it back for good are a lost report, a killed watcher, a restore and a
\* late event.
THEOREM EndsAreReported == Spec => []EndIsReported
<1>1. Init => EndsKnown
    BY DEF Init, EndsKnown
<1>2. EndsKnown => EndIsReported
    BY DEF EndsKnown, EndIsReported
<1>3. QED
    BY <1>1, <1>2, ReportStep, TypeCorrect, PTL DEF Spec

-----------------------------------------------------------------------------
(***************************************************************************)
(* ToldCommandStops.                                                       *)
(***************************************************************************)
\* A step that leaves the file alone, and one process with a record that is kept.
LEMMA BecomesKept ==
    ASSUME TypeOK, FileKept, NEW p \in Processes, NEW new, Becomes(p, new),
           UNCHANGED state, p \in Commands => Kept(new, state)
    PROVE  FileKept'
BY DEF TypeOK, FileKept, Becomes, Processes

LEMMA GoneKept ==
    ASSUME TypeOK, FileKept, NEW p \in Processes, Gone(p), UNCHANGED state
    PROVE  FileKept'
<1>1. Kept(Nobody(p), state)
    BY DEF Nobody, NoProcess, Kept
<1>2. QED
    BY <1>1, BecomesKept DEF Gone

LEMMA GotoKept ==
    ASSUME TypeOK, FileKept, NEW p \in Processes, NEW place \in Places \ {"look", "run"},
           Goto(p, place), UNCHANGED state
    PROVE  FileKept'
<1>1. [proc[p] EXCEPT !.at = place].at = place
    BY DEF TypeOK, Process
<1>2. Kept([proc[p] EXCEPT !.at = place], state)
    BY <1>1 DEF Kept
<1>3. QED
    BY <1>2, BecomesKept DEF Goto

\* Of the steps of sessions only those that write the file concern a command.
LEMMA OthersKept ==
    ASSUME TypeOK, FileKept, UNCHANGED state, \A c \in Commands : proc'[c] = proc[c]
    PROVE  FileKept'
BY DEF FileKept

LEMMA AdministratorKept ==
    ASSUME FileKept, Administrator
    PROVE  FileKept'
BY DEF Administrator, SetKillSwitch, RevokeUser, Restore, Stop, FileKept

LEMMA SessionKept ==
    ASSUME TypeOK, FileKept, NEW s \in Sessions,
           Launch(s) \/ Exit(s) \/ SessionEnd(s) \/ WatchStep(s)
    PROVE  FileKept'
<1>1. UNCHANGED state
    BY DEF Launch, LaunchArrives, Preflight, PreflightLost, HookStart, HookLaunch,
       HookEnroll, Exit, SessionEnd, WatchStep, WatchEnroll, WatchTick, WatchEnd, WatchBeat,
       WatchBeatLost, WatchStop, WatchLook, MarkOpen, MarkWrite
<1>2. UNCHANGED proc \/ \E new : Becomes(s, new)
    BY DEF Launch, LaunchArrives, Preflight, PreflightLost, HookStart, HookLaunch,
       HookEnroll, Spawn, Exit, SessionEnd, WatchStep, WatchEnroll, WatchTick, WatchEnd,
       WatchBeat, WatchBeatLost, WatchStop, WatchLook, MarkOpen, MarkWrite, Gone, Goto
<1>3. \A c \in Commands : proc'[c] = proc[c]
    BY <1>2, ProcessAssumption DEF Becomes, TypeOK, Processes
<1>4. QED
    BY <1>1, <1>3, OthersKept

\* What a process writes spoils what the others wrote.
LEMMA TouchKept ==
    ASSUME TypeOK, FileKept, NEW p \in Processes, NEW new, proc' = Touch(p, new),
           p \in Commands => Kept(new, state')
    PROVE  FileKept'
<1>1. ASSUME NEW c \in Commands, c # p
      PROVE  Kept(proc'[c], state')
  <2>1. c \in Processes /\ proc[c] \in Process /\ Kept(proc[c], state)
      BY DEF TypeOK, FileKept, Processes
  <2>2. proc'[c] = [proc[c] EXCEPT !.spoiled = @ \/ (proc[c].at \in {"write", "look"}
                                                   /\ proc[c].told # NoAnswer)]
      BY <1>1, <2>1 DEF Touch
  <2>3. QED
      BY <2>1, <2>2 DEF Kept, Process
<1>2. p \in Commands => proc'[p] = new
    BY DEF Touch
<1>3. QED
    BY <1>1, <1>2 DEF FileKept

LEMMA SyncKept ==
    ASSUME TypeOK, FileKept, NEW p \in Processes, SyncStep(p)
    PROVE  FileKept'
<1>0. proc[p] \in Process
    BY DEF TypeOK
<1>1. CASE FetchAnswered(p)
  <2>1. Kept([proc[p] EXCEPT !.told = Revocations, !.at = "open"], state)
      BY <1>0 DEF Kept, Process
  <2>2. QED
      BY <1>1, <2>1, BecomesKept DEF FetchAnswered
<1>2. CASE FetchLost(p)
  <2>1. Kept([proc[p] EXCEPT !.told = NoAnswer, !.at = "look"], state)
      BY <1>0 DEF Kept, Process
  <2>2. QED
      BY <1>2, <2>1, BecomesKept DEF FetchLost
<1>3. CASE SyncOpen(p)
  <2>1. Kept([proc[p] EXCEPT !.at = "write"], state')
      BY <1>0 DEF Kept, Process
  <2>2. QED
      BY <1>3, <2>1, TouchKept DEF SyncOpen
<1>4. ASSUME p \in Commands, NEW spoiled \in BOOLEAN, NEW file,
             spoiled \/ file = proc[p].told
      PROVE  Kept(ToLook(p, spoiled), file)
    BY <1>0, <1>4 DEF ToLook, Kept, Process
<1>5. CASE SyncWrite(p)
  <2>1. proc[p].spoiled \in BOOLEAN /\ state' = proc[p].told
      BY <1>0, <1>5 DEF SyncWrite, Process
  <2>2. p \in Commands => Kept(ToLook(p, proc[p].spoiled), state')
      BY <1>4, <2>1
  <2>3. QED
      BY <1>5, <2>2, TouchKept DEF SyncWrite
<1>6. CASE SyncFails(p)
  <2>1. p \in Commands => Kept(ToLook(p, TRUE), state')
      BY <1>4
  <2>2. CASE Becomes(p, ToLook(p, TRUE)) /\ UNCHANGED state
      BY <2>1, <2>2, BecomesKept
  <2>3. CASE proc' = Touch(p, ToLook(p, TRUE))
      BY <2>1, <2>3, TouchKept
  <2>4. QED
      BY <1>6, <2>2, <2>3 DEF SyncFails
<1>7. QED
    BY <1>1, <1>2, <1>3, <1>5, <1>6 DEF SyncStep

LEMMA CommandKept ==
    ASSUME TypeOK, FileKept, NEW c \in Commands,
           \/ \E s \in Sessions : HookArrives(c, s) \/ ExecArrives(c, s) \/ McpArrives(c, s)
           \/ CommandStep(c)
    PROVE  FileKept'
<1>0. c \in Processes /\ {"ask", "prompt", "fetch"} \subseteq Places
    BY DEF Processes, Places, SyncPlaces, HookPlaces
<1>1. UNCHANGED state
    BY DEF HookArrives, ExecArrives, McpArrives, Arrives, CommandStep, HookLocal, HookAsk,
       HookPrompt, CommandLook, CommandRun, server
<1>2. CASE Gone(c) \/ \E place \in {"ask", "prompt", "fetch"} : Goto(c, place)
    BY <1>0, <1>1, <1>2, GoneKept, GotoKept
<1>3. ASSUME NEW s, NEW kind, NEW place,
             Becomes(c, [NoProcess(s, kind) EXCEPT !.at = place])
      PROVE  FileKept'
  <2>1. Kept([NoProcess(s, kind) EXCEPT !.at = place], state)
      BY <1>3 DEF NoProcess, Kept, Bars
  <2>2. QED
      BY <1>0, <1>1, <1>3, <2>1, BecomesKept
<1>4. CASE At(c, "look") /\ ~Bars(state, proc[c].s) /\ Goto(c, "run")
  <2>1. proc[c] \in Process /\ Kept(proc[c], state)
      BY <1>0 DEF TypeOK, FileKept
  <2>2. Bars(proc[c].told, proc[c].s) => proc[c].spoiled
      BY <1>4, <2>1 DEF At, Kept, Bars
  <2>3. Kept([proc[c] EXCEPT !.at = "run"], state)
      BY <2>1, <2>2 DEF Kept, Process
  <2>4. QED
      BY <1>0, <1>1, <1>4, <2>3, BecomesKept DEF Goto
<1>5. CASE CommandLook(c)
    BY <1>2, <1>3, <1>4, <1>5 DEF CommandLook
<1>6. CASE \E s \in Sessions : HookArrives(c, s) \/ ExecArrives(c, s) \/ McpArrives(c, s)
    BY <1>3, <1>6 DEF HookArrives, ExecArrives, McpArrives, Arrives
<1>7. QED
    BY <1>2, <1>5, <1>6 DEF CommandStep, HookLocal, HookAsk, HookPassed, HookPrompt, CommandRun,
       Deny

LEMMA KeptStep == TypeOK /\ FileKept /\ [Next]_vars => FileKept'
<1>1. SUFFICES ASSUME TypeOK, FileKept, [Next]_vars
               PROVE  FileKept'
    OBVIOUS
<1>2. CASE UNCHANGED vars
    BY <1>1, <1>2 DEF vars, FileKept
<1>3. ASSUME NEW p \in Processes, Dies(p)
      PROVE  FileKept'
    BY <1>1, <1>3, GoneKept DEF Dies
<1>4. CASE Next
    BY <1>1, <1>3, <1>4, AdministratorKept, SessionKept, SyncKept, CommandKept DEF Next
<1>5. QED
    BY <1>1, <1>2, <1>4

LEMMA KeptStopsCommands == FileKept => ToldCommandStops
BY DEF FileKept, Kept, ToldCommandStops, At, Processes

\* A command that fetched an answer which bars it runs only if its own write of
\* the answer failed, or another process has truncated or written the file since:
\* by itself it reads what it wrote.
THEOREM ToldCommandsStop == Spec => []ToldCommandStops
<1>1. Init => FileKept
    BY DEF Init, FileKept, Kept, Nobody, NoProcess, Processes
<1>2. QED
    BY <1>1, KeptStep, KeptStopsCommands, TypeCorrect, PTL DEF Spec

-----------------------------------------------------------------------------
(***************************************************************************)
(* StopLeavesNoMark.                                                       *)
(***************************************************************************)
LEMMA HarmlessBarsNobody ==
    ASSUME NEW s, NEW answer \in Harmless
    PROVE  ~Bars(answer, s)
BY FileAssumption DEF Harmless, Bars, Unreadable

LEMMA RevocationsHarmless ==
    ASSUME CleanServer, TypeOK
    PROVE  Revocations \in Harmless
BY DEF CleanServer, Revocations, Harmless, TypeOK

LEMMA NobodyClean ==
    ASSUME NEW s, NEW kind
    PROVE  CleanProcess(NoProcess(s, kind))
BY DEF CleanProcess, NoProcess, Harmless

LEMMA BecomesClean ==
    ASSUME TypeOK, CleanAll, NEW p \in Processes, NEW new, Becomes(p, new), CleanProcess(new)
    PROVE  \A q \in Processes : CleanProcess(proc'[q])
BY DEF TypeOK, CleanAll, Becomes

LEMMA GoneClean ==
    ASSUME TypeOK, CleanAll, NEW p \in Processes, Gone(p)
    PROVE  \A q \in Processes : CleanProcess(proc'[q])
<1>1. CleanProcess(Nobody(p))
    BY NobodyClean DEF Nobody
<1>2. QED
    BY <1>1, BecomesClean DEF Gone

LEMMA GotoClean ==
    ASSUME TypeOK, CleanAll, NEW p \in Processes, NEW place,
           place \notin {"mark", "marking"}, Goto(p, place)
    PROVE  \A q \in Processes : CleanProcess(proc'[q])
<1>1. CleanProcess(proc[p]) /\ proc[p] \in Process
    BY DEF CleanAll, TypeOK
<1>2. CleanProcess([proc[p] EXCEPT !.at = place])
    BY <1>1 DEF CleanProcess, Process
<1>3. QED
    BY <1>2, BecomesClean DEF Goto

LEMMA AdministratorClean ==
    ASSUME TypeOK, CleanAll, Administrator, ~everBarred'
    PROVE  CleanAll'
<1>1. CASE \E on \in BOOLEAN : SetKillSwitch(on)
    BY <1>1 DEF SetKillSwitch, CleanAll, CleanServer, CleanProcess, Harmless, TypeOK
<1>2. CASE RevokeUser
    BY <1>2 DEF RevokeUser
<1>3. ASSUME NEW targets \in SUBSET Sessions, Restore(targets)
      PROVE  CleanAll'
    BY <1>3 DEF Restore, CleanAll, CleanServer, CleanProcess, TypeOK
<1>4. CASE \E s \in Sessions : Stop(s)
    BY <1>4 DEF Stop, Ended, CleanAll, CleanServer, CleanProcess, TypeOK
<1>5. QED
    BY <1>1, <1>2, <1>3, <1>4 DEF Administrator

LEMMA LaunchClean ==
    ASSUME TypeOK, CleanAll, NEW s \in Sessions, Launch(s) \/ Exit(s) \/ SessionEnd(s)
    PROVE  CleanAll'
<1>0. s \in Processes
    BY DEF Processes
<1>1. ~Refused(s)
    BY DEF Refused, CleanAll, CleanServer
<1>2. UNCHANGED <<kill, userRevoked, mark, state>>
    BY DEF Launch, LaunchArrives, Preflight, PreflightLost, HookStart, HookLaunch,
       HookEnroll, Exit, SessionEnd, server
<1>3. \A t \in Sessions : sess'[t] # "revoked"
  <2>1. Started(s) \/ Ended(s) \/ UNCHANGED sess
      BY DEF Launch, LaunchArrives, Preflight, PreflightLost, HookStart, HookLaunch,
         HookEnroll, Exit, SessionEnd, server
  <2>2. QED
      BY <1>1, <2>1 DEF Started, Ended, CleanAll, CleanServer, TypeOK
<1>4. \/ UNCHANGED proc \/ Gone(s)
      \/ \E place \in {"preflight", "hookstart", "enroll"} : Goto(s, place)
    BY <1>1 DEF Launch, LaunchArrives, Preflight, PreflightLost, HookStart, HookLaunch,
       HookEnroll, Spawn, Exit, SessionEnd
<1>5. \A q \in Processes : CleanProcess(proc'[q])
    BY <1>0, <1>4, GoneClean, GotoClean DEF CleanAll
<1>6. QED
    BY <1>2, <1>3, <1>5 DEF CleanAll, CleanServer, CleanProcess

LEMMA SyncClean ==
    ASSUME TypeOK, CleanAll, NEW p \in Processes, SyncStep(p)
    PROVE  CleanAll'
<1>0. proc[p] \in Process /\ CleanProcess(proc[p]) /\ CleanServer
    BY DEF TypeOK, CleanAll
<1>1. UNCHANGED <<kill, userRevoked, sess, mark>>
    BY DEF SyncStep, FetchAnswered, FetchLost, SyncOpen, SyncWrite, SyncFails, server
<1>2. \A q \in Processes : CleanProcess(proc'[q])
  <2>1. CASE FetchAnswered(p)
    <3>1. CleanProcess([proc[p] EXCEPT !.told = Revocations, !.at = "open"])
        BY <1>0, RevocationsHarmless DEF CleanProcess, Process
    <3>2. QED
        BY <2>1, <3>1, BecomesClean DEF FetchAnswered
  <2>2. CASE FetchLost(p)
    <3>1. CleanProcess([proc[p] EXCEPT !.told = NoAnswer, !.at = "look"])
        BY <1>0 DEF CleanProcess, Process, Harmless
    <3>2. QED
        BY <2>2, <3>1, BecomesClean DEF FetchLost
  <2>3. ASSUME NEW new, CleanProcess(new), proc' = Touch(p, new)
        PROVE  \A q \in Processes : CleanProcess(proc'[q])
      BY <2>3 DEF Touch, CleanAll, CleanProcess, TypeOK, Process
  <2>4. CASE SyncOpen(p)
    <3>1. CleanProcess([proc[p] EXCEPT !.at = "write"])
        BY <1>0 DEF CleanProcess, Process
    <3>2. QED
        BY <2>3, <2>4, <3>1 DEF SyncOpen
  <2>5. ASSUME NEW b \in BOOLEAN
        PROVE  CleanProcess(ToLook(p, b))
      BY <1>0 DEF CleanProcess, ToLook, Process, Harmless
  <2>6. CASE SyncWrite(p)
    <3>1. CleanProcess(ToLook(p, proc[p].spoiled))
        BY <1>0, <2>5 DEF Process
    <3>2. QED
        BY <2>3, <2>6, <3>1 DEF SyncWrite
  <2>7. CASE SyncFails(p)
    <3>1. CleanProcess(ToLook(p, TRUE))
        BY <2>5
    <3>2. QED
        BY <2>3, <2>7, <3>1, BecomesClean DEF SyncFails
  <2>8. QED
      BY <2>1, <2>2, <2>4, <2>6, <2>7 DEF SyncStep
<1>3. state' \in Harmless
    BY <1>0 DEF SyncStep, FetchAnswered, FetchLost, SyncOpen, SyncWrite, SyncFails, CleanAll,
       CleanProcess, Harmless, Unreadable
<1>4. QED
    BY <1>1, <1>2, <1>3 DEF CleanAll, CleanServer, CleanProcess

LEMMA WatchClean ==
    ASSUME TypeOK, CleanAll, NEW s \in Sessions, WatchStep(s)
    PROVE  CleanAll'
<1>0. s \in Processes
    BY DEF Processes
<1>a. proc[s] \in Process /\ CleanProcess(proc[s])
    BY <1>0 DEF TypeOK, CleanAll
<1>1. ~At(s, "mark") /\ ~At(s, "marking") /\ ~Refused(s)
    BY <1>a DEF At, CleanProcess, Refused, CleanAll, CleanServer
<1>2. UNCHANGED <<kill, userRevoked, mark, state>>
    BY <1>1 DEF WatchStep, WatchEnroll, WatchTick, WatchEnd, WatchBeat, WatchBeatLost,
       WatchStop, WatchLook, MarkOpen, MarkWrite, server
<1>3. \A t \in Sessions : sess'[t] # "revoked"
  <2>1. Started(s) \/ Ended(s) \/ UNCHANGED sess
      BY <1>1 DEF WatchStep, WatchEnroll, WatchTick, WatchEnd, WatchBeat, WatchBeatLost,
         WatchStop, WatchLook, MarkOpen, MarkWrite, server
  <2>2. QED
      BY <1>1, <2>1 DEF Started, Ended, CleanAll, CleanServer, TypeOK
<1>4. \A q \in Processes : CleanProcess(proc'[q])
  <2>1. CASE Gone(s) \/ Goto(s, "tick") \/ Goto(s, "stopping")
      BY <1>0, <2>1, GoneClean, GotoClean
  <2>2. CASE WatchTick(s)
    <3> DEFINE new == [proc[s] EXCEPT
              !.dead = (work[s] = "down"),
              !.at = IF work[s] = "down" /\ proc[s].dead THEN "end" ELSE "beat"]
    <3>1. CleanProcess(new)
        BY <1>a DEF CleanProcess, Process
    <3>2. QED
        BY <1>0, <2>2, <3>1, BecomesClean DEF WatchTick
  <2>3. CASE Becomes(s, [proc[s] EXCEPT !.revoked = FALSE, !.at = "fetch"])
    <3>1. CleanProcess([proc[s] EXCEPT !.revoked = FALSE, !.at = "fetch"])
        BY <1>a DEF CleanProcess, Process
    <3>2. QED
        BY <1>0, <2>3, <3>1, BecomesClean
  <2>4. CASE WatchBeat(s)
    <3>1. HeartbeatStatus(s) # "revoked"
        BY DEF HeartbeatStatus, CleanAll, CleanServer
    <3>2. QED
        BY <2>1, <2>3, <2>4, <3>1 DEF WatchBeat
  <2>5. CASE WatchLook(s)
    <3> DEFINE new == [NoProcess(s, "watch") EXCEPT
              !.at = IF proc[s].revoked \/ Bars(state, s) THEN "mark" ELSE "tick",
              !.dead = proc[s].dead]
    <3>1. ~(proc[s].revoked \/ Bars(state, s))
        BY <1>a, HarmlessBarsNobody DEF CleanAll, CleanProcess
    <3>2. CleanProcess(new)
        BY <3>1 DEF CleanProcess, NoProcess, Harmless
    <3>3. QED
        BY <1>0, <2>5, <3>2, BecomesClean DEF WatchLook
  <2>6. QED
      BY <1>1, <2>1, <2>2, <2>3, <2>4, <2>5
      DEF WatchStep, WatchEnroll, WatchEnd, WatchBeatLost, WatchStop, MarkOpen, MarkWrite
<1>5. QED
    BY <1>2, <1>3, <1>4 DEF CleanAll, CleanServer, CleanProcess

LEMMA CommandClean ==
    ASSUME TypeOK, CleanAll, NEW c \in Commands,
           \/ \E s \in Sessions : HookArrives(c, s) \/ ExecArrives(c, s) \/ McpArrives(c, s)
           \/ CommandStep(c)
    PROVE  CleanAll'
<1>0. c \in Processes
    BY DEF Processes
<1>1. UNCHANGED <<kill, userRevoked, mark, state>> /\ (UNCHANGED sess \/ Recorded(proc[c].s))
    BY DEF HookArrives, ExecArrives, McpArrives, Arrives, CommandStep, HookLocal, HookAsk,
       HookPrompt, CommandLook, CommandRun, Transmit, server
<1>a. \A s \in Sessions : sess'[s] # "revoked"
    BY <1>1 DEF Recorded, CleanAll, CleanServer, TypeOK
<1>2. \/ Gone(c)
      \/ \E place \in {"ask", "prompt", "fetch", "run"} : Goto(c, place)
      \/ \E s, kind : \E place \in {"hook", "fetch", "run"} :
             Becomes(c, [NoProcess(s, kind) EXCEPT !.at = place])
    BY DEF HookArrives, ExecArrives, McpArrives, Arrives, CommandStep, HookLocal, HookAsk,
       HookPassed, HookPrompt, CommandLook, CommandRun, Deny
<1>3. ASSUME NEW s, NEW kind, NEW place \in {"hook", "fetch", "run"},
             Becomes(c, [NoProcess(s, kind) EXCEPT !.at = place])
      PROVE  \A q \in Processes : CleanProcess(proc'[q])
  <2>1. CleanProcess([NoProcess(s, kind) EXCEPT !.at = place])
      BY DEF CleanProcess, NoProcess, Harmless
  <2>2. QED
      BY <1>0, <1>3, <2>1, BecomesClean
<1>4. \A q \in Processes : CleanProcess(proc'[q])
    BY <1>0, <1>2, <1>3, GoneClean, GotoClean
<1>5. QED
    BY <1>1, <1>a, <1>4 DEF CleanAll, CleanServer, CleanProcess

LEMMA DeathClean ==
    ASSUME TypeOK, CleanAll, NEW p \in Processes, Dies(p)
    PROVE  CleanAll'
BY GoneClean DEF Dies, server, CleanAll, CleanServer, CleanProcess

\* Who was barred once stays so in the ghost.
LEMMA BarredStays ==
    ASSUME TypeOK, [Next]_vars, everBarred
    PROVE  everBarred'
BY DEF Next, vars, ghosts, Administrator, SetKillSwitch, RevokeUser, Restore, Stop,
   Launch, LaunchArrives, Preflight, PreflightLost, HookStart, HookLaunch, HookEnroll, Exit,
   SessionEnd, WatchStep, WatchEnroll, WatchTick, WatchEnd, WatchBeat, WatchBeatLost,
   WatchStop, WatchLook, MarkOpen, MarkWrite, SyncStep, FetchAnswered, FetchLost, SyncOpen,
   SyncWrite, SyncFails, Dies,
   HookArrives, ExecArrives, McpArrives, Arrives, CommandStep, HookLocal, HookAsk, HookPrompt,
   CommandLook, CommandRun

LEMMA CleanStep == TypeOK /\ Clean /\ [Next]_vars => Clean'
<1>1. SUFFICES ASSUME TypeOK, Clean, [Next]_vars, ~everBarred'
               PROVE  CleanAll'
    BY DEF Clean
<1>2. CleanAll
    BY <1>1, BarredStays DEF Clean
<1>3. CASE UNCHANGED vars
    BY <1>2, <1>3 DEF vars, server, CleanAll, CleanServer, CleanProcess
<1>4. CASE Next
    BY <1>1, <1>2, <1>4, AdministratorClean, LaunchClean, WatchClean, SyncClean, DeathClean,
       CommandClean DEF Next
<1>5. QED
    BY <1>1, <1>3, <1>4

\* However many sessions are stopped, closed and started again, no mark is left
\* behind unless somebody was revoked or the fleet frozen.
THEOREM StopsLeaveNoMark == Spec => []StopLeavesNoMark
<1>1. Init => Clean
    BY DEF Init, Clean, CleanAll, CleanServer, CleanProcess, Harmless, Unreadable, Nobody,
       NoProcess
<1>2. TypeOK /\ Clean => StopLeavesNoMark
    BY DEF Clean, CleanAll, StopLeavesNoMark, TypeOK
<1>3. QED
    BY <1>1, <1>2, CleanStep, TypeCorrect, PTL DEF Spec
=============================================================================
