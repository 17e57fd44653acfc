# A TLA+ model of the BAP control plane

This directory holds TLA+ modules that model the core of this repository, the
configurations that model-check them with TLC, and proofs that TLAPS checks. It
is written from the code, not from the documents about it; where the two
disagree, a run shows the disagreement ("What the runs show").

## 1. The system

BAP governs agents (Claude Code, Copilot, SDK clients) that run commands for a
user. Hooks hand each action to the **edge**, which decides by policy, executes
and records. The **control plane** registers agents, tracks sessions, lets
administrators stop, revoke, restore or freeze, mints grants and collects
evidence. The **gateway** lets a request through to a protected resource when
the control plane consumes the grant it carries.

| Component | State | Operations | Interaction | What is hard |
|---|---|---|---|---|
| Session store (`internal/session/store.go`) | sessions, revoked users, intent counters, prompt history; SQLite tables for each | Start, End, Revoke/Restore of a user or session, RecordEvent, Heartbeat, SetPromptAndIntent, PurgeStale, Reset, ResetIntentStats, load at start | called by every session handler; one mutex; statements run inside it | a crash between two statements; dropped errors; ids started again; late events |
| Session and administration handlers (`internal/api/handlers.go`) | none | session start/end/heartbeat/prompt, targeted stop/revoke/restore, agent and application revoke, kill switch, audit ingest, resets | each request in a goroutine; calls session store, registry and policy store one after the other with no lock across | every interleaving of two handlers; decisions from copies that went stale |
| Agent registry (`internal/registry/agent.go`) | agents: status, instance, hash, scopes; in memory only | PreRegister, Enroll, Revoke*, RestoreTarget, EnsureSessionAgent, HeartbeatInstance, EndSessionAgent, Reset | enrollment, sessions and grants write and read the same status | empty after a restart; shared pointers; entries written by three parties |
| One-time codes, attestation (`internal/otc`, `internal/attestation`) | codes with a quota and an expiry | Generate, Consume, cleanup; VerifyBinaryImage | handleRegisterEdge calls codes, registry, attestation, registry | the last place of a code; revocation on the way |
| Grants (`internal/authz`) | consumed grants; the signing key | Mint, Verify, Consume, cleanup | acquire and consume handlers, gateway, Envoy | replay at the same time, after cleanup, after a restart |
| Gateway (`bap-gateway/main.go`) | none | pepGuard, validateGrant | asks the control plane to consume | lost answers |
| Policy store (`internal/policy`) | bundle with version, digest, kill switch; in memory | Update, SetKillSwitch, Sync | edge caches follow it by Sync | version against digest; restart; the answer is encoded outside the lock |
| Central audit (`internal/audit`) | chain of events in memory | Ingest, VerifyChain | edge, gateway and handlers post | in memory only, while edges delete what was acknowledged |
| Edge: audit log, policy cache, watcher, execution (`bap-edge`) | files: log, policy bundle, state, markers, `.bap-revoked` | Log, RemoveEntry, Transmit; Accept, SyncWithServer; runWatchLoop; RunExec | several processes on the same files; posts to the control plane | no file locks; crashes between files; fail-open paths |
| Hooks, SDKs, MCP server, dashboards | hardly any | translate requests | clients of the above | |

What makes each part correct, in words: a revocation holds until an
administrator lifts it, whatever agents, late events, sweeps and restarts do;
what the store answered survives a crash; counters and totals add up; a session
of a revoked user does not keep running; a barred start or prompt is turned
away; a live session is visible; a grant is used once; a frozen fleet and a
revoked agent consume nothing; a code enrolls no more instances than its quota
and only binaries that were listed; a workload that is to stop is killed by its
watcher, and a command that was told to stop does not run; a mere stop locks
nobody out; the end of a workload is reported.

## 2. Modules

```
SessionRecord ---> SessionStore ---> SessionStoreProofs ---> SessionCoherenceProofs
      |                 `-- implements RevocationLedger
      `----------> ControlPlane ---> ControlPlaneProofs
Workstation -----> WorkstationProofs
Grants ----------> GrantsProofs
      `-- implements OneTimePass
Enrollment ------> EnrollmentProofs
EdgeAudit -------> EdgeAuditProofs
      `-- implements EvidenceTrail
PolicyCache -----> PolicyCacheProofs
MC*                instances for TLC: symmetry sets only
```

**SessionRecord** - one session and what every operation does to it, as
operators from a record to a record. `AfterStart`, `AfterEnd`, `AfterRevoke`,
`AfterRestoreUser`, `AfterRestoreTarget`, `AfterEvent`, `AfterHeartbeat`,
`AfterPrompt`, `AfterSweep` are the bodies of the methods of `store.go`;
`Saved` is the upsert, which inserts every column but updates all except the
identity. Timestamps are reduced to whether `EndedAt` is set. Strings are model
values; a blank identity and the placeholder "NA" are values of their own
because the code tells them apart.

**SessionStore** - the store itself. Memory changes in one step, because the
mutex hides what is in between; the statements the operation executes before it
unlocks are the value of `todo`, and each is a step (`WriteUser`, `WriteStat`,
`WriteHistory`, `WipeStats`, `WipeHistory`, `saveSessionToDB`) in the order of
the code. `Restart` may come before any of them (`CrashMidWrite`), and each may
fail without anyone noticing (`WriteErrors`), since the code drops the error.
`Restart` is `loadFromDB` with its recount of intents from the sessions.

**RevocationLedger** - the abstract specification: subjects (users and
sessions) are barred by revokes, freed by restores, by nothing else; a crash
may undo or complete the operation it interrupts. `ImplementsLedger` is the
refinement, with `barred` the revoked users and sessions in memory and
`unsettled` what the operation in progress has not yet saved.

**ControlPlane** - the handlers, interleaved. A request is a record whose `at`
names the call it makes next; one action is one call of a store with the code
that leads to the next call. The names follow the code: `StartArrives`,
`StartUser`, `StartSession`, `StartAgent`, `StartStore`, `StartEnsure` are the
calls of `handleSessionStart` in order; likewise `Beat*`, `End*`, `Prompt*`
(which records the prompt before it asks about the user), and `Target*`, `Stop*`, `Revoke*Step`, `Restore*Step` for
`handleTargetedKillAgent`. The store's rows are taken to be written (that is
`WriteThrough` of the module above), so a restart keeps sessions and revoked
users, but a session's user is then the one its row was inserted with. `up` and
`owner` say which workloads run and for whom: they are the clients' side,
`Exit` ends a workload, "terminate" in the answer to a heartbeat makes the
watcher end it. An entry of `agents` is an instance's own, which its sessions
make and revive, or one that it enrolled as under a fleet (`EnrollAgent`, the
last step of Enrollment); an instance may have entries of both kinds. What looks
an instance up in the registry takes the first match of a map, so
`EnsureSessionAgent` and `TargetSession` take any.
Enrolling makes the entry under the fleet active whatever it was, and leaves
the others alone. `bar` in a start or a prompt is a history variable for
`NothingPastBar`: it was barred when it came, and no restore has freed it since
(`Lift`).

**Workstation** - the edge side of a stop, a revocation and the kill switch, on
one host of one user. Launchers, watchers, hooks and commands are processes that
share `.bap/policy-state.json` (`state`) and `.bap-revoked` (`mark`) without a
lock. A step is one access to a file or one request to the control plane;
`os.WriteFile` is two (`SyncOpen`, `SyncWrite`; `MarkOpen`, `MarkWrite`), and a
file that is truncated, written in part or written over what another process has
written meanwhile holds a text that nobody can parse (`Garbled`). Either half may
fail, as may the creation of the directory, and the process goes on to read the
file as it is (`SyncFails`): the code drops these errors and uses the answer it
was given only through the file. Handlers of the control plane are single steps
on the status of the sessions, since ControlPlane has theirs; the end of a
command transmits an event, which `RecordEvent` lets activate its session
(`Transmit`, `Recorded`). Between the answer "closed" to a heartbeat and the
watcher's exit the watcher is `Leaving` (`WatchStop`). A launch is `session-start`
and the SessionStart hook (`LaunchArrives`, `Preflight`, `HookStart`) or the hook
alone (`HookLaunch`, `HookEnroll`); `Watch*` with `SyncStep` is `runWatchLoop`;
`Hook*` is the interceptor, whose tool calls become `bapedge check` and then
`bapedge exec`; `McpArrives` is the MCP server, which asks about no revocation.
`everBarred`, `unreported`, and `spoiled` in a process are history variables:
the last says of a command that its own write failed, or that another process
truncated or wrote the file before the command looked.

**Grants** - from the mint of a grant to the forwarded request. Verify reads
the clock before the minter's mutex is taken, so `ConsumeVerify` and
`ConsumeMark` are two steps and time, cleanup and other callers come in
between. A grant and a registry entry have a name: SPIFFE id, application and
instance, which is all `consumeActiveGrant` compares. Two entries may share it
(an instance that enrolled under two fleets of one application), the first of an
unordered list decides, and a session may change the name of an entry
(`SessionAgent`). `bar` in a consumption says why it must not burn the grant: the
fleet was frozen, or no entry of the name active, on arrival or at some moment
before the check for it, and has been so ever since. `Restart` empties registry
and consumed grants, and with a key drawn at start (`StableKey = FALSE`) no old
grant verifies any more. `forwarded` counts how often the gateway let a grant
through.

**OneTimePass** - the abstract specification of a grant: a pass is issued once,
is good for some doors, is used up by being shown at one of them, opens that door
once or not at all, and may lapse but never become good again. `ImplementsPass`
is the refinement: a pass is good while some call may still mark its grant
(`Markable`: no record, and unexpired, or verified before it expired by a call
that waits for the mutex), accepted while an answer is on its way, and open when
the gateway has forwarded.

**Enrollment** - codes, registry entries per agent and per instance, and the
steps of `handleRegisterEdge`: consume the code, read the agent without a lock
and attest, enroll under the registry's mutex. `bar` in an enrollment is a history
variable: its agent was revoked on arrival or since (`Bar`), and not restored.

**EdgeAudit** - `Log`, `Transmit` and `RemoveEntry` on one log file, and
`handleAuditIngest`. The mutex of `logger.go` belongs to a process, so an action
is one access to the file: `LogRead` (the hash of the last entry) and
`LogAppend`; `Send`, `Keep`, `GiveUp`, `Acknowledged` for the one request, whose
answer the edge waits for at most 300 ms; `RemoveRead`, `Truncate`, `Write` for
the rewrite without the entry. A hash stands for its event. What others
appended between `Truncate` and `Write` is overwritten in part, how far depends
on lengths the model does not have (`LeftOver`). `Kill` and `RestartServer` come
anywhere. `logged`, `ingested` and `cut` are history variables.

**EvidenceTrail** - the abstract specification of the audit path: the edge lets
go of an event's evidence only when the centre has received it or when a crash
spills it; the centre receives an event once, keeps the order of arrival, and
forgets everything at a restart. `ImplementsTrail` is the refinement: the edge
holds what is in the log or in the copy of the process that has truncated it
(`HeldAtEdge`), `spilt` is `cut`, `received` is `ingested`.

**PolicyCache** - the three files of the cache, each truncated and then written
(`WriteOpen`, `WriteText`); `SyncWithServer` as the steps load, directive,
answer, accept; the server's `Sync`, whose answer is encoded after the lock is
released (`Offered` reads the kill switch then). A digest is the pair of texts
it covers. Versions are what the program gives them: 1 for every bundle of a
server, 0 for a lock put on an empty cache. `told` and `cut` are history
variables.

## 3. Runs

Times are for two workers; each run finishes in about three minutes or less.

| Run | Instance | Shows |
|---|---|---|
| `store` | 2 sessions, 1 user, 1 event per session, crash before any statement | `TypeOK`, `WriteThrough`, `CloseReasonFits`, `CountersAddUp`, and the refinement `ImplementsLedger` |
| `intents` | 2 sessions, 2 categories, 2 prompts, restarts between operations | `TotalPromptsAddUp`, `HistoryAgreesWithStats` |
| `cp_agents` | 1 session, 1 instance, 1 fleet, 1 user, 2 requests of which one may be an administrator's and a heartbeat in flight, 1 restart | `NothingPastBar`, `RevokedAgentStays`, `RevokedStaysRevoked` |
| `cp_live` | 1 session, 1 user, 1 client's and 1 administrator's request and a heartbeat, late events with and without a user, 1 restart, fair | `RevokedUserIsStopped`, `PresenceReturns` |
| `host` | 1 session with its launcher and watcher, 1 hook or command, administrators at will, the control plane in the same directory, fair | `ToldCommandStops`, `StopLeavesNoMark`, `EndIsReported`, `StoppedIsKilled` |
| `grants` | 1 grant, 2 entries, 2 names, 2 resources, 2 calls, lifetime 2, clock to 5, 1 restart | `SingleUse`, `NoUseWhenBarred`, `CleanupIsSafe`, and the refinement `ImplementsPass` |
| `enrollment` | 1 code for 1 or 2 instances, 3 enrollments, 2 instance ids, 2 binaries, 1 restart | `QuotaKept`, `OnlyListedBinaries`, `NoEnrollmentPastBar` |
| `audit` | 4 events, one process at a time, kills anywhere, 1 restart of the server | `LogVerifies`, `NothingLost`, and the refinement `ImplementsTrail` |
| `policy` | 2 policies with or without a schema, 1 sync, 2 restarts, 2 cuts, kill switch at will, fair | `CacheIsWhole`, `Converges` |

Why the bounds are enough. Two sessions of one user are the smallest case in
which an operation owes several rows, and a crash can fall between any two; the
second event of a session adds no new kind of state. Two requests and a
heartbeat give every pair of a client and an administrator, of two clients, and
the watcher between them; the properties of ControlPlane relate one request to
one administrator. No run of a passing property has two administrators at work
at once, nor two users: their theorems hold for any number of both. `Ops` says
which requests arrive, so that each run keeps to the requests its property is
about; together the runs use all of them. With lifetime 2 and the clock going
to 5 a grant is minted, expires, and its record passes the cleanup's age of
twice the lifetime; a resource may or may not be among its scopes. One grant is
enough, because grants share nothing but the entries and the clock; a call that
shows one to acquire another mints what an administrator's call mints without.
Three
enrollments with a quota of one or two make one too
many. In `host` the watcher and one command are two writers of each other's
file, and one reads what the other has truncated; a second session would add
its own watcher, which does the same, and only shares the file
(the theorems of section 4 cover any number). Four events let entries that were kept, removed and cut stand before and
after one another. Two restarts and two cuts of the policy run put a cut under
one policy and the repair under the next. `audit` and `policy` have one process
at a time because their properties need it: nothing locks the files, and with
two processes the log loses entries (run `audit_lost`) and forks its chain, and
two Accepts mix their files. `policy` also assumes that a restart of the server
never brings an earlier bundle back nor takes the schema away (`Reverts =
FALSE`), for the reasons given below. Deadlock is checked in every run but those
of EdgeAudit, whose events run out.

Fairness (`FairSpec` of ControlPlane). A handler that was called returns: Go
schedules every goroutine and the calls neither block nor wait for another
request (`WF` of `CallerStep` and `BeatStep`). A watcher beats every two
seconds while its workload runs (`WF` of `BeatArrives`). Nothing is assumed of
clients, administrators, ends of workloads, or restarts. `FairSpec` of
Workstation: a watcher ticks (`WF` of its steps); of its heartbeats and its
fetches of revocations some reach the control plane, some of its writes succeed,
and some of its looks find a file that parses (`SF` of `WatchBeat`,
`FetchAnswered`, `SyncOpen`, `SyncWrite`, `LookReadable`). Without `LookReadable`
commands that rewrite the file at every look of the watcher would hide a
revocation for ever, which two seconds between ticks rule out in practice. That
the disk can be written now and then is an assumption about the host: where it
never can, the kill switch does not reach a workload at all. No fairness is
asked of hooks and commands. `FairSpec` of
PolicyCache: syncs are run again and again, which is up to whoever runs
`bapedge sync`; one that is not cut ends; and the server is reached now and then
(`SF` of `SyncDirective` and `Answer`).

### What the runs show

The passing runs hold as stated above. Three runs violate a statement of the
source or a document; each is a finding in `PROJECT.json`:

- `race` - a start that passed the user check before the revocation creates an
  active session of the revoked user after it. `RevokedUserIsStopped` holds all
  the same: a later heartbeat ends the workload, unless a restart has given the
  session another user or none.
- `audit_lost` - two commands at once: one process reads the log to remove its
  acknowledged entry, the other appends an entry, the first truncates the file.
  The second entry was not transmitted and is gone.
- `kill_switch` - an edge with a cached policy is told of the kill switch, and
  `Accept` refuses the lock because its digest is that of the cached policy and
  its text is empty. The state keeps `kill_switch: false` and the cache goes on
  offering the policy offline. On an empty cache, which is what the test has,
  the lock is written.

Met while modelling and described by the models, but not given a run:

- Stopping a session that has no instance id deregisters every agent of the
  application, because the empty id means all of them (handlers.go:1671); the
  end of a session passes the session id instead. An end whose last call comes
  after a new start of the session leaves a running workload deregistered, and
  heartbeats refresh that entry without activating it.
- `.bap-revoked` is removed by a restore in the control plane's own directory
  and nowhere else (handlers.go:1754), and a watcher may write it after the
  restore: the user then cannot launch until somebody deletes it.
- A frozen state file blocks the SessionStart hook, and what would refresh it,
  a watcher or a command, does not run before a workload does.
- A state file that is empty or garbled bars nothing, and an answer that does
  not come bars nothing: hooks and commands let the call pass to the next
  check, and in the end the watcher stops the workload (`StoppedIsKilled`).
- The watcher that kills a revoked workload posts no end (watch.go:434). The
  heartbeat does not answer to the kill switch; the synchronised file does.
- An id revoked before its session existed is a "revoked user" of that name,
  and a restore of the session later does not lift it (handlers.go:1743).
- An event that arrives late re-activates a session that its client ended,
  though the comment at store.go:589 speaks of idle timeouts only. Every command
  transmits one when it exits (exec.go:257), so a command that ends after its
  watcher has posted the end leaves an active session with no watcher, as does a
  restore (handlers.go:1747); nothing closes it but an administrator or another
  end, since nothing calls `PurgeStale` of the session store. `EndIsReported`
  excepts both.
- A command that cannot write the state file (a read-only directory, a full
  disk) forgets what it was told: exec.go:625 and 646 drop the error, and
  `CheckSessionRevocation` reads the file. `ToldCommandStops` excepts it.
- A late event without a user inserts the row of its session with a blank user
  id, and the upsert of a later start leaves that column alone (store.go:1026).
  After a restart the session belongs to nobody: a revocation of its user by name finds no session, and the
  heartbeats of its workload answer "ok" for ever (handlers.go:668).
  `RevokedUserIsStopped` excepts a session that names somebody else.
- A revocation of the agent that comes after the look at the list
  (handlers.go:2042) and before the mark burns the grant and lets the request
  through. So does, with two entries of one name, the grant of a revoked one when
  the list has the active one first.
- A revoked instance becomes active again by enrolling with the same instance
  id and another place of its code (registry/agent.go:139); `RevokedAgentStays`
  excepts it.
- Two edge processes that log at once read the same tail, and `verify-log` then
  reports tampering; so it does when an entry that another one follows is
  removed. A kill between the truncation of the log and its rewrite loses what
  was to be written back (`cut`).
- The central audit store is in memory, and edges remove what it acknowledged.
- Every server process numbers its bundle 1, so the check against rollback
  refuses nothing but a lock. After a cut Accept under one policy, a server
  that returns to the policy before it finds the old digest installed and
  answers CURRENT: policy.cedar stays the wrong one. A bundle without a schema
  leaves the old schema.json. A lock written over version 1 with the digest of
  an empty policy would be answered by CURRENT and stay when the server lifts it.

Smaller ones: a restored session becomes active even when nothing runs any
more, with its old end time (`AfterRestoreTarget`); a restart gives a session
the first user its row was inserted with (`Saved`); a reset of the intent
statistics is undone at the next restart by the recount from sessions
(`LoadedCounts`), and the kill switch of the control plane is in memory only;
two sessions that share an instance id share presence, and the end of one hides
the other until its next start; two first enrollments in development with
different binaries are both trusted; dropped database errors leave the table
behind memory for good.

## 4. Proofs

For arbitrary sets of sessions, users, grants, agents, callers, processes and
events and arbitrary bounds, from the assumptions named in the modules: what is
counted (sessions, categories, enrolling callers) is finite. Three modules are
shown to implement an abstract specification: SessionStore, Grants, EdgeAudit.

- `SessionStoreProofs!TypeCorrect` - `TypeOK` is inductive by itself: each
  `After...` operator maps sessions to sessions (`RecordTypes`), each operation
  leaves a well-formed `todo`.
- `SessionStoreProofs!WriteThroughHolds` - assumes `~WriteErrors`.
  `WriteThrough` is inductive with `TypeOK`. Every operation fits one pattern
  (`Shape`: what it changes in memory it owes to the tables, and its effect on
  the barred subjects is that of its caller), so the argument is made once for
  all operations, once per statement and once for the restart.
- `SessionStoreProofs!StoreImplementsLedger` - the same `Shape` makes each
  operation a step of `RevocationLedger`; a statement is `Settle`; the restart
  is `Crash`, and that needs `WriteThrough`: subjects that are settled have
  rows that say what memory said.
- `SessionCoherenceProofs!PromptTotalsAddUp` - with crashes and failing
  statements too. `Total` folds a function over a set; what it computes is shown
  by induction over the size of the set, so that one more prompt in one category
  is one more in the sum (`CategoriesAssumption`: there are finitely many).
- `SessionCoherenceProofs!HistoryStaysInStep` - assumes `~WriteErrors` and
  `~CrashMidWrite`; a crash or an error between the two inserts of a prompt does
  part the tables. Between statements they differ by what the operation still
  owes (`TablesMove`), and the recount of a restart writes no table.
- `SessionCoherenceProofs!SessionsStayCoherent` - `CloseReasonFits` and
  `CountersAddUp`, with failing statements too. Neither is inductive, since a
  restart copies rows into memory; the invariant says the same of every row.
- `GrantsProofs!TypeCorrect` and `GrantsProofs!GrantsAreSingleUse` - the second
  assumes `~StableKey`, and `Patience <= TTL`: a goroutine does not take longer
  than the lifetime of a grant between reading the clock and taking the mutex.
  The inductive invariant relates the record of a consumed grant, the calls
  that hold a verified grant and the forwarded count: at most one of "forwarded
  once" and "an answer is on its way" is there, either implies a record or that
  the grant has expired, and a record goes only when nobody can still hold the
  grant as verified.
- `PolicyCacheProofs!TypeCorrect` and `PolicyCacheProofs!WholeOutsideAccept` -
  the second assumes one sync at a time (`OneSync`) and `~Reverts`, and not
  without need: section 3 says what a server that goes back does to the cache,
  and of two syncs, one told of the lock and one with the bundle, the first may
  leave an empty policy.cedar under the state of the second.
  `CacheIsWhole` says nothing while Accept writes; the invariant adds what each
  place of Accept has put on the disk (`Progress`), that the files are whole
  until the first one is truncated (`WholeUntilTouched`), and that a schema on
  the disk is never followed by a bundle without one (`SchemaStays`), for which
  Accept would leave the old file.
- `GrantsProofs!CleanupLosesNothing` follows from the same invariant.
  `GrantsProofs!BarredIsNotUsed`, under `~StableKey` too, adds that what barred a
  call, on arrival or before the check that looks for it, is still there at that
  check (`BarHolds`);
  after a restart agents are active again without anybody's lifting a bar, but
  no call with an old grant gets that far.
- `EnrollmentProofs`: `TypeCorrect`; `QuotasAreKept` from `CountKept` (a place is
  taken before anything else is done, so enrolled and pending together never
  exceed the places taken); `BinariesAreListed` and `RevokedIsNotEnrolled` from
  `RegInv`: what was attested was listed, nothing is known of an id before it is
  drawn, and an enrollment that is barred at any moment before its answer finds its
  agent revoked (`BarStands`): no other enrollment lifts the bar.
  `KeyAssumption` says that an agent is not also an (agent, instance) pair.
- `ControlPlaneProofs`: `TypeCorrect` needs to know how each handler resolved its
  target, because `RevokeUser` adds whatever it is given (`GoodReq`).
  `BarredIsTurnedAway` from `BarInv`: a barred start waits for the question that
  turns it away, and its user, or its session, is still revoked; no step but a
  restore lifts either (`NoneRestored`), and a restore clears `bar`.
  `AgentsStayRevoked` is one step per action: two lift the bar of an agent, a
  restore and a new enrollment of its instance, and a restart forgets it. `RevocationsStand` states for the
  interleaved handlers what `ImplementsLedger` states for the store: every step of
  a client or an administrator but two leaves every revocation in force
  (`NoneRestored`), and those two are the restore of a user and of a session, of
  whom they lift it (`RestoreMoves`).
- `GrantsProofs!GrantsAreOneTimePasses`, under `~StableKey` - every step of Grants
  is a step of `OneTimePass` or a stutter. Most steps let passes lapse (`Fades`);
  a mint issues, a mark shows, an answer opens or wastes. That an answer is the
  only one for its grant is `OneAnswer`; that cleanup brings no grant back is
  `RecordInTime` against `CallsInTime`: the grant is too old for any call.
- `EdgeAuditProofs!TypeCorrect`, inductive with where the event of each process is
  known (`Placed`). `EdgeAuditProofs!NothingIsLost` for any number of processes of
  which none appends to a log that another is rewriting (`RewritesAlone`), from
  `RewriteKeeps`: what a rewrite truncates is in its copy.
  `EdgeAuditProofs!LogStaysChained` for processes that run one after the other
  (`OneAtATime`), from `Chained`: the process finds the log as it left it, so that
  its own entry is the last one when it removes it. Both conditions are about the
  schedule, which the code leaves open; section 3 shows what happens without
  them. What the loop of `RemoveEntry` keeps (`RemainingKeeps`) is shown by
  induction over the lines, from the order of the natural numbers
  (`LeastNumber`, `Induction`): no theorem of the library that takes an operator
  is needed.
- `EdgeAuditProofs!EdgeKeepsTheTrail`, under `RewritesAlone` - every step of
  EdgeAudit is a step of `EvidenceTrail` or a stutter. The invariant adds that a
  copy holds the log but for the entry to be removed (`CopyOfLog`), so that
  `Truncate` lets go of that one event and `Write` of none, and that an event is
  sent once (`SentOnce`), so that the branch of `Ingest` for a known id is not
  taken: it is a safeguard for clients other than the edge.
- `WorkstationProofs`: `TypeCorrect`; `EndsAreReported` from `EndsKnown` (besides
  sessions without a watcher, those whose watcher is about to stop are closed,
  revoked or known to be unreported); `ToldCommandsStop` from `FileKept` (what is
  in the state file between a command's truncation and its look, as long as its
  writes succeeded and no other process touched it);
  `StopsLeaveNoMark` from `Clean`: before anybody is barred, nothing that bars is
  on its way anywhere, at the control plane, in a file or in a process.

Only model-checked: liveness (`RevokedUserIsStopped`, `PresenceReturns`,
`Converges`, `StoppedIsKilled`), which is out of the prover's reach; every other
property of a passing run is a theorem.

## 5. What is not modelled

The text of requests and answers, intent classification, Cedar evaluation, path
and command matching (so also ids that contain each other, which
`CheckSessionRevocation` takes for the same), TLS, the dashboards, sandbox
system calls, the demonstrations, and signatures (a grant that was not minted
does not verify): functions of their input, or input and output.

Left out of Workstation: a second launch of a session id whose first watcher
still runs, which the code allows and which gives the session two watchers; and
the refusal of a start whose instance was revoked as an agent while neither its
user nor its session was (handlers.go:917), which ControlPlane has.

State that is left out, and why: session markers, which name the watcher's
process and decide nothing else while it has a process to watch; copies of the
two files in other directories; the risk counter of a session (`recordSessionDenial`, read and
written without a lock), which only words a message; the state file shared
between the policy cache and the revocation sync when `--policy` points into the
cache; the audit entries that handlers and the gateway ingest, one append each;
the heartbeat of an agent without a session; hooks in audit mode, which deny
nothing; the central hash chain, whose events are chained under one mutex and
never removed.

What a next step would be: a model of the gateway's verify-only mode, and of the
Copilot interceptor, which repeats part of the one modelled; an abstract
specification of enrollment, as seats of a code that are taken and never given
back.
