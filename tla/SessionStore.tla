---------------------------- MODULE SessionStore ----------------------------
(***************************************************************************)
(* The session store of the control plane (internal/session/store.go):     *)
(* maps in memory behind one mutex, and SQLite tables written through      *)
(* before the mutex is released.                                           *)
(*                                                                         *)
(* An operation changes memory in one step (nobody can look while the      *)
(* mutex is held) and leaves in "todo" the statements it still has to      *)
(* execute; each statement is a step of its own, in the order of the       *)
(* code, and a crash may come before any of them.  The next operation      *)
(* waits until todo is empty.                                              *)
(*                                                                         *)
(* Bounds: MaxEvents caps the events counted per session and MaxPrompts    *)
(* the prompts counted in all; both only keep the instance finite.         *)
(***************************************************************************)
EXTENDS SessionRecord, FiniteSets, Functions

CONSTANTS
    Sessions,         \* session ids
    MaxEvents,        \* bound on the events recorded per session
    MaxPrompts,       \* bound on the prompts counted
    CrashMidWrite,    \* TRUE if a crash may come between two statements
    WriteErrors       \* TRUE if a statement may fail; every error is dropped

ASSUME BoundAssumption == MaxEvents \in Nat /\ MaxPrompts \in Nat
ASSUME FaultAssumption == CrashMidWrite \in BOOLEAN /\ WriteErrors \in BOOLEAN
ASSUME SubjectAssumption == Sessions \cap Names = {} /\ IsFiniteSet(Sessions)
\* intentCounts is a map: it has a key for every category seen so far.
ASSUME CategoriesAssumption == IsFiniteSet(Categories)

VARIABLES
    by,              \* what changed the store last (see RevocationLedger)
    todo,            \* the statements of the operation holding the mutex
    sessions,        \* Store.sessions
    revokedUsers,    \* Store.revokedUsers
    intentCounts,    \* Store.intentCounts
    totalPrompts,    \* Store.totalPrompts
    prompts,         \* Store.prompts, as the number of records per category
    rows,            \* table sessions
    userRows,        \* table revoked_users
    statRows,        \* table intent_stats
    promptRows       \* table prompt_history, as a number per category

memory == <<sessions, revokedUsers, intentCounts, totalPrompts, prompts>>
intents == <<intentCounts, totalPrompts, prompts>>
disk == <<rows, userRows, statRows, promptRows>>
vars == <<by, todo, memory, disk>>

Tables == {"intent_stats", "prompt_history"}

Idle == [insert |-> {}, delete |-> {}, stat |-> {}, hist |-> {}, wipe |-> {}, save |-> {}]
Todo == [insert : SUBSET Names, delete : SUBSET Names,
         stat : SUBSET Categories, hist : SUBSET Categories,
         wipe : SUBSET Tables, save : SUBSET Sessions]

Callers == {"admin_revoke", "admin_restore", "other", "crash"}

Zero == [c \in Categories |-> 0]
Total(f) == SumFunction(f)

(***************************************************************************)
(* Type invariant.  TotalPromptsAddUp covers totalPrompts.                 *)
(***************************************************************************)
TypeOK ==
    /\ by \in Callers
    /\ todo \in Todo
    /\ sessions \in [Sessions -> Session]
    /\ revokedUsers \in SUBSET Names
    /\ intentCounts \in [Categories -> Nat]
    /\ prompts \in [Categories -> Nat]
    /\ rows \in [Sessions -> Session]
    /\ userRows \in SUBSET Names
    /\ statRows \in [Categories -> Nat]
    /\ promptRows \in [Categories -> Nat]

\* A new database; by = "crash" as after any start of the process.
Init ==
    /\ by = "crash"
    /\ todo = Idle
    /\ sessions = [s \in Sessions |-> Absent]
    /\ revokedUsers = {}
    /\ intentCounts = Zero
    /\ totalPrompts = 0
    /\ prompts = Zero
    /\ rows = [s \in Sessions |-> Absent]
    /\ userRows = {}
    /\ statRows = Zero
    /\ promptRows = Zero

-----------------------------------------------------------------------------
(***************************************************************************)
(* Operations of the store.                                                *)
(***************************************************************************)

\* The mutex is free.
Free == todo = Idle

\* The operation owes the statements of work and was called on behalf of who.
Owes(who, work) == by' = who /\ todo' = work

\* Memory of session s becomes sess and its row is to be saved.
Update(s, sess) == sessions' = [sessions EXCEPT ![s] = sess]

SaveOnly(S) == [Idle EXCEPT !.save = S]

\* recordIntentLocked: the counter, the total and the prompt history.
RecordIntent(cat) ==
    /\ totalPrompts < MaxPrompts
    /\ statRows[cat] < MaxPrompts /\ promptRows[cat] < MaxPrompts
    /\ intentCounts' = [intentCounts EXCEPT ![cat] = @ + 1]
    /\ totalPrompts' = totalPrompts + 1
    /\ prompts' = [prompts EXCEPT ![cat] = @ + 1]

Start(s, uid, mail, cat) ==
    /\ Free
    /\ ~StartRefused(sessions[s])
    /\ Update(s, AfterStart(sessions[s], uid, mail, cat))
    /\ \/ /\ cat = NoIntent
          /\ UNCHANGED intents
          /\ Owes("other", SaveOnly({s}))
       \/ /\ cat \in Categories
          /\ RecordIntent(cat)
          /\ Owes("other", [SaveOnly({s}) EXCEPT !.stat = {cat}, !.hist = {cat}])
    /\ UNCHANGED <<revokedUsers, disk>>

End(s, why) ==
    /\ Free
    /\ ~EndRefused(sessions[s])
    /\ Update(s, AfterEnd(sessions[s], why))
    /\ Owes("other", SaveOnly({s}))
    /\ UNCHANGED <<revokedUsers, intents, disk>>

\* An unknown id gets a placeholder, so that it can never be started.
RevokeSession(s) ==
    /\ Free
    /\ Update(s, AfterRevoke(sessions[s]))
    /\ Owes("admin_revoke", SaveOnly({s}))
    /\ UNCHANGED <<revokedUsers, intents, disk>>

SessionsOf(n) == {s \in Sessions : Known(sessions[s]) /\ BelongsTo(sessions[s], n)}

\* The user row goes first, then the rows of the user's sessions in map order.
RevokeUser(n) ==
    /\ Free
    /\ revokedUsers' = revokedUsers \cup {n}
    /\ sessions' = [s \in Sessions |-> IF s \in SessionsOf(n) THEN AfterRevoke(sessions[s])
                                                             ELSE sessions[s]]
    /\ Owes("admin_revoke", [SaveOnly(SessionsOf(n)) EXCEPT !.insert = {n}])
    /\ UNCHANGED <<intents, disk>>

RevokedSessionsOf(n) == {s \in SessionsOf(n) : IsRevoked(sessions[s])}

RestoreUser(n) ==
    /\ Free
    /\ revokedUsers' = revokedUsers \ {n}
    /\ sessions' = [s \in Sessions |->
                       IF s \in SessionsOf(n) THEN AfterRestoreUser(sessions[s])
                                              ELSE sessions[s]]
    /\ Owes("admin_restore", [SaveOnly(RevokedSessionsOf(n)) EXCEPT !.delete = {n}])
    /\ UNCHANGED <<intents, disk>>

RevokeTarget(s) ==
    /\ Free
    /\ Known(sessions[s])
    /\ Update(s, AfterRevoke(sessions[s]))
    /\ Owes("admin_revoke", SaveOnly({s}))
    /\ UNCHANGED <<revokedUsers, intents, disk>>

\* Mutant: the restored session is not saved.
RestoreTargetUnsaved(s) ==
    /\ Free
    /\ Known(sessions[s])
    /\ Update(s, AfterRestoreTarget(sessions[s]))
    /\ Owes("admin_restore", Idle)
    /\ UNCHANGED <<revokedUsers, intents, disk>>

RestoreTarget(s) ==
    /\ Free
    /\ Known(sessions[s])
    /\ Update(s, AfterRestoreTarget(sessions[s]))
    /\ Owes("admin_restore", SaveOnly({s}))
    /\ UNCHANGED <<revokedUsers, intents, disk>>

RecordEvent(s, uid, mail, decision) ==
    /\ Free
    /\ sessions[s].total < MaxEvents
    /\ Update(s, AfterEvent(sessions[s], uid, mail, decision))
    /\ Owes("other", SaveOnly({s}))
    /\ UNCHANGED <<revokedUsers, intents, disk>>

Heartbeat(s) ==
    /\ Free
    /\ Known(sessions[s])
    /\ Update(s, AfterHeartbeat(sessions[s]))
    /\ Owes("other", SaveOnly({s}))
    /\ UNCHANGED <<revokedUsers, intents, disk>>

SetPromptAndIntent(s, cat) ==
    /\ Free
    /\ Known(sessions[s])
    /\ Update(s, AfterPrompt(sessions[s], cat))
    /\ RecordIntent(cat)
    /\ Owes("other", [SaveOnly({s}) EXCEPT !.stat = {cat}, !.hist = {cat}])
    /\ UNCHANGED <<revokedUsers, disk>>

Active == {s \in Sessions : sessions[s].status = "active"}

Sweep(S, why) ==
    /\ Free
    /\ sessions' = [s \in Sessions |-> IF s \in S THEN AfterSweep(sessions[s], why)
                                                  ELSE sessions[s]]
    /\ Owes("other", SaveOnly(S))
    /\ UNCHANGED <<revokedUsers, intents, disk>>

\* Which of the active sessions are older than maxIdle is the clock's choice.
PurgeStale == \E S \in SUBSET Active : Sweep(S, "idle_timeout")

Reset == Sweep(Active, "system_reset")

ResetIntentStats ==
    /\ Free
    /\ intentCounts' = Zero
    /\ totalPrompts' = 0
    /\ prompts' = Zero
    /\ Owes("other", [Idle EXCEPT !.wipe = Tables])
    /\ UNCHANGED <<sessions, revokedUsers, disk>>

-----------------------------------------------------------------------------
(***************************************************************************)
(* The statements, in the order in which the operations execute them.      *)
(* "_, _ = s.db.Exec(...)": a statement that fails is as good as done.     *)
(***************************************************************************)

Exec(table, new) ==
    \/ table' = new
    \/ WriteErrors /\ UNCHANGED table

NoUserRow == todo.insert = {} /\ todo.delete = {}

WriteUser(n) ==
    /\ \/ n \in todo.insert /\ Exec(userRows, userRows \cup {n})
       \/ n \in todo.delete /\ Exec(userRows, userRows \ {n})
    /\ todo' = [todo EXCEPT !.insert = @ \ {n}, !.delete = @ \ {n}]
    /\ UNCHANGED <<by, memory, rows, statRows, promptRows>>

WriteStat(cat) ==
    /\ cat \in todo.stat
    /\ Exec(statRows, [statRows EXCEPT ![cat] = @ + 1])
    /\ todo' = [todo EXCEPT !.stat = @ \ {cat}]
    /\ UNCHANGED <<by, memory, rows, userRows, promptRows>>

WriteHistory(cat) ==
    /\ todo.stat = {} /\ cat \in todo.hist
    /\ Exec(promptRows, [promptRows EXCEPT ![cat] = @ + 1])
    /\ todo' = [todo EXCEPT !.hist = @ \ {cat}]
    /\ UNCHANGED <<by, memory, rows, userRows, statRows>>

WipeStats ==
    /\ "intent_stats" \in todo.wipe
    /\ Exec(statRows, Zero)
    /\ todo' = [todo EXCEPT !.wipe = @ \ {"intent_stats"}]
    /\ UNCHANGED <<by, memory, rows, userRows, promptRows>>

\* Mutant: a reset forgets the history on disk.
WipeNoHistory ==
    /\ todo.wipe = {"prompt_history"}
    /\ todo' = [todo EXCEPT !.wipe = {}]
    /\ UNCHANGED <<by, memory, disk>>

WipeHistory ==
    /\ todo.wipe = {"prompt_history"}
    /\ Exec(promptRows, Zero)
    /\ todo' = [todo EXCEPT !.wipe = {}]
    /\ UNCHANGED <<by, memory, rows, userRows, statRows>>

saveSessionToDB(s) ==
    /\ NoUserRow /\ todo.hist = {} /\ s \in todo.save
    /\ Exec(rows, [rows EXCEPT ![s] = Saved(@, sessions[s])])
    /\ todo' = [todo EXCEPT !.save = @ \ {s}]
    /\ UNCHANGED <<by, memory, userRows, statRows, promptRows>>

(***************************************************************************)
(* A crash or an orderly restart.  loadFromDB rebuilds memory; when the    *)
(* counters on disk add up to nothing it counts the sessions' intents      *)
(* instead.                                                                *)
(***************************************************************************)
Legacy(cat) ==
    IF cat = Unknown THEN 0
    ELSE Cardinality({s \in Sessions : Known(rows[s]) /\ rows[s].intent = cat})

LoadedCounts ==
    IF Total(statRows) = 0 THEN [c \in Categories |-> Legacy(c)] ELSE statRows

\* Mutant: the total counts the table, not what was recounted.
TotalOnDisk == Total(statRows)

LoadedTotal == Total(LoadedCounts)

Restart ==
    /\ CrashMidWrite \/ Free
    /\ by' = "crash"
    /\ todo' = Idle
    /\ sessions' = rows
    /\ revokedUsers' = userRows
    /\ intentCounts' = LoadedCounts
    /\ totalPrompts' = LoadedTotal
    /\ prompts' = promptRows
    /\ UNCHANGED disk

-----------------------------------------------------------------------------
Given == Names \cup {Blank}

SessionOp(s) ==
    \/ \E uid \in Given, mail \in Given, cat \in Categories \cup {NoIntent} :
           Start(s, uid, mail, cat)
    \/ \E uid \in Given, mail \in Given, d \in Decisions : RecordEvent(s, uid, mail, d)
    \/ \E cat \in Categories : SetPromptAndIntent(s, cat)
    \/ \E why \in EndReason : End(s, why)
    \/ Heartbeat(s)
    \/ RevokeSession(s)
    \/ RevokeTarget(s)
    \/ RestoreTarget(s)

Statement ==
    \/ \E n \in Names : WriteUser(n)
    \/ \E cat \in Categories : WriteStat(cat) \/ WriteHistory(cat)
    \/ WipeStats
    \/ WipeHistory
    \/ \E s \in Sessions : saveSessionToDB(s)

Next ==
    \/ \E s \in Sessions : SessionOp(s)
    \/ \E n \in Names : RevokeUser(n) \/ RestoreUser(n)
    \/ PurgeStale
    \/ Reset
    \/ ResetIntentStats
    \/ Statement
    \/ Restart

Spec == Init /\ [][Next]_vars

-----------------------------------------------------------------------------
(***************************************************************************)
(* Properties that hold.                                                   *)
(***************************************************************************)

\* Write-through: outside the operation that holds the mutex, the tables say
\* of every session (but for its identity) and of every revoked user what
\* memory says, so a crash after RevokeUser, RevokeTarget or End has returned
\* loses nothing of it.  A statement about a user that is still to be executed
\* will write what memory says.
WriteThrough ==
    /\ \A s \in Sessions \ todo.save : Agrees(rows[s], sessions[s])
    /\ \A n \in Names \ (todo.insert \cup todo.delete) :
           n \in userRows <=> n \in revokedUsers
    /\ todo.insert \subseteq revokedUsers
    /\ todo.delete \cap revokedUsers = {}

\* What CloseReasonFits and CountersAddUp say of one session.
ReasonFits(sess) ==
    /\ sess.status = "active" => sess.reason = ""
    /\ sess.status = "closed" =>
           /\ sess.reason # "revoked"
           /\ sess.ended \/ sess.reason = "restored"
    /\ sess.status = "revoked" => sess.reason = "revoked"

AddsUp(sess) == sess.allowed + sess.denied <= sess.total

\* The reason and the end time tell the state of a session: one that is active
\* has no reason, only a revoked one has that of a revocation, and a closed
\* session without an end time is one whose revocation an administrator lifted.
CloseReasonFits == \A s \in Sessions : ReasonFits(sessions[s])

\* No event is counted as both allowed and denied, and the counters of a
\* session start again together, across restarts of the session and of the
\* server.
CountersAddUp == \A s \in Sessions : AddsUp(sessions[s])

\* The total shown by GetIntentStats is the sum of its categories, whether it
\* was counted, loaded or recounted from the sessions.
TotalPromptsAddUp == totalPrompts = Total(intentCounts)

\* As long as no crash separates the two inserts of recordIntentLocked, the
\* counters on disk and the history on disk describe the same prompts.
HistoryAgreesWithStats == Free => statRows = promptRows

\* Store implements the ledger: a revoked session or user stays revoked, over
\* audit events, heartbeats, prompts, starts, sweeps and restarts, until an
\* administrator restores it, except that a crash in the middle of a revoke or
\* restore may undo that one operation.
Ledger == INSTANCE RevocationLedger WITH
    Subjects <- Sessions \cup Names,
    barred <- revokedUsers \cup {s \in Sessions : IsRevoked(sessions[s])},
    unsettled <- todo.save \cup todo.insert \cup todo.delete

ImplementsLedger == Ledger!Spec

=============================================================================
