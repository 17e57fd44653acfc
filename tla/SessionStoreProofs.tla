------------------------- MODULE SessionStoreProofs -------------------------
(***************************************************************************)
(* Proofs about SessionStore for any sets of sessions, names, categories   *)
(* and any bounds.                                                         *)
(*                                                                         *)
(* 1. The operators of SessionRecord map sessions to sessions.             *)
(* 2. TypeCorrect: every step preserves TypeOK.                            *)
(* 3. WriteThroughHolds: if statements do not fail, memory and tables      *)
(*    agree outside the operation in progress.  WriteThrough is inductive  *)
(*    together with TypeOK.                                                *)
(* 4. StoreImplementsLedger: each step is a step of RevocationLedger;      *)
(*    the restart needs WriteThrough.                                      *)
(***************************************************************************)
EXTENDS SessionStore, FiniteSetTheorems, TLAPS

LEMMA RecordTypes ==
    ASSUME NEW sess \in Session, NEW uid \in Given, NEW mail \in Given
    PROVE  /\ \A cat \in Categories \cup {NoIntent} :
                  AfterStart(sess, uid, mail, cat) \in Session
           /\ \A why \in EndReason : AfterEnd(sess, why) \in Session
           /\ AfterRevoke(sess) \in Session
           /\ AfterRestoreUser(sess) \in Session
           /\ AfterRestoreTarget(sess) \in Session
           /\ \A d \in Decisions : AfterEvent(sess, uid, mail, d) \in Session
           /\ AfterHeartbeat(sess) \in Session
           /\ \A cat \in Categories : AfterPrompt(sess, cat) \in Session
           /\ \A why \in {"idle_timeout", "system_reset"} :
                  AfterSweep(sess, why) \in Session
<1> USE UnknownAssumption, NoIntentAssumption, IdentityAssumption
<1>1. ASSUME NEW cat \in Categories \cup {NoIntent}
      PROVE  AfterStart(sess, uid, mail, cat) \in Session
  <2>1. NewSession(uid, mail, cat) \in Session
    BY DEF NewSession, OrNA, IntentOr, Absent, Session, Status, Reason, Identity, Given
  <2>2. Reactivated(sess, uid, mail, cat) \in Session
    <3> DEFINE newUid == IF uid = Blank THEN sess.uid ELSE uid
               newMail == IF mail = Blank THEN sess.mail ELSE mail
    <3>1. newUid \in Identity /\ newMail \in Identity
      BY DEF Session, Identity, Given
    <3>2. IntentOr(cat, sess.intent) \in Categories
      BY DEF IntentOr, Session
    <3>3. CASE WasOver(sess)
      BY <3>1, <3>2, <3>3 DEF Reactivated, Session, Status, Reason
    <3>4. CASE ~WasOver(sess)
      BY <3>1, <3>2, <3>4 DEF Reactivated, Session, Status, Reason
    <3> QED
      BY <3>3, <3>4
  <2> QED
    BY <2>1, <2>2 DEF AfterStart
<1>2. /\ \A why \in EndReason : AfterEnd(sess, why) \in Session
      /\ AfterRevoke(sess) \in Session
  BY DEF AfterEnd, AfterRevoke, EndReason, Session, Status, Reason
<1>3. AfterRestoreUser(sess) \in Session /\ AfterRestoreTarget(sess) \in Session
  BY DEF AfterRestoreUser, AfterRestoreTarget, Session, Status, Reason
<1>4. ASSUME NEW d \in Decisions
      PROVE  AfterEvent(sess, uid, mail, d) \in Session
  <2> DEFINE seen == Witness(sess, uid, mail)
             woken == Woken(seen)
             named == AfterActivity(sess, uid, mail)
  <2>1. seen \in Session
    BY DEF Witness, Absent, Session, Status, Reason, Identity, Given
  <2>2. woken \in Session
    <3> HIDE DEF seen
    <3> QED
      BY <2>1 DEF Woken, Session, Status, Reason
  <2>3. named \in Session
    <3>1. Fill(woken.uid, uid) \in Identity /\ Fill(woken.mail, mail) \in Identity
      <4> HIDE DEF woken
      <4> QED
        BY <2>2 DEF Fill, Session, Identity, Given
    <3>2. named = [woken EXCEPT !.uid = Fill(@, uid), !.mail = Fill(@, mail)]
      BY DEF AfterActivity
    <3> HIDE DEF woken, named
    <3> QED
      BY <2>2, <3>1, <3>2 DEF Session
  <2>4. Counted(named, d) \in Session
    <3> DEFINE allowed == IF d = "allow" THEN named.allowed + 1 ELSE named.allowed
               denied == IF d = "deny" THEN named.denied + 1 ELSE named.denied
    <3> HIDE DEF named
    <3>1. named.total + 1 \in Nat /\ allowed \in Nat /\ denied \in Nat
      BY <2>3 DEF Session
    <3>2. Counted(named, d) =
              [named EXCEPT !.total = @ + 1, !.allowed = allowed, !.denied = denied]
      BY DEF Counted
    <3> HIDE DEF allowed, denied
    <3> QED
      BY <2>3, <3>1, <3>2 DEF Session
  <2> QED
    BY <2>4 DEF AfterEvent
<1>5. AfterHeartbeat(sess) \in Session
  BY DEF AfterHeartbeat, Session, Status, Reason
<1>6. ASSUME NEW cat \in Categories
      PROVE  AfterPrompt(sess, cat) \in Session
  BY <1>5 DEF AfterPrompt, Session
<1>7. ASSUME NEW why \in {"idle_timeout", "system_reset"}
      PROVE  AfterSweep(sess, why) \in Session
  BY DEF AfterSweep, Session, Status, Reason
<1> QED
  BY <1>1, <1>2, <1>3, <1>4, <1>5, <1>6, <1>7

LEMMA SavedType ==
    ASSUME NEW row \in Session, NEW sess \in Session
    PROVE  /\ Saved(row, sess) \in Session
           /\ Agrees(Saved(row, sess), sess)
           /\ Agrees(row, row)
           /\ Agrees(row, sess) => IsRevoked(row) = IsRevoked(sess)
<1>1. Saved(row, sess) \in Session
  BY DEF Saved, Session
<1>2. Agrees(Saved(row, sess), sess) /\ Agrees(row, row)
  BY DEF Saved, Agrees, Session
<1>3. Agrees(row, sess) => IsRevoked(row) = IsRevoked(sess)
  BY DEF Agrees, IsRevoked, Session
<1> QED
  BY <1>1, <1>2, <1>3

\* The statements an operation owes when it has changed the sessions S only.
LEMMA SaveOnlyType ==
    ASSUME NEW S \in SUBSET Sessions
    PROVE  /\ SaveOnly(S) \in Todo /\ Idle \in Todo
           /\ \A n \in Names : [SaveOnly(S) EXCEPT !.insert = {n}] \in Todo
           /\ \A n \in Names : [SaveOnly(S) EXCEPT !.delete = {n}] \in Todo
           /\ \A cat \in Categories :
                  [SaveOnly(S) EXCEPT !.stat = {cat}, !.hist = {cat}] \in Todo
           /\ [Idle EXCEPT !.wipe = Tables] \in Todo
  BY DEF SaveOnly, Idle, Todo, Tables

-----------------------------------------------------------------------------
(***************************************************************************)
(* Type correctness.                                                       *)
(***************************************************************************)

LEMMA AbsentType == Absent \in Session
  BY UnknownAssumption DEF Absent, Session, Status, Reason, Identity

LEMMA CountsType ==
    ASSUME TypeOK, NEW cat \in Categories, RecordIntent(cat)
    PROVE  intentCounts' \in [Categories -> Nat] /\ prompts' \in [Categories -> Nat]
  BY DEF TypeOK, RecordIntent

\* The counters loadFromDB ends with, read from disk or counted again.
LEMMA LoadedType ==
    ASSUME TypeOK
    PROVE  LoadedCounts \in [Categories -> Nat]
<1>1. ASSUME NEW c \in Categories
      PROVE  Legacy(c) \in Nat
  <2> DEFINE S == {s \in Sessions : Known(rows[s]) /\ rows[s].intent = c}
  <2>1. IsFiniteSet(S)
    BY SubjectAssumption, FS_Subset
  <2>2. Cardinality(S) \in Nat
    BY <2>1, FS_CardinalityType
  <2> QED
    BY <2>2 DEF Legacy
<1>2. statRows \in [Categories -> Nat]
  BY DEF TypeOK
<1> QED
  BY <1>1, <1>2 DEF LoadedCounts

LEMMA InitType == Init => TypeOK
<1>1. Idle \in Todo
  BY SaveOnlyType
<1> QED
  BY <1>1, AbsentType DEF Init, TypeOK, Callers, Zero

LEMMA SessionOpType ==
    ASSUME TypeOK, NEW s \in Sessions, SessionOp(s)
    PROVE  TypeOK'
<1> USE DEF TypeOK
<1>0. sessions[s] \in Session /\ Blank \in Given /\ "admin_revoke" \in Callers
      /\ "admin_restore" \in Callers /\ "other" \in Callers
  BY DEF Given, Callers
<1>1. ASSUME NEW uid \in Given, NEW mail \in Given, NEW cat \in Categories \cup {NoIntent},
             Start(s, uid, mail, cat)
      PROVE  TypeOK'
  <2>1. AfterStart(sessions[s], uid, mail, cat) \in Session
    BY <1>0, RecordTypes
  <2>2. CASE cat = NoIntent
    <3>1. Owes("other", SaveOnly({s})) /\ UNCHANGED intents
      BY <1>1, <2>2, NoIntentAssumption DEF Start
    <3> QED
      BY <1>0, <1>1, <2>1, <3>1, SaveOnlyType DEF Start, Owes, Update, intents, disk
  <2>3. CASE cat \in Categories
    <3>1. /\ Owes("other", [SaveOnly({s}) EXCEPT !.stat = {cat}, !.hist = {cat}])
          /\ RecordIntent(cat)
      BY <1>1, <2>3, NoIntentAssumption DEF Start
    <3> QED
      BY <1>0, <1>1, <2>1, <2>3, <3>1, SaveOnlyType, CountsType DEF Start, Owes, Update, disk
  <2> QED
    BY <2>2, <2>3
<1>2. ASSUME NEW uid \in Given, NEW mail \in Given, NEW d \in Decisions,
             RecordEvent(s, uid, mail, d)
      PROVE  TypeOK'
  <2>1. AfterEvent(sessions[s], uid, mail, d) \in Session
    BY <1>0, RecordTypes
  <2> QED
    BY <1>0, <1>2, <2>1, SaveOnlyType DEF RecordEvent, Owes, Update, intents, disk
<1>3. ASSUME NEW cat \in Categories, SetPromptAndIntent(s, cat)
      PROVE  TypeOK'
  <2>1. AfterPrompt(sessions[s], cat) \in Session
    BY <1>0, RecordTypes
  <2> QED
    BY <1>0, <1>3, <2>1, SaveOnlyType, CountsType DEF SetPromptAndIntent, Owes, Update, disk
<1>4. ASSUME NEW why \in EndReason, End(s, why)
      PROVE  TypeOK'
  <2>1. AfterEnd(sessions[s], why) \in Session
    BY <1>0, RecordTypes
  <2> QED
    BY <1>0, <1>4, <2>1, SaveOnlyType DEF End, Owes, Update, intents, disk
<1>5. CASE Heartbeat(s)
  <2>1. AfterHeartbeat(sessions[s]) \in Session
    BY <1>0, RecordTypes
  <2> QED
    BY <1>0, <1>5, <2>1, SaveOnlyType DEF Heartbeat, Owes, Update, intents, disk
<1>6. CASE RevokeSession(s) \/ RevokeTarget(s)
  <2>1. AfterRevoke(sessions[s]) \in Session
    BY <1>0, RecordTypes
  <2> QED
    BY <1>0, <1>6, <2>1, SaveOnlyType
       DEF RevokeSession, RevokeTarget, Owes, Update, intents, disk
<1>7. CASE RestoreTarget(s)
  <2>1. AfterRestoreTarget(sessions[s]) \in Session
    BY <1>0, RecordTypes
  <2> QED
    BY <1>0, <1>7, <2>1, SaveOnlyType DEF RestoreTarget, Owes, Update, intents, disk
<1> QED
  BY <1>1, <1>2, <1>3, <1>4, <1>5, <1>6, <1>7 DEF SessionOp

LEMMA UserOpType ==
    ASSUME TypeOK, NEW n \in Names, RevokeUser(n) \/ RestoreUser(n)
    PROVE  TypeOK'
<1> USE DEF TypeOK
<1>0. /\ SessionsOf(n) \in SUBSET Sessions /\ RevokedSessionsOf(n) \in SUBSET Sessions
      /\ Blank \in Given /\ "admin_revoke" \in Callers /\ "admin_restore" \in Callers
  BY DEF SessionsOf, RevokedSessionsOf, Given, Callers
<1>1. \A s \in Sessions : /\ AfterRevoke(sessions[s]) \in Session
                          /\ AfterRestoreUser(sessions[s]) \in Session
  BY <1>0, RecordTypes
<1>2. CASE RevokeUser(n)
  BY <1>0, <1>1, <1>2, SaveOnlyType DEF RevokeUser, Owes, intents, disk
<1>3. CASE RestoreUser(n)
  BY <1>0, <1>1, <1>3, SaveOnlyType DEF RestoreUser, Owes, intents, disk
<1> QED
  BY <1>2, <1>3

LEMMA SweepType ==
    ASSUME TypeOK, NEW S \in SUBSET Sessions, NEW why \in {"idle_timeout", "system_reset"},
           Sweep(S, why)
    PROVE  TypeOK'
<1> USE DEF TypeOK
<1>1. \A s \in Sessions : AfterSweep(sessions[s], why) \in Session
  <2>1. Blank \in Given
    BY DEF Given
  <2> QED
    BY <2>1, RecordTypes
<1>2. "other" \in Callers
  BY DEF Callers
<1> QED
  BY <1>1, <1>2, SaveOnlyType DEF Sweep, Owes, intents, disk

LEMMA ResetStatsType == TypeOK /\ ResetIntentStats => TypeOK'
<1>1. "other" \in Callers /\ Zero \in [Categories -> Nat]
  BY DEF Callers, Zero
<1>2. {} \in SUBSET Sessions
  OBVIOUS
<1> QED
  BY <1>1, <1>2, SaveOnlyType DEF ResetIntentStats, Owes, disk, TypeOK

LEMMA StatementType == TypeOK /\ Statement => TypeOK'
<1> SUFFICES ASSUME TypeOK, Statement
             PROVE  TypeOK'
  OBVIOUS
<1> USE DEF TypeOK, memory, Exec
<1>1. ASSUME NEW n \in Names, WriteUser(n)
      PROVE  TypeOK'
  BY <1>1 DEF WriteUser, Todo
<1>2. ASSUME NEW cat \in Categories, WriteStat(cat)
      PROVE  TypeOK'
  BY <1>2 DEF WriteStat, Todo
<1>3. ASSUME NEW cat \in Categories, WriteHistory(cat)
      PROVE  TypeOK'
  BY <1>3 DEF WriteHistory, Todo
<1>4. CASE WipeStats
  BY <1>4 DEF WipeStats, Todo, Zero
<1>5. CASE WipeHistory
  BY <1>5 DEF WipeHistory, Todo, Zero
<1>6. ASSUME NEW s \in Sessions, saveSessionToDB(s)
      PROVE  TypeOK'
  <2>1. Saved(rows[s], sessions[s]) \in Session
    BY SavedType
  <2>2. todo' \in Todo
    BY <1>6 DEF saveSessionToDB, Todo
  <2> QED
    BY <1>6, <2>1, <2>2 DEF saveSessionToDB
<1> QED
  BY <1>1, <1>2, <1>3, <1>4, <1>5, <1>6 DEF Statement

LEMMA RestartType == TypeOK /\ Restart => TypeOK'
<1>1. Idle \in Todo /\ "crash" \in Callers
  BY DEF Idle, Todo, Callers
<1> QED
  BY <1>1, LoadedType DEF Restart, disk, TypeOK

\* Every variable keeps its type (store.go, all operations and loadFromDB).
THEOREM TypeCorrect == Spec => []TypeOK
<1>1. Init => TypeOK
  BY InitType
<1>2. TypeOK /\ [Next]_vars => TypeOK'
  <2> SUFFICES ASSUME TypeOK, [Next]_vars
               PROVE  TypeOK'
    OBVIOUS
  <2>1. ASSUME NEW s \in Sessions, SessionOp(s)
        PROVE  TypeOK'
    BY <2>1, SessionOpType
  <2>2. ASSUME NEW n \in Names, RevokeUser(n) \/ RestoreUser(n)
        PROVE  TypeOK'
    BY <2>2, UserOpType
  <2>3. CASE PurgeStale
    BY <2>3, SweepType DEF PurgeStale, Active
  <2>4. CASE Reset
    BY <2>4, SweepType DEF Reset, Active
  <2>5. CASE ResetIntentStats
    BY <2>5, ResetStatsType
  <2>6. CASE Statement
    BY <2>6, StatementType
  <2>7. CASE Restart
    BY <2>7, RestartType
  <2>8. CASE UNCHANGED vars
    BY <2>8 DEF vars, memory, disk, TypeOK
  <2> QED
    BY <2>1, <2>2, <2>3, <2>4, <2>5, <2>6, <2>7, <2>8 DEF Next
<1> QED
  BY <1>1, <1>2, PTL DEF Spec

-----------------------------------------------------------------------------
(***************************************************************************)
(* What every operation of the store has in common.                        *)
(***************************************************************************)

Barred == revokedUsers \cup {s \in Sessions : IsRevoked(sessions[s])}
Unsettled == todo.save \cup todo.insert \cup todo.delete

\* It owes a row for whatever it changes in memory, ...
Frame ==
    /\ todo = Idle
    /\ UNCHANGED disk
    /\ \A s \in Sessions \ todo'.save : sessions'[s] = sessions[s]
    /\ \A n \in Names \ (todo'.insert \cup todo'.delete) :
           n \in revokedUsers' <=> n \in revokedUsers
    /\ todo'.insert \subseteq revokedUsers'
    /\ todo'.delete \cap revokedUsers' = {}

\* ... and bars or frees subjects only if an administrator asked for it.
Shape ==
    /\ Frame
    /\ \/ by' = "other" /\ Barred' = Barred
       \/ by' = "admin_revoke" /\ Barred' = Barred \cup Unsettled'
       \/ by' = "admin_restore" /\ Barred' = Barred \ Unsettled'

\* Nothing an agent does to a session revokes it or lifts its revocation.
LEMMA AgentsKeepRevocation ==
    ASSUME NEW sess \in Session, NEW uid \in Given, NEW mail \in Given
    PROVE  /\ \A cat \in Categories \cup {NoIntent} :
                  ~StartRefused(sess) => ~IsRevoked(AfterStart(sess, uid, mail, cat))
           /\ ~EndRefused(sess) => \A why \in EndReason : ~IsRevoked(AfterEnd(sess, why))
           /\ \A d \in Decisions :
                  IsRevoked(AfterEvent(sess, uid, mail, d)) <=> IsRevoked(sess)
           /\ IsRevoked(AfterHeartbeat(sess)) <=> IsRevoked(sess)
           /\ \A cat \in Categories : IsRevoked(AfterPrompt(sess, cat)) <=> IsRevoked(sess)
           /\ \A why \in {"idle_timeout", "system_reset"} : ~IsRevoked(AfterSweep(sess, why))
<1> USE DEF Session, IsRevoked
<1>1. ASSUME NEW cat \in Categories \cup {NoIntent}
      PROVE  ~IsRevoked(AfterStart(sess, uid, mail, cat))
  BY DEF AfterStart, Reactivated, NewSession, Absent
<1>2. \A why \in EndReason : ~IsRevoked(AfterEnd(sess, why))
  BY DEF AfterEnd
<1>3. ASSUME NEW d \in Decisions
      PROVE  IsRevoked(AfterEvent(sess, uid, mail, d)) <=> IsRevoked(sess)
  <2> DEFINE seen == Witness(sess, uid, mail)
             woken == Woken(seen)
             named == AfterActivity(sess, uid, mail)
  <2>0. DOMAIN sess = DOMAIN Absent /\ "status" \in DOMAIN Absent
    BY DEF Absent
  <2>1. /\ seen.status = "revoked" <=> sess.status = "revoked"
        /\ "status" \in DOMAIN seen
    BY <2>0 DEF Witness, Known, Absent
  <2>2. /\ woken.status = "revoked" <=> seen.status = "revoked"
        /\ "status" \in DOMAIN woken
    <3> HIDE DEF seen
    <3> QED
      BY <2>1 DEF Woken
  <2>3. named.status = woken.status /\ "status" \in DOMAIN named
    <3>1. named = [woken EXCEPT !.uid = Fill(@, uid), !.mail = Fill(@, mail)]
      BY DEF AfterActivity
    <3> HIDE DEF woken, named
    <3> QED
      BY <2>2, <3>1
  <2>4. Counted(named, d).status = named.status
    <3> HIDE DEF named
    <3> QED
      BY <2>3 DEF Counted
  <2> QED
    BY <2>1, <2>2, <2>3, <2>4 DEF AfterEvent
<1>4. IsRevoked(AfterHeartbeat(sess)) <=> IsRevoked(sess)
  BY DEF AfterHeartbeat, TimedOut
<1>5. ASSUME NEW cat \in Categories
      PROVE  IsRevoked(AfterPrompt(sess, cat)) <=> IsRevoked(sess)
  BY DEF AfterPrompt, AfterHeartbeat, TimedOut
<1>6. ASSUME NEW why \in {"idle_timeout", "system_reset"}
      PROVE  ~IsRevoked(AfterSweep(sess, why))
  BY DEF AfterSweep
<1> QED
  BY <1>1, <1>2, <1>3, <1>4, <1>5, <1>6

LEMMA AdminRevokes ==
    ASSUME NEW sess \in Session
    PROVE  /\ IsRevoked(AfterRevoke(sess))
           /\ ~IsRevoked(AfterRestoreUser(sess))
           /\ ~IsRevoked(AfterRestoreTarget(sess))
           /\ ~IsRevoked(sess) => AfterRestoreUser(sess) = sess
  BY DEF IsRevoked, AfterRevoke, AfterRestoreUser, AfterRestoreTarget, Session

LEMMA TodoFields ==
    ASSUME NEW S \in SUBSET Sessions
    PROVE  /\ SaveOnly(S).save = S /\ SaveOnly(S).insert = {} /\ SaveOnly(S).delete = {}
           /\ \A n \in Names :
                 LET t == [SaveOnly(S) EXCEPT !.insert = {n}]
                     u == [SaveOnly(S) EXCEPT !.delete = {n}]
                 IN  /\ t.save = S /\ t.insert = {n} /\ t.delete = {}
                     /\ u.save = S /\ u.insert = {} /\ u.delete = {n}
           /\ \A cat \in Categories :
                 LET t == [SaveOnly(S) EXCEPT !.stat = {cat}, !.hist = {cat}]
                 IN  t.save = S /\ t.insert = {} /\ t.delete = {}
           /\ LET t == [Idle EXCEPT !.wipe = Tables]
              IN  t.save = {} /\ t.insert = {} /\ t.delete = {}
  BY DEF SaveOnly, Idle

\* An operation on one session that owes its row, and on whose behalf.
One(s, who) ==
    /\ todo = Idle
    /\ by' = who
    /\ todo'.save = {s} /\ todo'.insert = {} /\ todo'.delete = {}
    /\ UNCHANGED <<revokedUsers, disk>>
    /\ \A r \in Sessions \ {s} : sessions'[r] = sessions[r]

LEMMA OneShape ==
    ASSUME TypeOK, NEW s \in Sessions, NEW who, One(s, who),
           \/ who = "other" /\ (IsRevoked(sessions'[s]) <=> IsRevoked(sessions[s]))
           \/ who = "admin_revoke" /\ IsRevoked(sessions'[s])
           \/ who = "admin_restore" /\ ~IsRevoked(sessions'[s])
    PROVE  Shape
<1>1. Frame
  BY DEF One, Frame
<1>2. Unsettled' = {s} /\ s \notin Names /\ revokedUsers \subseteq Names
  BY SubjectAssumption DEF One, Unsettled, TypeOK
<1>3. \A r \in Sessions \ {s} : IsRevoked(sessions'[r]) <=> IsRevoked(sessions[r])
  BY DEF One
<1>4. revokedUsers' = revokedUsers /\ by' = who
  BY DEF One
<1> QED
  BY <1>1, <1>2, <1>3, <1>4 DEF Shape, Barred

LEMMA SessionOpShape ==
    ASSUME TypeOK, NEW s \in Sessions, SessionOp(s)
    PROVE  Shape
<1>0. /\ sessions[s] \in Session /\ Blank \in Given /\ sessions \in [Sessions -> Session]
      /\ {s} \in SUBSET Sessions
  BY DEF Given, TypeOK
<1> USE DEF Free, Owes, Update, One
<1>1. ASSUME NEW uid \in Given, NEW mail \in Given, NEW cat \in Categories \cup {NoIntent},
             Start(s, uid, mail, cat)
      PROVE  Shape
  <2>1. \/ todo' = SaveOnly({s})
        \/ \E c \in Categories : todo' = [SaveOnly({s}) EXCEPT !.stat = {c}, !.hist = {c}]
    BY <1>1 DEF Start
  <2>2. todo'.save = {s} /\ todo'.insert = {} /\ todo'.delete = {}
    <3>1. CASE todo' = SaveOnly({s})
      BY <1>0, <3>1, TodoFields
    <3>2. ASSUME NEW c \in Categories,
                 todo' = [SaveOnly({s}) EXCEPT !.stat = {c}, !.hist = {c}]
          PROVE  todo'.save = {s} /\ todo'.insert = {} /\ todo'.delete = {}
      BY <1>0, <3>2 DEF SaveOnly, Idle
    <3> QED
      BY <2>1, <3>1, <3>2
  <2>3. One(s, "other")
    BY <1>0, <1>1, <2>2 DEF Start
  <2>4. sessions'[s] = AfterStart(sessions[s], uid, mail, cat) /\ ~StartRefused(sessions[s])
    BY <1>0, <1>1 DEF Start
  <2>5. ~IsRevoked(sessions'[s]) /\ ~IsRevoked(sessions[s])
    BY <1>0, <2>4, AgentsKeepRevocation DEF StartRefused
  <2> QED
    BY <2>3, <2>5, OneShape
<1>2. ASSUME NEW uid \in Given, NEW mail \in Given, NEW d \in Decisions,
             RecordEvent(s, uid, mail, d)
      PROVE  Shape
  <2>1. One(s, "other") /\ sessions'[s] = AfterEvent(sessions[s], uid, mail, d)
    BY <1>0, <1>2, TodoFields DEF RecordEvent
  <2>2. IsRevoked(sessions'[s]) <=> IsRevoked(sessions[s])
    BY <1>0, <2>1, AgentsKeepRevocation
  <2> QED
    BY <2>1, <2>2, OneShape
<1>3. ASSUME NEW cat \in Categories, SetPromptAndIntent(s, cat)
      PROVE  Shape
  <2>1. One(s, "other") /\ sessions'[s] = AfterPrompt(sessions[s], cat)
    BY <1>0, <1>3, TodoFields DEF SetPromptAndIntent
  <2>2. IsRevoked(sessions'[s]) <=> IsRevoked(sessions[s])
    BY <1>0, <2>1, AgentsKeepRevocation
  <2> QED
    BY <2>1, <2>2, OneShape
<1>4. ASSUME NEW why \in EndReason, End(s, why)
      PROVE  Shape
  <2>1. /\ One(s, "other")
        /\ sessions'[s] = AfterEnd(sessions[s], why)
        /\ ~EndRefused(sessions[s])
    BY <1>0, <1>4, TodoFields DEF End
  <2>2. ~IsRevoked(sessions'[s]) /\ ~IsRevoked(sessions[s])
    BY <1>0, <2>1, AgentsKeepRevocation DEF EndRefused
  <2> QED
    BY <2>1, <2>2, OneShape
<1>5. CASE Heartbeat(s)
  <2>1. One(s, "other") /\ sessions'[s] = AfterHeartbeat(sessions[s])
    BY <1>0, <1>5, TodoFields DEF Heartbeat
  <2>2. IsRevoked(sessions'[s]) <=> IsRevoked(sessions[s])
    BY <1>0, <2>1, AgentsKeepRevocation
  <2> QED
    BY <2>1, <2>2, OneShape
<1>6. CASE RevokeSession(s) \/ RevokeTarget(s)
  <2>1. One(s, "admin_revoke") /\ sessions'[s] = AfterRevoke(sessions[s])
    BY <1>0, <1>6, TodoFields DEF RevokeSession, RevokeTarget
  <2> QED
    BY <1>0, <2>1, OneShape, AdminRevokes
<1>7. CASE RestoreTarget(s)
  <2>1. One(s, "admin_restore") /\ sessions'[s] = AfterRestoreTarget(sessions[s])
    BY <1>0, <1>7, TodoFields DEF RestoreTarget
  <2> QED
    BY <1>0, <2>1, OneShape, AdminRevokes
<1> QED
  BY <1>1, <1>2, <1>3, <1>4, <1>5, <1>6, <1>7 DEF SessionOp

LEMMA UserOpShape ==
    ASSUME TypeOK, NEW n \in Names, RevokeUser(n) \/ RestoreUser(n)
    PROVE  Shape
<1>0. /\ sessions \in [Sessions -> Session] /\ Sessions \cap Names = {}
      /\ SessionsOf(n) \in SUBSET Sessions /\ RevokedSessionsOf(n) \in SUBSET SessionsOf(n)
  BY SubjectAssumption DEF TypeOK, SessionsOf, RevokedSessionsOf
<1> USE DEF Free, Owes
<1>1. CASE RevokeUser(n)
  <2>1. /\ todo'.save = SessionsOf(n) /\ todo'.insert = {n} /\ todo'.delete = {}
        /\ \A s \in Sessions : sessions'[s] = IF s \in SessionsOf(n)
                                             THEN AfterRevoke(sessions[s]) ELSE sessions[s]
        /\ revokedUsers' = revokedUsers \cup {n} /\ by' = "admin_revoke"
        /\ todo = Idle /\ UNCHANGED disk
    BY <1>0, <1>1, TodoFields DEF RevokeUser
  <2>2. Frame
    BY <2>1 DEF Frame
  <2>3. Unsettled' = SessionsOf(n) \cup {n}
    BY <2>1 DEF Unsettled
  <2>4. \A s \in Sessions : IsRevoked(sessions'[s]) <=>
            s \in SessionsOf(n) \/ IsRevoked(sessions[s])
    BY <1>0, <2>1, AdminRevokes
  <2>5. Barred' = Barred \cup Unsettled'
    BY <1>0, <2>1, <2>3, <2>4 DEF Barred
  <2> QED
    BY <2>1, <2>2, <2>5 DEF Shape
<1>2. CASE RestoreUser(n)
  <2>1. /\ todo'.save = RevokedSessionsOf(n) /\ todo'.insert = {} /\ todo'.delete = {n}
        /\ \A s \in Sessions : sessions'[s] = IF s \in SessionsOf(n)
                                             THEN AfterRestoreUser(sessions[s]) ELSE sessions[s]
        /\ revokedUsers' = revokedUsers \ {n} /\ by' = "admin_restore"
        /\ todo = Idle /\ UNCHANGED disk
    BY <1>0, <1>2, TodoFields DEF RestoreUser
  <2>2. \A s \in Sessions \ RevokedSessionsOf(n) : sessions'[s] = sessions[s]
    BY <1>0, <2>1, AdminRevokes DEF RevokedSessionsOf
  <2>3. Frame
    BY <2>1, <2>2 DEF Frame
  <2>4. Unsettled' = RevokedSessionsOf(n) \cup {n}
    BY <2>1 DEF Unsettled
  <2>5. \A s \in RevokedSessionsOf(n) : ~IsRevoked(sessions'[s])
    BY <1>0, <2>1, AdminRevokes
  <2>6. Barred' = Barred \ Unsettled'
    <3>1. \A s \in Sessions : IsRevoked(sessions'[s]) <=>
              IsRevoked(sessions[s]) /\ s \notin RevokedSessionsOf(n)
      BY <2>2, <2>5
    <3>2. revokedUsers \subseteq Names
      BY DEF TypeOK
    <3> QED
      BY <1>0, <2>1, <2>4, <3>1, <3>2 DEF Barred
  <2> QED
    BY <2>1, <2>3, <2>6 DEF Shape
<1> QED
  BY <1>1, <1>2

LEMMA SweepShape ==
    ASSUME TypeOK, NEW S \in SUBSET Active, NEW why \in {"idle_timeout", "system_reset"},
           Sweep(S, why)
    PROVE  Shape
<1>0. S \in SUBSET Sessions /\ \A s \in S : sessions[s] \in Session /\ ~IsRevoked(sessions[s])
  BY DEF TypeOK, Active, IsRevoked
<1>1. /\ todo'.save = S /\ todo'.insert = {} /\ todo'.delete = {}
      /\ \A s \in Sessions : sessions'[s] = IF s \in S THEN AfterSweep(sessions[s], why)
                                                  ELSE sessions[s]
      /\ revokedUsers' = revokedUsers /\ by' = "other"
      /\ todo = Idle /\ UNCHANGED disk
  BY <1>0, TodoFields DEF Sweep, Free, Owes
<1>2. Frame
  BY <1>1 DEF Frame
<1>3. Blank \in Given
  BY DEF Given
<1>4. \A s \in S : ~IsRevoked(AfterSweep(sessions[s], why))
  BY <1>0, <1>3, AgentsKeepRevocation
<1>5. \A s \in Sessions : IsRevoked(sessions'[s]) <=> IsRevoked(sessions[s])
  BY <1>0, <1>1, <1>4
<1> QED
  BY <1>1, <1>2, <1>5 DEF Shape, Barred

LEMMA ResetStatsShape == ResetIntentStats => Shape
<1> SUFFICES ASSUME ResetIntentStats
             PROVE  Shape
  OBVIOUS
<1>1. todo'.save = {} /\ todo'.insert = {} /\ todo'.delete = {} /\ by' = "other"
  BY TodoFields DEF ResetIntentStats, Owes
<1>2. todo = Idle /\ UNCHANGED <<sessions, revokedUsers, disk>>
  BY DEF ResetIntentStats, Free
<1> QED
  BY <1>1, <1>2 DEF Shape, Frame, Barred

Operation ==
    \/ \E s \in Sessions : SessionOp(s)
    \/ \E n \in Names : RevokeUser(n) \/ RestoreUser(n)
    \/ PurgeStale
    \/ Reset
    \/ ResetIntentStats

LEMMA OperationShape == TypeOK /\ Operation => Shape
<1> SUFFICES ASSUME TypeOK, Operation
             PROVE  Shape
  OBVIOUS
<1>1. CASE PurgeStale
  BY <1>1, SweepShape DEF PurgeStale
<1>2. CASE Reset
  BY <1>2, SweepShape DEF Reset
<1> QED
  BY <1>1, <1>2, SessionOpShape, UserOpShape, ResetStatsShape DEF Operation

-----------------------------------------------------------------------------
(***************************************************************************)
(* Write-through.                                                          *)
(***************************************************************************)

LEMMA FrameKeepsWriteThrough == WriteThrough /\ Frame => WriteThrough'
<1> SUFFICES ASSUME WriteThrough, Frame
             PROVE  WriteThrough'
  OBVIOUS
<1>1. todo.save = {} /\ todo.insert = {} /\ todo.delete = {}
  BY DEF Frame, Idle
<1> QED
  BY <1>1 DEF WriteThrough, Frame, disk

LEMMA StatementKeepsWriteThrough ==
    ASSUME ~WriteErrors, TypeOK, WriteThrough, Statement
    PROVE  WriteThrough'
<1> USE DEF TypeOK, memory, Exec, WriteThrough
<1>1. ASSUME NEW n \in Names, WriteUser(n)
      PROVE  WriteThrough'
  <2>1. /\ todo'.save = todo.save /\ UNCHANGED <<sessions, revokedUsers, rows>>
        /\ todo'.insert = todo.insert \ {n} /\ todo'.delete = todo.delete \ {n}
    BY <1>1 DEF WriteUser, Todo
  <2>2. \A m \in Names \ {n} : m \in userRows' <=> m \in userRows
    BY <1>1 DEF WriteUser
  <2>3. n \in userRows' <=> n \in revokedUsers
    BY <1>1 DEF WriteUser
  <2> QED
    BY <2>1, <2>2, <2>3
<1>2. ASSUME NEW cat \in Categories, WriteStat(cat) \/ WriteHistory(cat)
      PROVE  WriteThrough'
  BY <1>2 DEF WriteStat, WriteHistory, Todo
<1>3. CASE WipeStats \/ WipeHistory
  BY <1>3 DEF WipeStats, WipeHistory, Todo
<1>4. ASSUME NEW s \in Sessions, saveSessionToDB(s)
      PROVE  WriteThrough'
  <2>1. /\ rows'[s] = Saved(rows[s], sessions[s])
        /\ \A r \in Sessions \ {s} : rows'[r] = rows[r]
        /\ todo' = [todo EXCEPT !.save = @ \ {s}]
        /\ UNCHANGED <<sessions, revokedUsers, userRows>>
    BY <1>4 DEF saveSessionToDB
  <2>2. Agrees(rows'[s], sessions'[s])
    BY <2>1, SavedType
  <2> QED
    BY <2>1, <2>2 DEF Todo
<1> QED
  BY <1>1, <1>2, <1>3, <1>4 DEF Statement

LEMMA RestartKeepsWriteThrough ==
    ASSUME TypeOK, Restart
    PROVE  WriteThrough'
<1>1. \A s \in Sessions : Agrees(rows[s], rows[s])
  BY SavedType DEF TypeOK
<1>2. todo'.insert = {} /\ todo'.delete = {}
  BY DEF Restart, Idle
<1> QED
  BY <1>1, <1>2 DEF Restart, disk, WriteThrough

LEMMA InitWriteThrough == Init => WriteThrough
<1>1. Agrees(Absent, Absent)
  BY AbsentType, SavedType
<1>2. Idle.insert = {} /\ Idle.delete = {}
  BY DEF Idle
<1> QED
  BY <1>1, <1>2 DEF Init, WriteThrough

\* What an operation that has returned did to statuses, counters, reasons and
\* revoked users is on disk (saveSessionToDB, RevokeUser, RestoreUser), as long
\* as no statement fails.
THEOREM WriteThroughHolds == ~WriteErrors => (Spec => []WriteThrough)
<1> SUFFICES ASSUME ~WriteErrors
             PROVE  Spec => []WriteThrough
  OBVIOUS
<1>1. Init => WriteThrough
  BY InitWriteThrough
<1>2. TypeOK /\ WriteThrough /\ [Next]_vars => WriteThrough'
  <2> SUFFICES ASSUME TypeOK, WriteThrough, [Next]_vars
               PROVE  WriteThrough'
    OBVIOUS
  <2>1. CASE Operation
    BY <2>1, OperationShape, FrameKeepsWriteThrough DEF Shape
  <2>2. CASE Statement
    BY <2>2, StatementKeepsWriteThrough
  <2>3. CASE Restart
    BY <2>3, RestartKeepsWriteThrough
  <2>4. CASE UNCHANGED vars
    BY <2>4 DEF vars, memory, disk, WriteThrough
  <2> QED
    BY <2>1, <2>2, <2>3, <2>4 DEF Next, Operation
<1> QED
  BY <1>1, <1>2, TypeCorrect, PTL DEF Spec

-----------------------------------------------------------------------------
(***************************************************************************)
(* Refinement of the ledger.                                               *)
(***************************************************************************)

Subjects == Sessions \cup Names

LEMMA NextSubjects ==
    TypeOK' => Unsettled' \in SUBSET Subjects /\ Barred' \in SUBSET Subjects
  BY DEF TypeOK, Todo, Unsettled, Barred, Subjects

LEMMA OperationImplements ==
    ASSUME TypeOK, TypeOK', Operation
    PROVE  Ledger!Next
<1>1. Shape
  BY OperationShape
<1>2. Unsettled = {} /\ Unsettled' \in SUBSET Subjects
  BY <1>1, NextSubjects DEF Shape, Frame, Idle, Unsettled
<1>3. \/ Ledger!Use(Unsettled') \/ Ledger!Revoke(Unsettled') \/ Ledger!Restore(Unsettled')
  BY <1>1, <1>2 DEF Shape, Barred, Unsettled, Ledger!Use, Ledger!Revoke, Ledger!Restore
<1> QED
  BY <1>2, <1>3 DEF Ledger!Next, Subjects

LEMMA StatementImplements ==
    ASSUME TypeOK, Statement
    PROVE  Ledger!Next
<1>1. UNCHANGED <<by, memory>>
  BY DEF Statement, WriteUser, WriteStat, WriteHistory, WipeStats, WipeHistory,
         saveSessionToDB
<1>2. PICK S \in SUBSET Subjects : Unsettled' = Unsettled \ S
  <2> USE DEF TypeOK, Todo, Unsettled, Subjects
  <2>1. ASSUME NEW n \in Names, WriteUser(n)
        PROVE  Unsettled' = Unsettled \ {n}
    BY <2>1, SubjectAssumption DEF WriteUser
  <2>2. ASSUME NEW cat \in Categories, WriteStat(cat) \/ WriteHistory(cat)
        PROVE  Unsettled' = Unsettled \ {}
    BY <2>2 DEF WriteStat, WriteHistory
  <2>3. ASSUME WipeStats \/ WipeHistory
        PROVE  Unsettled' = Unsettled \ {}
    BY <2>3 DEF WipeStats, WipeHistory
  <2>4. ASSUME NEW s \in Sessions, saveSessionToDB(s)
        PROVE  Unsettled' = Unsettled \ {s}
    BY <2>4, SubjectAssumption DEF saveSessionToDB
  <2> QED
    <3>1. {} \in SUBSET Subjects
      OBVIOUS
    <3>2. \A x \in Subjects : {x} \in SUBSET Subjects
      OBVIOUS
    <3> HIDE DEF TypeOK, Todo, Unsettled
    <3> QED
      BY <2>1, <2>2, <2>3, <2>4, <3>1, <3>2 DEF Statement
<1>3. Ledger!Settle(S)
  BY <1>1, <1>2 DEF Ledger!Settle, Unsettled, memory
<1> QED
  BY <1>2, <1>3 DEF Ledger!Next, Subjects

LEMMA RestartImplements ==
    ASSUME TypeOK, TypeOK', WriteThrough, Restart
    PROVE  Ledger!Next
<1>1. by' = "crash" /\ Unsettled' = {} /\ sessions' = rows /\ revokedUsers' = userRows
  BY DEF Restart, Idle, Unsettled
<1>2. \A s \in Sessions \ Unsettled : IsRevoked(rows[s]) <=> IsRevoked(sessions[s])
  BY SavedType DEF TypeOK, WriteThrough, Unsettled
<1>3. \A n \in Names \ Unsettled : n \in userRows <=> n \in revokedUsers
  BY DEF WriteThrough, Unsettled
<1>4. Barred' = (Barred \ Unsettled) \cup (Barred' \cap Unsettled)
  BY <1>1, <1>2, <1>3, SubjectAssumption DEF TypeOK, Barred
<1>5. Ledger!Crash(Barred')
  BY <1>1, <1>4 DEF Ledger!Crash, Barred, Unsettled
<1> QED
  BY <1>5, NextSubjects DEF Ledger!Next, Subjects

\* Revocations are lifted by restores only, over whatever agents do and over
\* restarts of the server: the store implements RevocationLedger.
THEOREM StoreImplementsLedger == ~WriteErrors => (Spec => ImplementsLedger)
<1> SUFFICES ASSUME ~WriteErrors
             PROVE  Spec => ImplementsLedger
  OBVIOUS
<1>1. Init => Ledger!Init
  <2>1. Idle.save = {} /\ Idle.insert = {} /\ Idle.delete = {} /\ ~IsRevoked(Absent)
    BY DEF Idle, IsRevoked, Absent
  <2> QED
    BY <2>1 DEF Init, Ledger!Init
<1>2. TypeOK /\ TypeOK' /\ WriteThrough /\ [Next]_vars => [Ledger!Next]_(Ledger!ledger)
  <2> SUFFICES ASSUME TypeOK, TypeOK', WriteThrough, [Next]_vars
               PROVE  [Ledger!Next]_(Ledger!ledger)
    OBVIOUS
  <2>1. CASE Operation
    BY <2>1, OperationImplements
  <2>2. CASE Statement
    BY <2>2, StatementImplements
  <2>3. CASE Restart
    BY <2>3, RestartImplements
  <2>4. CASE UNCHANGED vars
    BY <2>4 DEF vars, memory, Ledger!ledger
  <2> QED
    BY <2>1, <2>2, <2>3, <2>4 DEF Next, Operation
<1> QED
  BY <1>1, <1>2, TypeCorrect, WriteThroughHolds, PTL DEF Spec, Ledger!Spec, ImplementsLedger

=============================================================================
