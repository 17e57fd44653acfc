----------------------- MODULE SessionCoherenceProofs -----------------------
(***************************************************************************)
(* CloseReasonFits and CountersAddUp for any sessions, names, bounds, and  *)
(* whatever crashes and failed statements do.                              *)
(*                                                                         *)
(* Neither is inductive: a restart copies the table into memory, so the    *)
(* rows must be coherent as well.  A row is, even when the statement that  *)
(* would have replaced it failed, since each statement writes a session    *)
(* that was coherent in memory.                                            *)
(*                                                                         *)
(* TotalPromptsAddUp and HistoryAgreesWithStats, for any categories: a sum *)
(* over a set is what the fold of the community modules computes, shown by *)
(* induction over the size of the set, and one more prompt in one category *)
(* is one more in the sum.  The second is not inductive: between two       *)
(* statements the tables differ by what is still owed to one of them.      *)
(***************************************************************************)
EXTENDS SessionStoreProofs, WellFoundedInduction

Coherent(sess) == ReasonFits(sess) /\ AddsUp(sess)

AllCoherent ==
    \A s \in Sessions : Coherent(sessions[s]) /\ Coherent(rows[s])

-----------------------------------------------------------------------------
\* An event finds, or makes, a session and completes its names.
LEMMA ActivityType ==
    ASSUME NEW sess \in Session, NEW uid \in Given, NEW mail \in Given
    PROVE  /\ Witness(sess, uid, mail) \in Session
           /\ Woken(Witness(sess, uid, mail)) \in Session
           /\ AfterActivity(sess, uid, mail) \in Session
<1> USE UnknownAssumption
<1> DEFINE seen == Witness(sess, uid, mail)
           woken == Woken(seen)
           named == AfterActivity(sess, uid, mail)
<1>1. seen \in Session
  BY DEF Witness, Absent, Session, Status, Reason, Identity, Given
<1>2. woken \in Session
  <2> HIDE DEF seen
  <2>. QED BY <1>1 DEF Woken, Session, Status, Reason
<1>3. named \in Session
  <2>1. Fill(woken.uid, uid) \in Identity /\ Fill(woken.mail, mail) \in Identity
    <3> HIDE DEF woken
    <3>. QED BY <1>2 DEF Fill, Session, Identity, Given
  <2>2. named = [woken EXCEPT !.uid = Fill(@, uid), !.mail = Fill(@, mail)]
    BY DEF AfterActivity
  <2> HIDE DEF woken, named
  <2>. QED BY <1>2, <2>1, <2>2 DEF Session
<1>. QED BY <1>1, <1>2, <1>3

\* A session that starts is coherent, whether it is new, kept or re-activated.
LEMMA StartCoherent ==
    ASSUME NEW sess \in Session, Coherent(sess), ~StartRefused(sess),
           NEW uid \in Given, NEW mail \in Given, NEW cat \in Categories \cup {NoIntent}
    PROVE  Coherent(AfterStart(sess, uid, mail, cat))
<1>1. Coherent(NewSession(uid, mail, cat))
  <2> DEFINE new == NewSession(uid, mail, cat)
  <2>1. new.status = "active" /\ new.reason = ""
    BY DEF NewSession, Absent
  <2>4. new.total = 0 /\ new.allowed = 0 /\ new.denied = 0
    BY DEF NewSession, Absent
  <2> HIDE DEF new
  <2>2. ReasonFits(new)
    BY <2>1 DEF ReasonFits
  <2>3. AddsUp(new)
    BY <2>4 DEF AddsUp
  <2>. QED BY <2>2, <2>3 DEF new, Coherent
<1>2. Coherent(Reactivated(sess, uid, mail, cat))
  <2> DEFINE new == Reactivated(sess, uid, mail, cat)
  <2>1. /\ new.status = "active" /\ new.reason = ""
        /\ new.total = IF WasOver(sess) THEN 0 ELSE sess.total
        /\ new.allowed = IF WasOver(sess) THEN 0 ELSE sess.allowed
        /\ new.denied = IF WasOver(sess) THEN 0 ELSE sess.denied
    BY DEF Reactivated, Session
  <2> HIDE DEF new
  <2>2. ReasonFits(new)
    BY <2>1 DEF ReasonFits
  <2>3. ASSUME WasOver(sess) PROVE Coherent(new)
    <3>1. new.total = 0 /\ new.allowed = 0 /\ new.denied = 0
      BY <2>1, <2>3
    <3>. QED BY <2>2, <3>1 DEF Coherent, AddsUp
  <2>4. ASSUME ~WasOver(sess) PROVE Coherent(new)
    <3>1. new.total = sess.total /\ new.allowed = sess.allowed /\ new.denied = sess.denied
      BY <2>1, <2>4
    <3>. QED BY <2>2, <3>1 DEF Coherent, AddsUp
  <2>. QED BY <2>3, <2>4 DEF new
<1>. QED BY <1>1, <1>2 DEF AfterStart

\* Counting one event keeps the sum of the decisions within the total.
LEMMA EventCoherent ==
    ASSUME NEW sess \in Session, Coherent(sess),
           NEW uid \in Given, NEW mail \in Given, NEW d \in Decisions
    PROVE  Coherent(AfterEvent(sess, uid, mail, d))
<1> USE DEF Coherent
<1> DEFINE seen == Witness(sess, uid, mail)
           woken == Woken(seen)
           named == AfterActivity(sess, uid, mail)
<1>1. seen \in Session /\ Coherent(seen)
  <2>1. seen \in Session
    BY ActivityType
  <2>2. CASE Known(sess)
    BY <2>1, <2>2 DEF Witness
  <2>3. CASE ~Known(sess)
    <3>1. seen.status = "active" /\ seen.reason = ""
      BY <2>3 DEF Witness, Absent
    <3>4. seen.total = 0 /\ seen.allowed = 0 /\ seen.denied = 0
      BY <2>3 DEF Witness, Absent
    <3>2. ReasonFits(seen)
      BY <3>1 DEF ReasonFits
    <3>3. AddsUp(seen)
      <4> HIDE DEF seen
      <4>. QED BY <3>4 DEF AddsUp
    <3>. QED BY <2>1, <3>2, <3>3
  <2>. QED BY <2>2, <2>3
<1>2. /\ woken.total = seen.total /\ woken.allowed = seen.allowed
      /\ woken.denied = seen.denied /\ ReasonFits(woken)
  <2> HIDE DEF seen
  <2>1. CASE IsRevoked(seen)
    BY <1>1, <2>1 DEF Woken
  <2>2. CASE ~IsRevoked(seen) /\ seen.status = "active"
    BY <1>1, <2>2 DEF Woken, Session, ReasonFits
  <2>3. CASE ~IsRevoked(seen) /\ seen.status # "active"
    BY <1>1, <2>3 DEF Woken, Session, ReasonFits
  <2>. QED BY <2>1, <2>2, <2>3
<1>3. named \in Session
  BY ActivityType
<1>4. /\ named.total = seen.total /\ named.allowed = seen.allowed
      /\ named.denied = seen.denied /\ ReasonFits(named)
  <2>1. named = [woken EXCEPT !.uid = Fill(@, uid), !.mail = Fill(@, mail)]
    BY DEF AfterActivity
  <2>2. woken \in Session
    BY ActivityType
  <2> HIDE DEF named, woken, seen
  <2>. QED BY <1>2, <2>1, <2>2 DEF Session, ReasonFits
<1>5. Coherent(Counted(named, d))
  <2> HIDE DEF named, woken, seen
  <2>1. named.allowed + named.denied <= named.total
    BY <1>1, <1>4 DEF AddsUp
  <2>2. /\ named.allowed \in Nat /\ named.denied \in Nat /\ named.total \in Nat
    BY <1>3 DEF Session
  <2> DEFINE new == Counted(named, d)
  <2>3. /\ new.total = named.total + 1
        /\ new.allowed = IF d = "allow" THEN named.allowed + 1 ELSE named.allowed
        /\ new.denied = IF d = "deny" THEN named.denied + 1 ELSE named.denied
        /\ new.status = named.status /\ new.reason = named.reason /\ new.ended = named.ended
    BY <1>3 DEF Counted, Session
  <2> HIDE DEF new
  <2>4. AddsUp(new)
    BY <2>1, <2>2, <2>3 DEF AddsUp
  <2>. QED BY <1>4, <2>3, <2>4 DEF ReasonFits, new
<1>. QED BY <1>5 DEF AfterEvent

\* Ends, administrators, heartbeats, prompts and sweeps leave the counters.
LEMMA OthersCoherent ==
    ASSUME NEW sess \in Session, Coherent(sess)
    PROVE  /\ \A why \in EndReason : Coherent(AfterEnd(sess, why))
           /\ Coherent(AfterRevoke(sess))
           /\ Coherent(AfterRestoreUser(sess))
           /\ Coherent(AfterRestoreTarget(sess))
           /\ Coherent(AfterHeartbeat(sess))
           /\ \A cat \in Categories : Coherent(AfterPrompt(sess, cat))
           /\ \A why \in {"idle_timeout", "system_reset"} : Coherent(AfterSweep(sess, why))
<1> USE DEF Coherent, ReasonFits, AddsUp, Session
<1>1. \A why \in EndReason : Coherent(AfterEnd(sess, why))
  BY DEF AfterEnd, EndReason
<1>2. Coherent(AfterRevoke(sess))
  BY DEF AfterRevoke
<1>3. Coherent(AfterRestoreUser(sess))
  BY DEF AfterRestoreUser, IsRevoked
<1>4. Coherent(AfterRestoreTarget(sess))
  BY DEF AfterRestoreTarget
<1>5. Coherent(AfterHeartbeat(sess)) /\ AfterHeartbeat(sess) \in Session
  BY DEF AfterHeartbeat, Status, Reason
<1>6. ASSUME NEW cat \in Categories
      PROVE  Coherent(AfterPrompt(sess, cat))
  <2> DEFINE beat == AfterHeartbeat(sess)
  <2> HIDE DEF beat
  <2>1. AfterPrompt(sess, cat) = [beat EXCEPT !.intent = cat]
    BY DEF AfterPrompt, beat
  <2>2. Coherent(beat) /\ beat \in Session
    BY <1>5 DEF beat
  <2>. QED BY <2>1, <2>2
<1>7. \A why \in {"idle_timeout", "system_reset"} : Coherent(AfterSweep(sess, why))
  BY DEF AfterSweep
<1>. QED BY <1>1, <1>2, <1>3, <1>4, <1>5, <1>6, <1>7

\* A row keeps the identity of its insert and takes the rest.
LEMMA SavedCoherent ==
    ASSUME NEW row \in Session, NEW sess \in Session, Coherent(sess)
    PROVE  Coherent(Saved(row, sess))
BY DEF Saved, Coherent, ReasonFits, AddsUp, Session

\* An id that is not in the map: there is nothing to add up.
LEMMA AbsentCoherent == Coherent(Absent)
BY DEF Coherent, ReasonFits, AddsUp, Absent

-----------------------------------------------------------------------------
(***************************************************************************)
(* The steps.                                                              *)
(***************************************************************************)

\* Replacing some sessions by coherent ones, with the tables as they are.
LEMMA UpdateKeepsCoherence ==
    ASSUME AllCoherent, TypeOK', NEW S \in SUBSET Sessions, UNCHANGED rows,
           \A s \in Sessions \ S : sessions'[s] = sessions[s],
           \A s \in S : Coherent(sessions'[s])
    PROVE  AllCoherent'
BY DEF AllCoherent

LEMMA SessionOpCoherent ==
    ASSUME TypeOK, TypeOK', AllCoherent, NEW s \in Sessions, SessionOp(s)
    PROVE  AllCoherent'
<1>1. /\ sessions[s] \in Session /\ Coherent(sessions[s])
      /\ \A sess : Update(s, sess) => /\ sessions'[s] = sess
                                     /\ \A r \in Sessions \ {s} : sessions'[r] = sessions[r]
  BY DEF TypeOK, AllCoherent, Update
<1>2. ASSUME NEW sess, Update(s, sess), Coherent(sess), UNCHANGED rows
      PROVE  AllCoherent'
  BY <1>1, <1>2, UpdateKeepsCoherence
<1>3. ASSUME NEW uid \in Given, NEW mail \in Given, NEW cat \in Categories \cup {NoIntent},
             Start(s, uid, mail, cat)
      PROVE  AllCoherent'
  BY <1>1, <1>2, <1>3, StartCoherent DEF Start, disk
<1>4. ASSUME NEW uid \in Given, NEW mail \in Given, NEW d \in Decisions,
             RecordEvent(s, uid, mail, d)
      PROVE  AllCoherent'
  BY <1>1, <1>2, <1>4, EventCoherent DEF RecordEvent, disk
<1>5. ASSUME NEW cat \in Categories, SetPromptAndIntent(s, cat)
      PROVE  AllCoherent'
  BY <1>1, <1>2, <1>5, OthersCoherent DEF SetPromptAndIntent, disk
<1>6. ASSUME NEW why \in EndReason, End(s, why)
      PROVE  AllCoherent'
  BY <1>1, <1>2, <1>6, OthersCoherent DEF End, disk
<1>7. CASE Heartbeat(s)
  BY <1>1, <1>2, <1>7, OthersCoherent DEF Heartbeat, disk
<1>8. CASE RevokeSession(s) \/ RevokeTarget(s)
  BY <1>1, <1>2, <1>8, OthersCoherent DEF RevokeSession, RevokeTarget, disk
<1>9. CASE RestoreTarget(s)
  BY <1>1, <1>2, <1>9, OthersCoherent DEF RestoreTarget, disk
<1>. QED BY <1>3, <1>4, <1>5, <1>6, <1>7, <1>8, <1>9 DEF SessionOp

LEMMA UserOpCoherent ==
    ASSUME TypeOK, TypeOK', AllCoherent, NEW n \in Names, RevokeUser(n) \/ RestoreUser(n)
    PROVE  AllCoherent'
<1>1. /\ SessionsOf(n) \in SUBSET Sessions
      /\ \A s \in Sessions : sessions[s] \in Session /\ Coherent(sessions[s])
  BY DEF TypeOK, AllCoherent, SessionsOf
<1>2. CASE RevokeUser(n)
  <2>1. /\ UNCHANGED rows
        /\ \A s \in Sessions \ SessionsOf(n) : sessions'[s] = sessions[s]
        /\ \A s \in SessionsOf(n) : sessions'[s] = AfterRevoke(sessions[s])
    BY <1>1, <1>2 DEF RevokeUser, disk
  <2>. QED BY <1>1, <2>1, OthersCoherent, UpdateKeepsCoherence
<1>3. CASE RestoreUser(n)
  <2>1. /\ UNCHANGED rows
        /\ \A s \in Sessions \ SessionsOf(n) : sessions'[s] = sessions[s]
        /\ \A s \in SessionsOf(n) : sessions'[s] = AfterRestoreUser(sessions[s])
    BY <1>1, <1>3 DEF RestoreUser, disk
  <2>. QED BY <1>1, <2>1, OthersCoherent, UpdateKeepsCoherence
<1>. QED BY <1>2, <1>3

LEMMA SweepCoherent ==
    ASSUME TypeOK, TypeOK', AllCoherent, NEW S \in SUBSET Sessions,
           NEW why \in {"idle_timeout", "system_reset"}, Sweep(S, why)
    PROVE  AllCoherent'
<1>1. /\ UNCHANGED rows
      /\ \A s \in Sessions \ S : sessions'[s] = sessions[s]
      /\ \A s \in S : sessions'[s] = AfterSweep(sessions[s], why)
  BY DEF Sweep, disk
<1>2. \A s \in S : sessions[s] \in Session /\ Coherent(sessions[s])
  BY DEF TypeOK, AllCoherent
<1>. QED BY <1>1, <1>2, OthersCoherent, UpdateKeepsCoherence

\* The rows change by saveSessionToDB only, whether it fails or not.
LEMMA StatementCoherent ==
    ASSUME TypeOK, AllCoherent, Statement
    PROVE  AllCoherent'
<1>1. UNCHANGED sessions
  BY DEF Statement, WriteUser, WriteStat, WriteHistory, WipeStats, WipeHistory,
         saveSessionToDB, memory
<1>2. \/ UNCHANGED rows
      \/ \E s \in Sessions : rows' = [rows EXCEPT ![s] = Saved(@, sessions[s])]
  BY DEF Statement, WriteUser, WriteStat, WriteHistory, WipeStats, WipeHistory,
         saveSessionToDB, Exec, disk
<1>3. CASE UNCHANGED rows
  BY <1>1, <1>3 DEF AllCoherent
<1>4. ASSUME NEW s \in Sessions, rows' = [rows EXCEPT ![s] = Saved(@, sessions[s])]
      PROVE  AllCoherent'
  <2>1. /\ rows'[s] = Saved(rows[s], sessions[s])
        /\ \A r \in Sessions \ {s} : rows'[r] = rows[r]
        /\ rows[s] \in Session /\ sessions[s] \in Session /\ Coherent(sessions[s])
    BY <1>4 DEF TypeOK, AllCoherent
  <2>2. Coherent(rows'[s])
    BY <2>1, SavedCoherent
  <2>. QED BY <1>1, <2>1, <2>2 DEF AllCoherent
<1>. QED BY <1>2, <1>3, <1>4

-----------------------------------------------------------------------------
\* In memory and in the table, the reason and the end time of a session fit its
\* status and its decisions fit its total, over crashes at any point and over
\* statements that fail (Start, End, RestoreTarget, RecordEvent, loadFromDB).
THEOREM SessionsStayCoherent == Spec => [](CloseReasonFits /\ CountersAddUp)
<1>1. Init => AllCoherent
  BY AbsentCoherent DEF Init, AllCoherent
<1>2. TypeOK /\ TypeOK' /\ AllCoherent /\ [Next]_vars => AllCoherent'
  <2> SUFFICES ASSUME TypeOK, TypeOK', AllCoherent, [Next]_vars
               PROVE  AllCoherent'
    OBVIOUS
  <2>1. ASSUME NEW s \in Sessions, SessionOp(s)
        PROVE  AllCoherent'
    BY <2>1, SessionOpCoherent
  <2>2. ASSUME NEW n \in Names, RevokeUser(n) \/ RestoreUser(n)
        PROVE  AllCoherent'
    BY <2>2, UserOpCoherent
  <2>3. CASE PurgeStale \/ Reset
    <3>1. Active \in SUBSET Sessions
      BY DEF Active
    <3>. QED BY <2>3, <3>1, SweepCoherent DEF PurgeStale, Reset
  <2>4. CASE ResetIntentStats
    BY <2>4 DEF ResetIntentStats, disk, AllCoherent
  <2>5. CASE Statement
    BY <2>5, StatementCoherent
  <2>6. CASE Restart
    BY <2>6 DEF Restart, disk, AllCoherent
  <2>7. CASE UNCHANGED vars
    BY <2>7 DEF vars, memory, disk, AllCoherent
  <2>. QED BY <2>1, <2>2, <2>3, <2>4, <2>5, <2>6, <2>7 DEF Next
<1>3. AllCoherent => CloseReasonFits /\ CountersAddUp
  BY DEF AllCoherent, Coherent, CloseReasonFits, CountersAddUp
<1>. QED BY <1>1, <1>2, <1>3, TypeCorrect, PTL DEF Spec

\* A session's counters of allowed and denied actions never exceed its total,
\* whichever starts, restarts of the server and lost rows came between.
THEOREM SessionTalliesAddUp == Spec => []CountersAddUp
BY SessionsStayCoherent, PTL

-----------------------------------------------------------------------------
(***************************************************************************)
(* Sums over the categories.  Total folds a function over its domain, so   *)
(* what is said of it is said by induction over subsets of Categories, in  *)
(* the order of their cardinality.                                         *)
(***************************************************************************)

LEMMA LeastNumber ==
    ASSUME NEW T \in SUBSET Nat, T # {}
    PROVE  \E n \in T : \A m \in T : n <= m
<1> DEFINE R == OpToRel(<, Nat)
<1>1. IsWellFoundedOn(R, Nat)
  BY NatLessThanWellFounded
<1>2. \A m, k \in Nat : m < k => <<m, k>> \in R
  BY DEF OpToRel
<1> HIDE DEF R
<1>3. PICK n \in T : \A m \in T : <<m, n>> \notin R
  BY <1>1, WFMin
<1>4. \A m \in T : m \in Nat
  OBVIOUS
<1>5. \A m \in T : ~(m < n)
  BY <1>2, <1>3, <1>4
<1>6. \A m \in T : n <= m
  BY <1>4, <1>5
<1>. QED BY <1>6

\* A set of numbers that starts at 0 and is closed under +1 is all of them.
LEMMA Induction ==
    ASSUME NEW S, 0 \in S, \A n \in Nat : n \in S => n + 1 \in S
    PROVE  Nat \subseteq S
<1> DEFINE T == Nat \ S
<1>1. CASE T = {}
  BY <1>1
<1>2. CASE T # {}
  <2>1. PICK n \in T : \A m \in T : n <= m
    <3>1. T \in SUBSET Nat
      OBVIOUS
    <3>. QED BY <1>2, <3>1, LeastNumber
  <2>2. n \in Nat /\ n # 0 /\ n \notin S
    BY <2>1
  <2>3. n - 1 \in Nat /\ n - 1 < n /\ (n - 1) + 1 = n
    BY <2>2
  <2>4. n - 1 \in S
    BY <2>1, <2>3
  <2>. QED BY <2>2, <2>3, <2>4
<1>. QED BY <1>1, <1>2

\* The element the fold takes out of s next.
Pick(s) == CHOOSE x \in s : TRUE

Up(n) == {s \in SUBSET Categories : Cardinality(s) <= n}

\* g[s] is the sum of f over s, for the sets s of D.
Sums(g, f, D) ==
    /\ g \in [D -> Nat]
    /\ \A s \in D : g[s] = IF s = {} THEN 0 ELSE f[Pick(s)] + g[s \ {Pick(s)}]

LEMMA Picked ==
    ASSUME NEW s \in SUBSET Categories
    PROVE  /\ IsFiniteSet(s) /\ Cardinality(s) \in Nat
           /\ Cardinality(s) = 0 <=> s = {}
           /\ s # {} => /\ Pick(s) \in s /\ s \ {Pick(s)} \in SUBSET Categories
                        /\ Cardinality(s \ {Pick(s)}) = Cardinality(s) - 1
<1>1. IsFiniteSet(s)
  BY CategoriesAssumption, FS_Subset
<1>2. Cardinality(s) \in Nat /\ (Cardinality(s) = 0 <=> s = {})
  BY <1>1, FS_CardinalityType, FS_EmptySet
<1>3. s # {} => Pick(s) \in s
  BY DEF Pick
<1>. QED BY <1>1, <1>2, <1>3, FS_RemoveElement

LEMMA OneLess ==
    ASSUME NEW n \in Nat, NEW s \in SUBSET Categories, Cardinality(s) = n + 1
    PROVE  /\ s # {} /\ Pick(s) \in s /\ Pick(s) \in Categories
           /\ s \ {Pick(s)} \in SUBSET Categories /\ Cardinality(s \ {Pick(s)}) = n
<1>1. n + 1 # 0 /\ (n + 1) - 1 = n
  OBVIOUS
<1>. QED BY <1>1, Picked

LEMMA SumsExist ==
    ASSUME NEW f \in [Categories -> Nat]
    PROVE  \E g : Sums(g, f, SUBSET Categories)
<1> DEFINE S == {n \in Nat : \E g : Sums(g, f, Up(n))}
<1>1. 0 \in S
  <2> DEFINE g == [s \in Up(0) |-> 0]
  <2>1. \A s \in Up(0) : s = {}
    <3> TAKE s \in Up(0)
    <3>1. s \in SUBSET Categories /\ Cardinality(s) <= 0
      BY DEF Up
    <3>2. Cardinality(s) \in Nat /\ (Cardinality(s) = 0 => s = {})
      BY <3>1, Picked
    <3>. QED BY <3>1, <3>2
  <2>2. Sums(g, f, Up(0))
    BY <2>1 DEF Sums
  <2>. QED BY <2>2
<1>2. ASSUME NEW n \in Nat, n \in S
      PROVE  n + 1 \in S
  <2>1. PICK g : Sums(g, f, Up(n))
    BY <1>2
  <2> DEFINE h == [s \in Up(n + 1) |-> IF s = {} THEN 0
                                      ELSE f[Pick(s)] + g[s \ {Pick(s)}]]
  <2>2. \A s \in Up(n + 1) : s # {} => s \ {Pick(s)} \in Up(n) /\ Pick(s) \in Categories
    BY Picked DEF Up
  <2>3. \A s \in Up(n + 1) : h[s] \in Nat
    BY <2>1, <2>2 DEF Sums
  <2>4. \A s \in Up(n) : s \in Up(n + 1) /\ h[s] = g[s]
    <3>1. \A s \in Up(n) : s \in Up(n + 1)
      <4> TAKE s \in Up(n)
      <4>1. s \in SUBSET Categories /\ Cardinality(s) <= n
        BY DEF Up
      <4>2. Cardinality(s) \in Nat
        BY <4>1, Picked
      <4>. QED BY <4>1, <4>2 DEF Up
    <3>. QED BY <2>1, <3>1 DEF Sums
  <2>5. \A s \in Up(n + 1) : h[s] = IF s = {} THEN 0 ELSE f[Pick(s)] + h[s \ {Pick(s)}]
    BY <2>2, <2>4
  <2>6. h \in [Up(n + 1) -> Nat]
    BY <2>3
  <2> HIDE DEF h
  <2>7. Sums(h, f, Up(n + 1))
    BY <2>5, <2>6 DEF Sums
  <2>. QED BY <2>7
<1>3. Nat \subseteq S
  <2> HIDE DEF S
  <2>. QED BY <1>1, <1>2, Induction
<1> DEFINE N == Cardinality(Categories)
<1>4. N \in Nat /\ Up(N) = SUBSET Categories
  <2>1. \A s \in SUBSET Categories : Cardinality(s) <= N
    BY CategoriesAssumption, FS_Subset
  <2>. QED BY <2>1, CategoriesAssumption, FS_CardinalityType DEF Up
<1>5. N \in S
  BY <1>3, <1>4
<1>. QED BY <1>4, <1>5

\* Total is what the fold says it is.
LEMMA TotalIs ==
    ASSUME NEW f \in [Categories -> Nat]
    PROVE  \E g : Sums(g, f, SUBSET Categories) /\ Total(f) = g[Categories]
<1> DEFINE iter[s \in SUBSET Categories] ==
               IF s = {} THEN 0
               ELSE f[CHOOSE x \in s : TRUE] + iter[s \ {CHOOSE x \in s : TRUE}]
<1>1. Total(f) = iter[Categories]
  BY DEF Total, SumFunction, SumFunctionOnSet, FoldFunctionOnSet, MapThenFoldSet
<1>2. \E g : g = [s \in SUBSET Categories |->
                    IF s = {} THEN 0
                    ELSE f[CHOOSE x \in s : TRUE] + g[s \ {CHOOSE x \in s : TRUE}]]
  <2>1. PICK g : Sums(g, f, SUBSET Categories)
    BY SumsExist
  <2>2. g = [s \in SUBSET Categories |->
                IF s = {} THEN 0
                ELSE f[CHOOSE x \in s : TRUE] + g[s \ {CHOOSE x \in s : TRUE}]]
    BY <2>1 DEF Sums, Pick
  <2>. QED BY <2>2
<1>3. iter = [s \in SUBSET Categories |->
                IF s = {} THEN 0
                ELSE f[CHOOSE x \in s : TRUE] + iter[s \ {CHOOSE x \in s : TRUE}]]
  BY <1>2
<1> HIDE DEF iter
<1> DEFINE S == {n \in Nat : \A s \in SUBSET Categories :
                                Cardinality(s) = n => iter[s] \in Nat}
<1>4. \A s \in SUBSET Categories :
          iter[s] = IF s = {} THEN 0 ELSE f[Pick(s)] + iter[s \ {Pick(s)}]
  BY <1>3 DEF Pick
<1>5. 0 \in S
  BY <1>4, Picked
<1>6. ASSUME NEW n \in Nat, n \in S
      PROVE  n + 1 \in S
  <2> SUFFICES ASSUME NEW s \in SUBSET Categories, Cardinality(s) = n + 1
               PROVE  iter[s] \in Nat
    OBVIOUS
  <2>1. /\ s # {} /\ Pick(s) \in Categories
        /\ s \ {Pick(s)} \in SUBSET Categories /\ Cardinality(s \ {Pick(s)}) = n
    BY OneLess
  <2>2. iter[s \ {Pick(s)}] \in Nat
    BY <1>6, <2>1
  <2>. QED BY <1>4, <2>1, <2>2
<1>7. Nat \subseteq S
  <2> HIDE DEF S
  <2>. QED BY <1>5, <1>6, Induction
<1>8. \A s \in SUBSET Categories : iter[s] \in Nat
  BY <1>7, Picked
<1>9. iter \in [SUBSET Categories -> Nat]
  BY <1>3, <1>8
<1>10. Sums(iter, f, SUBSET Categories)
  BY <1>4, <1>9 DEF Sums
<1>. QED BY <1>1, <1>10

LEMMA TotalOfZero == Total(Zero) = 0
<1>1. Zero \in [Categories -> Nat]
  BY DEF Zero
<1>2. PICK g : Sums(g, Zero, SUBSET Categories) /\ Total(Zero) = g[Categories]
  BY <1>1, TotalIs
<1> DEFINE S == {n \in Nat : \A s \in SUBSET Categories : Cardinality(s) = n => g[s] = 0}
<1>3. 0 \in S
  BY <1>2, Picked DEF Sums
<1>4. ASSUME NEW n \in Nat, n \in S
      PROVE  n + 1 \in S
  <2> SUFFICES ASSUME NEW s \in SUBSET Categories, Cardinality(s) = n + 1
               PROVE  g[s] = 0
    OBVIOUS
  <2>1. /\ s # {} /\ Pick(s) \in Categories
        /\ s \ {Pick(s)} \in SUBSET Categories /\ Cardinality(s \ {Pick(s)}) = n
    BY OneLess
  <2>2. g[s] = Zero[Pick(s)] + g[s \ {Pick(s)}]
    BY <1>2, <2>1 DEF Sums
  <2>. QED BY <1>4, <2>1, <2>2 DEF Zero
<1>5. Nat \subseteq S
  <2> HIDE DEF S
  <2>. QED BY <1>3, <1>4, Induction
<1>. QED BY <1>2, <1>5, Picked

\* One more in one category is one more in all.
LEMMA TotalOfOneMore ==
    ASSUME NEW f \in [Categories -> Nat], NEW c \in Categories
    PROVE  Total([f EXCEPT ![c] = @ + 1]) = Total(f) + 1
<1> DEFINE f1 == [f EXCEPT ![c] = @ + 1]
<1>1. f1 \in [Categories -> Nat] /\ \A x \in Categories : f1[x] = f[x] + IF x = c THEN 1 ELSE 0
  OBVIOUS
<1>2. PICK g : Sums(g, f, SUBSET Categories) /\ Total(f) = g[Categories]
  BY TotalIs
<1> HIDE DEF f1
<1>3. PICK h : Sums(h, f1, SUBSET Categories) /\ Total(f1) = h[Categories]
  BY <1>1, TotalIs
<1> DEFINE S == {n \in Nat : \A s \in SUBSET Categories :
                     Cardinality(s) = n => h[s] = g[s] + IF c \in s THEN 1 ELSE 0}
<1>4. 0 \in S
  <2>1. \A s \in SUBSET Categories : Cardinality(s) = 0 => s = {}
    BY Picked
  <2>2. g[{}] = 0 /\ h[{}] = 0
    BY <1>2, <1>3 DEF Sums
  <2>. QED BY <2>1, <2>2
<1>5. ASSUME NEW n \in Nat, n \in S
      PROVE  n + 1 \in S
  <2> SUFFICES ASSUME NEW s \in SUBSET Categories, Cardinality(s) = n + 1
               PROVE  h[s] = g[s] + IF c \in s THEN 1 ELSE 0
    OBVIOUS
  <2> DEFINE x == Pick(s)
             rest == s \ {x}
  <2>1. /\ s # {} /\ x \in s /\ x \in Categories
        /\ rest \in SUBSET Categories /\ Cardinality(rest) = n
    BY OneLess
  <2>2. g[s] = f[x] + g[rest] /\ h[s] = f1[x] + h[rest]
    BY <1>2, <1>3, <2>1 DEF Sums
  <2>3. h[rest] = g[rest] + IF c \in rest THEN 1 ELSE 0
    BY <1>5, <2>1
  <2>4. g[rest] \in Nat /\ f[x] \in Nat
    BY <1>2, <2>1 DEF Sums
  <2>5. c \in rest <=> c \in s /\ x # c
    OBVIOUS
  <2> HIDE DEF x, rest
  <2>6. CASE x = c
    BY <1>1, <2>1, <2>2, <2>3, <2>4, <2>5, <2>6
  <2>7. CASE x # c
    BY <1>1, <2>1, <2>2, <2>3, <2>4, <2>5, <2>7
  <2>. QED BY <2>6, <2>7
<1>6. Nat \subseteq S
  <2> HIDE DEF S
  <2>. QED BY <1>4, <1>5, Induction
<1>7. h[Categories] = g[Categories] + 1
  BY <1>6, Picked
<1>. QED BY <1>2, <1>3, <1>7 DEF f1

-----------------------------------------------------------------------------
(***************************************************************************)
(* The intent counters.                                                    *)
(***************************************************************************)

NoIntents(work) == work.stat = {} /\ work.hist = {}

\* An operation leaves the counters alone, counts one prompt, or resets them,
\* and owes the tables just that.
CountersMove ==
    /\ todo = Idle /\ UNCHANGED disk
    /\ \/ UNCHANGED intents /\ NoIntents(todo') /\ todo'.wipe = {}
       \/ \E cat \in Categories :
              /\ RecordIntent(cat)
              /\ todo'.stat = {cat} /\ todo'.hist = {cat} /\ todo'.wipe = {}
       \/ /\ intentCounts' = Zero /\ totalPrompts' = 0
          /\ NoIntents(todo') /\ todo'.wipe = Tables

LEMMA WorkFields ==
    ASSUME NEW S \in SUBSET Sessions
    PROVE  /\ NoIntents(SaveOnly(S)) /\ SaveOnly(S).wipe = {}
           /\ \A n \in Names :
                  LET t == [SaveOnly(S) EXCEPT !.insert = {n}]
                      u == [SaveOnly(S) EXCEPT !.delete = {n}]
                  IN  /\ NoIntents(t) /\ t.wipe = {}
                      /\ NoIntents(u) /\ u.wipe = {}
           /\ \A cat \in Categories :
                  LET t == [SaveOnly(S) EXCEPT !.stat = {cat}, !.hist = {cat}]
                  IN  t.stat = {cat} /\ t.hist = {cat} /\ t.wipe = {}
           /\ LET t == [Idle EXCEPT !.wipe = Tables]
              IN  NoIntents(t) /\ t.wipe = Tables
  BY DEF SaveOnly, Idle, NoIntents

LEMMA OperationMoves == TypeOK /\ Operation => CountersMove
<1> SUFFICES ASSUME TypeOK, Operation
             PROVE  CountersMove
  OBVIOUS
<1> USE DEF CountersMove, Free, Owes
<1>1. ASSUME NEW s \in Sessions, SessionOp(s)
      PROVE  CountersMove
  <2>0. {s} \in SUBSET Sessions
    OBVIOUS
  <2>1. ASSUME NEW uid \in Given, NEW mail \in Given, NEW cat \in Categories \cup {NoIntent},
               Start(s, uid, mail, cat)
        PROVE  CountersMove
    <3>1. todo = Idle /\ UNCHANGED disk
      BY <2>1 DEF Start
    <3>2. CASE UNCHANGED intents /\ todo' = SaveOnly({s})
      BY <2>0, <3>1, <3>2, WorkFields
    <3>3. CASE /\ cat \in Categories /\ RecordIntent(cat)
               /\ todo' = [SaveOnly({s}) EXCEPT !.stat = {cat}, !.hist = {cat}]
      BY <2>0, <3>1, <3>3, WorkFields
    <3>. QED BY <2>1, <3>2, <3>3 DEF Start
  <2>2. ASSUME NEW cat \in Categories, SetPromptAndIntent(s, cat)
        PROVE  CountersMove
    <3>1. /\ todo = Idle /\ UNCHANGED disk /\ RecordIntent(cat)
          /\ todo' = [SaveOnly({s}) EXCEPT !.stat = {cat}, !.hist = {cat}]
      BY <2>2 DEF SetPromptAndIntent
    <3>. QED BY <2>0, <3>1, WorkFields
  <2>3. CASE UNCHANGED intents /\ UNCHANGED disk /\ todo = Idle /\ todo' = SaveOnly({s})
    BY <2>0, <2>3, WorkFields
  <2>. QED BY <1>1, <2>1, <2>2, <2>3
           DEF SessionOp, RecordEvent, End, Heartbeat, RevokeSession, RevokeTarget, RestoreTarget
<1>2. ASSUME NEW n \in Names, RevokeUser(n) \/ RestoreUser(n)
      PROVE  CountersMove
  <2>1. SessionsOf(n) \in SUBSET Sessions /\ RevokedSessionsOf(n) \in SUBSET Sessions
    BY DEF SessionsOf, RevokedSessionsOf
  <2>2. PICK S \in SUBSET Sessions : \/ todo' = [SaveOnly(S) EXCEPT !.insert = {n}]
                                     \/ todo' = [SaveOnly(S) EXCEPT !.delete = {n}]
    BY <1>2, <2>1 DEF RevokeUser, RestoreUser
  <2>3. todo = Idle /\ UNCHANGED disk /\ UNCHANGED intents
    BY <1>2 DEF RevokeUser, RestoreUser
  <2>. QED BY <2>2, <2>3, WorkFields
<1>3. ASSUME NEW S \in SUBSET Active, NEW why, Sweep(S, why)
      PROVE  CountersMove
  <2>1. S \in SUBSET Sessions
    BY DEF Active
  <2>. QED BY <1>3, <2>1, WorkFields DEF Sweep
<1>4. CASE ResetIntentStats
  <2>1. /\ todo = Idle /\ UNCHANGED disk /\ intentCounts' = Zero /\ totalPrompts' = 0
        /\ todo' = [Idle EXCEPT !.wipe = Tables]
    BY <1>4 DEF ResetIntentStats
  <2>2. {} \in SUBSET Sessions
    OBVIOUS
  <2>. QED BY <2>1, <2>2, WorkFields
<1>. QED BY <1>1, <1>2, <1>3, <1>4 DEF Operation, PurgeStale, Reset

LEMMA TotalStep == TypeOK /\ TotalPromptsAddUp /\ [Next]_vars => TotalPromptsAddUp'
<1> SUFFICES ASSUME TypeOK, TotalPromptsAddUp, [Next]_vars
             PROVE  totalPrompts' = Total(intentCounts')
  BY DEF TotalPromptsAddUp
<1> USE DEF TotalPromptsAddUp
<1>1. CASE UNCHANGED intents
  BY <1>1 DEF intents
<1>2. ASSUME NEW cat \in Categories, RecordIntent(cat)
      PROVE  totalPrompts' = Total(intentCounts')
  <2>1. intentCounts \in [Categories -> Nat]
    BY DEF TypeOK
  <2>. QED BY <1>2, <2>1, TotalOfOneMore DEF RecordIntent
<1>3. CASE intentCounts' = Zero /\ totalPrompts' = 0
  BY <1>3, TotalOfZero
<1>4. CASE Operation
  BY <1>1, <1>2, <1>3, <1>4, OperationMoves DEF CountersMove
<1>5. CASE Statement
  BY <1>1, <1>5 DEF Statement, WriteUser, WriteStat, WriteHistory, WipeStats, WipeHistory,
                    saveSessionToDB, memory, intents
<1>6. CASE Restart
  BY <1>6 DEF Restart, LoadedTotal
<1>7. CASE UNCHANGED vars
  BY <1>1, <1>7 DEF vars, memory, intents
<1>. QED BY <1>4, <1>5, <1>6, <1>7 DEF Next, Operation

\* The total that GetIntentStats shows is the sum over the categories, for any
\* categories, over prompts, resets, failed statements, crashes anywhere and
\* the recount of loadFromDB.
THEOREM PromptTotalsAddUp == Spec => []TotalPromptsAddUp
<1>1. Init => TotalPromptsAddUp
  BY TotalOfZero DEF Init, TotalPromptsAddUp
<1>. QED BY <1>1, TotalStep, TypeCorrect, PTL DEF Spec

-----------------------------------------------------------------------------
(***************************************************************************)
(* The two tables of recordIntentLocked.                                   *)
(***************************************************************************)

Owed(C, cat) == IF cat \in C THEN 1 ELSE 0

\* The tables differ by the inserts that are still owed, and while they are
\* wiped nothing else is owed to them.
TablesMove ==
    /\ todo.wipe \in {{}, Tables, {"prompt_history"}}
    /\ todo.wipe = {} =>
           \A cat \in Categories : statRows[cat] + Owed(todo.stat, cat)
                                      = promptRows[cat] + Owed(todo.hist, cat)
    /\ todo.wipe # {} => NoIntents(todo)
    /\ todo.wipe = {"prompt_history"} => statRows = Zero

LEMMA IdleAgrees ==
    ASSUME TypeOK, TablesMove, NoIntents(todo), todo.wipe = {}
    PROVE  statRows = promptRows
<1>1. \A cat \in Categories : statRows[cat] = promptRows[cat]
  BY DEF TypeOK, TablesMove, NoIntents, Owed
<1>. QED BY <1>1 DEF TypeOK

LEMMA TablesOperation ==
    ASSUME TypeOK, TablesMove, Operation
    PROVE  TablesMove'
<1>1. CountersMove
  BY OperationMoves
<1>2. NoIntents(todo) /\ todo.wipe = {}
  BY <1>1 DEF CountersMove, Idle, NoIntents
<1>3. statRows' = promptRows'
  BY <1>1, <1>2, IdleAgrees DEF CountersMove, disk
<1>4. todo'.wipe # {"prompt_history"} /\ todo'.wipe \in {{}, Tables}
  BY <1>1 DEF CountersMove, Tables
<1>5. todo'.wipe = {} => todo'.stat = todo'.hist
  BY <1>1 DEF CountersMove, NoIntents, Tables
<1>6. todo'.wipe # {} => NoIntents(todo')
  BY <1>1 DEF CountersMove
<1>. QED BY <1>3, <1>4, <1>5, <1>6 DEF TablesMove, NoIntents

LEMMA TablesStatement ==
    ASSUME ~WriteErrors, TypeOK, TablesMove, Statement
    PROVE  TablesMove'
<1> USE DEF TypeOK, Todo, Exec
<1>1. ASSUME NEW n \in Names, WriteUser(n)
      PROVE  TablesMove'
  BY <1>1 DEF WriteUser, TablesMove, NoIntents
<1>2. ASSUME NEW c \in Categories, WriteStat(c)
      PROVE  TablesMove'
  <2>1. /\ c \in todo.stat /\ todo'.stat = todo.stat \ {c} /\ todo'.hist = todo.hist
        /\ todo'.wipe = todo.wipe /\ promptRows' = promptRows
        /\ statRows' = [statRows EXCEPT ![c] = @ + 1]
    BY <1>2 DEF WriteStat
  <2>2. todo.wipe = {}
    BY <2>1 DEF TablesMove, NoIntents
  <2>3. ASSUME NEW cat \in Categories
        PROVE  statRows'[cat] + Owed(todo'.stat, cat) = promptRows'[cat] + Owed(todo'.hist, cat)
    <3>1. statRows[cat] + Owed(todo.stat, cat) = promptRows[cat] + Owed(todo.hist, cat)
      BY <2>2 DEF TablesMove
    <3>2. CASE cat = c
      BY <2>1, <3>1, <3>2 DEF Owed
    <3>3. CASE cat # c
      BY <2>1, <3>1, <3>3 DEF Owed
    <3>. QED BY <3>2, <3>3
  <2>. QED BY <2>1, <2>2, <2>3 DEF TablesMove, NoIntents
<1>3. ASSUME NEW c \in Categories, WriteHistory(c)
      PROVE  TablesMove'
  <2>1. /\ c \in todo.hist /\ todo'.hist = todo.hist \ {c} /\ todo'.stat = todo.stat
        /\ todo'.wipe = todo.wipe /\ statRows' = statRows
        /\ promptRows' = [promptRows EXCEPT ![c] = @ + 1]
    BY <1>3 DEF WriteHistory
  <2>2. todo.wipe = {}
    BY <2>1 DEF TablesMove, NoIntents
  <2>3. ASSUME NEW cat \in Categories
        PROVE  statRows'[cat] + Owed(todo'.stat, cat) = promptRows'[cat] + Owed(todo'.hist, cat)
    <3>1. statRows[cat] + Owed(todo.stat, cat) = promptRows[cat] + Owed(todo.hist, cat)
      BY <2>2 DEF TablesMove
    <3>2. CASE cat = c
      BY <2>1, <3>1, <3>2 DEF Owed
    <3>3. CASE cat # c
      BY <2>1, <3>1, <3>3 DEF Owed
    <3>. QED BY <3>2, <3>3
  <2>. QED BY <2>1, <2>2, <2>3 DEF TablesMove, NoIntents
<1>4. CASE WipeStats
  <2>1. /\ todo'.wipe = todo.wipe \ {"intent_stats"} /\ "intent_stats" \in todo.wipe
        /\ todo'.stat = todo.stat /\ todo'.hist = todo.hist /\ statRows' = Zero
    BY <1>4 DEF WipeStats
  <2>2. todo.wipe = Tables /\ todo'.wipe = {"prompt_history"}
    BY <2>1 DEF TablesMove, Tables
  <2>. QED BY <2>1, <2>2 DEF TablesMove, NoIntents, Tables
<1>5. CASE WipeHistory
  <2>1. /\ todo.wipe = {"prompt_history"} /\ todo'.wipe = {}
        /\ todo'.stat = todo.stat /\ todo'.hist = todo.hist
        /\ statRows' = statRows /\ promptRows' = Zero
    BY <1>5 DEF WipeHistory
  <2>2. statRows' = promptRows' /\ todo'.stat = todo'.hist
    BY <2>1 DEF TablesMove, NoIntents
  <2>. QED BY <2>1, <2>2 DEF TablesMove
<1>6. ASSUME NEW s \in Sessions, saveSessionToDB(s)
      PROVE  TablesMove'
  BY <1>6 DEF saveSessionToDB, TablesMove, NoIntents
<1>. QED BY <1>1, <1>2, <1>3, <1>4, <1>5, <1>6 DEF Statement

\* If no statement fails and the process is not killed between two of them,
\* intent_stats and prompt_history count the same prompts per category, over
\* prompts, resets and restarts.  The recount of loadFromDB touches neither.
THEOREM HistoryStaysInStep ==
    ~WriteErrors /\ ~CrashMidWrite => (Spec => []HistoryAgreesWithStats)
<1> SUFFICES ASSUME ~WriteErrors, ~CrashMidWrite
             PROVE  Spec => []HistoryAgreesWithStats
  OBVIOUS
<1>1. Init => TablesMove
  BY DEF Init, TablesMove, Idle, NoIntents, Zero, Owed
<1>2. TypeOK /\ TablesMove /\ [Next]_vars => TablesMove'
  <2> SUFFICES ASSUME TypeOK, TablesMove, [Next]_vars
               PROVE  TablesMove'
    OBVIOUS
  <2>1. CASE Restart
    BY <2>1 DEF Restart, Free, disk, TablesMove, NoIntents
  <2>2. CASE UNCHANGED vars
    BY <2>2 DEF vars, disk, TablesMove, NoIntents
  <2>. QED BY <2>1, <2>2, TablesOperation, TablesStatement DEF Next, Operation
<1>3. TypeOK /\ TablesMove => HistoryAgreesWithStats
  <2> SUFFICES ASSUME TypeOK, TablesMove, todo = Idle
               PROVE  statRows = promptRows
    BY DEF HistoryAgreesWithStats, Free
  <2>1. NoIntents(todo) /\ todo.wipe = {}
    BY DEF Idle, NoIntents
  <2>. QED BY <2>1, IdleAgrees
<1>. QED BY <1>1, <1>2, <1>3, TypeCorrect, PTL DEF Spec
=============================================================================
