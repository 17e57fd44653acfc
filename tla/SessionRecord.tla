--------------------------- MODULE SessionRecord ---------------------------
(***************************************************************************)
(* One session of the control plane (internal/session/store.go) and what   *)
(* each operation of the store does to it, as operators from a record to a *)
(* record.  SessionStore applies them under the store's mutex and keeps    *)
(* the SQLite rows; ControlPlane applies them from concurrent handlers.    *)
(*                                                                         *)
(* Left out: timestamps other than "EndedAt is set", client PID, host,     *)
(* agent name, prompt text and the list of raw events; none of them guards *)
(* a state change.                                                         *)
(***************************************************************************)
EXTENDS Naturals

CONSTANTS
    Names,       \* lower-cased user ids and e-mail addresses
    Categories,  \* mission intent categories, Unknown among them
    Unknown,     \* the category "UNKNOWN"
    NoIntent,    \* a request that carries neither prompt nor intent
    Decisions,   \* decisions an audit event may carry
    Blank,       \* the empty string as an identity
    NA           \* the placeholder "NA" as an identity

ASSUME UnknownAssumption == Unknown \in Categories
ASSUME NoIntentAssumption == NoIntent \notin Categories
ASSUME IdentityAssumption == Blank # NA /\ Blank \notin Names /\ NA \notin Names

Identity == Names \cup {Blank, NA}
Status == {"absent", "active", "closed", "revoked"}
Reason == {"", "ended", "idle_timeout", "revoked", "restored", "system_reset"}

\* "absent" stands for an id that is not a key of the sessions map.
Session == [status : Status, reason : Reason, ended : BOOLEAN,
            uid : Identity, mail : Identity, intent : Categories,
            total : Nat, allowed : Nat, denied : Nat]

Absent == [status |-> "absent", reason |-> "", ended |-> FALSE,
           uid |-> Blank, mail |-> Blank, intent |-> Unknown,
           total |-> 0, allowed |-> 0, denied |-> 0]

Known(sess) == sess.status # "absent"
IsRevoked(sess) == sess.status = "revoked"
BelongsTo(sess, n) == sess.uid = n \/ sess.mail = n

\* A blank identity of a new session is stored as "NA".
OrNA(id) == IF id = Blank THEN NA ELSE id
\* Mutant: the category of the request as it came.
IntentAsGiven(cat, old) == cat

IntentOr(cat, old) == IF cat = NoIntent THEN old ELSE cat

(***************************************************************************)
(* Start: a session id seen before is re-activated, unless it is revoked;  *)
(* its counters restart when it had been closed or had an end time.        *)
(***************************************************************************)
StartRefused(sess) == IsRevoked(sess)

NewSession(uid, mail, cat) ==
    [Absent EXCEPT !.status = "active", !.uid = OrNA(uid), !.mail = OrNA(mail),
                   !.intent = IntentOr(cat, Unknown)]

WasOver(sess) == sess.status # "active" \/ sess.ended \/ sess.reason # ""

\* Mutant: only the total starts again.
ReactivatedTotalOnly(sess, uid, mail, cat) ==
    [sess EXCEPT !.status = "active", !.reason = "", !.ended = FALSE,
                 !.uid = IF uid = Blank THEN @ ELSE uid,
                 !.mail = IF mail = Blank THEN @ ELSE mail,
                 !.intent = IntentOr(cat, @),
                 !.total = IF WasOver(sess) THEN 0 ELSE @]

Reactivated(sess, uid, mail, cat) ==
    [sess EXCEPT !.status = "active", !.reason = "", !.ended = FALSE,
                 !.uid = IF uid = Blank THEN @ ELSE uid,
                 !.mail = IF mail = Blank THEN @ ELSE mail,
                 !.intent = IntentOr(cat, @),
                 !.total = IF WasOver(sess) THEN 0 ELSE @,
                 !.allowed = IF WasOver(sess) THEN 0 ELSE @,
                 !.denied = IF WasOver(sess) THEN 0 ELSE @]

AfterStart(sess, uid, mail, cat) ==
    IF Known(sess) THEN Reactivated(sess, uid, mail, cat)
                   ELSE NewSession(uid, mail, cat)

(***************************************************************************)
(* Ends and administrator actions.                                         *)
(***************************************************************************)
EndRefused(sess) == ~Known(sess) \/ IsRevoked(sess)

\* The client gives the reason, and may leave it empty.
EndReason == {"", "ended"}

AfterEnd(sess, why) == [sess EXCEPT !.status = "closed", !.ended = TRUE, !.reason = why]

\* RevokeUser, RevokeTarget, and RevokeSession on an id that is known.
AfterRevoke(sess) == [sess EXCEPT !.status = "revoked", !.reason = "revoked"]

AfterRestoreUser(sess) ==
    IF IsRevoked(sess) THEN [sess EXCEPT !.status = "closed", !.reason = "restored"]
                       ELSE sess

\* Mutant: the reason of the revocation is left in place.
AfterRestoreKeepsReason(sess) == [sess EXCEPT !.status = "active"]

\* RestoreTarget activates whatever it finds and leaves EndedAt as it is.
AfterRestoreTarget(sess) == [sess EXCEPT !.status = "active", !.reason = ""]

(***************************************************************************)
(* Activity reported by the edge: audit events, heartbeats, prompts.       *)
(***************************************************************************)
\* RecordEvent creates an unknown session with the identity of the event.
Witness(sess, uid, mail) ==
    IF Known(sess) THEN sess
    ELSE [Absent EXCEPT !.status = "active", !.uid = uid, !.mail = mail]

\* Mutant: activity wakes a revoked session too.
WokenAlways(sess) == [sess EXCEPT !.status = "active", !.ended = FALSE, !.reason = ""]

Woken(sess) ==
    IF IsRevoked(sess) THEN sess
    ELSE [sess EXCEPT !.status = "active",
                      !.ended = IF sess.status = "active" THEN @ ELSE FALSE,
                      !.reason = IF sess.status = "active" THEN @ ELSE ""]

Fill(old, new) == IF old = Blank THEN new ELSE old

Counted(sess, decision) ==
    [sess EXCEPT !.total = @ + 1,
                 !.allowed = IF decision = "allow" THEN @ + 1 ELSE @,
                 !.denied = IF decision = "deny" THEN @ + 1 ELSE @]

\* RecordEvent but for the counters.
AfterActivity(sess, uid, mail) ==
    [Woken(Witness(sess, uid, mail)) EXCEPT !.uid = Fill(@, uid), !.mail = Fill(@, mail)]

AfterEvent(sess, uid, mail, decision) ==
    Counted(AfterActivity(sess, uid, mail), decision)

TimedOut(sess) == sess.status = "closed" /\ sess.reason = "idle_timeout"

AfterHeartbeat(sess) ==
    IF TimedOut(sess) THEN [sess EXCEPT !.status = "active", !.ended = FALSE, !.reason = ""]
                      ELSE sess

AfterPrompt(sess, cat) == [AfterHeartbeat(sess) EXCEPT !.intent = cat]

(***************************************************************************)
(* Sweeps over the active sessions.                                        *)
(***************************************************************************)
AfterSweep(sess, why) ==
    [sess EXCEPT !.status = "closed", !.ended = TRUE, !.reason = why]

(***************************************************************************)
(* saveSessionToDB: the upsert inserts every column and, on conflict,      *)
(* updates all but the identity columns.  loadFromDB reads the row back.   *)
(***************************************************************************)
Saved(row, sess) ==
    IF Known(row) THEN [sess EXCEPT !.uid = row.uid, !.mail = row.mail] ELSE sess

\* What a row must agree on with the session it was saved from.
Agrees(row, sess) == [sess EXCEPT !.uid = row.uid, !.mail = row.mail] = row
============================================================================
