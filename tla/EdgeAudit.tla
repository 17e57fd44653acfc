------------------------------ MODULE EdgeAudit ------------------------------
(***************************************************************************)
(* The audit log of an edge device (bap-edge/internal/audit) and the       *)
(* central audit store it feeds (bap-controlplane/internal/audit).         *)
(*                                                                         *)
(* A process that has decided about a command appends an entry to the log  *)
(* file, sends it once to the control plane and, if the answer confirms    *)
(* it, rewrites the file without it.  The mutex of the package serialises  *)
(* the goroutines of ONE process; nothing locks the file, so an action     *)
(* here is one access to the file.  The edge waits for the answer for      *)
(* 300 ms, while the server may be slow, and a process may be killed.      *)
(*                                                                         *)
(* The hash of an entry stands for its event: it covers a fresh event id   *)
(* and the hash before it.  Left out: logs switched off, and errors of the *)
(* disk, which both callers of Log and Transmit drop.                      *)
(***************************************************************************)
EXTENDS Integers, Sequences, FiniteSets, SequencesExt

CONSTANTS
    Events,        \* event ids
    Processes,     \* processes that share the log file
    Genesis,       \* "genesis-ltd-local", the hash before the first entry
    Torn,          \* the id of a line that is no longer an entry
    NoEvent,
    MaxRestarts    \* bound on the restarts of the control plane

ASSUME MarksAssumption ==
    /\ Genesis \notin Events /\ Torn \notin Events /\ NoEvent \notin Events
    /\ Genesis # Torn
ASSUME RestartsAssumption == MaxRestarts \in Nat

VARIABLES
    log,         \* the lines of the local log file
    proc,        \* what each process is doing
    sent,        \* the requests that the control plane has not handled
    acks,        \* the answers "acknowledged" on their way to the edge
    events,      \* auditStore.events, by id
    restarts,    \* restarts of the control plane so far
    logged,      \* ghost: the events that were ever appended
    ingested,    \* ghost: the events that were ever ingested
    cut          \* ghost: the events in a rewrite that was killed half-way

server == <<sent, acks, events, ingested, restarts>>
vars == <<log, proc, server, logged, cut>>

Line == [id : Events \cup {Torn}, prev : Events \cup {Genesis, Torn}]
TornLine == [id |-> Torn, prev |-> Torn]
Places == {"idle", "append", "send", "wait", "remove", "rewrite", "write"}
IdleProc == [at |-> "idle", e |-> NoEvent, prev |-> Genesis, copy |-> <<>>]

IdsOf(lines) == {lines[i].id : i \in DOMAIN lines}

TypeOK ==
    /\ log \in Seq(Line)
    /\ proc \in [Processes -> [at : Places, e : Events \cup {NoEvent},
                               prev : Events \cup {Genesis}, copy : Seq(Line)]]
    /\ sent \subseteq logged /\ acks \subseteq ingested
    /\ events \in Seq(ingested)
    /\ logged \subseteq Events /\ ingested \subseteq logged /\ cut \subseteq logged
    /\ restarts \in 0..MaxRestarts

Init ==
    /\ log = <<>>
    /\ proc = [p \in Processes |-> IdleProc]
    /\ sent = {} /\ acks = {} /\ events = <<>> /\ restarts = 0
    /\ logged = {} /\ ingested = {} /\ cut = {}

At(p, place) == proc[p].at = place
Goto(p, place) == proc' = [proc EXCEPT ![p].at = place]
Rest(p) == proc' = [proc EXCEPT ![p] = IdleProc]

-----------------------------------------------------------------------------
(***************************************************************************)
(* Log: read the hash of the last entry, then append one line.             *)
(***************************************************************************)
Whole(lines) == {i \in DOMAIN lines : lines[i].id # Torn}

\* Mutant: the scan meets the oldest entry first.
FirstHash(lines) == IF Whole(lines) = {} THEN Genesis ELSE lines[Min(Whole(lines))].id

\* Scanned from the end; a line that is not an entry is passed over.
LastHash(lines) == IF Whole(lines) = {} THEN Genesis ELSE lines[Max(Whole(lines))].id

LogRead(p, e) ==
    /\ At(p, "idle") /\ e \notin logged
    /\ \A q \in Processes : proc[q].e # e
    /\ proc' = [proc EXCEPT ![p] = [at |-> "append", e |-> e,
                                    prev |-> LastHash(log), copy |-> <<>>]]
    /\ UNCHANGED <<log, server, logged, cut>>

\* O_APPEND: one write puts the line at the end of the file as it is then.
LogAppend(p) ==
    /\ At(p, "append")
    /\ log' = Append(log, [id |-> proc[p].e, prev |-> proc[p].prev])
    /\ logged' = logged \cup {proc[p].e}
    /\ Goto(p, "send")
    /\ UNCHANGED <<server, cut>>

(***************************************************************************)
(* Transmit: one request, never repeated, and its answer.                  *)
(***************************************************************************)
\* No server, an entry of a test, or nobody listens: the entry is kept.
Keep(p) ==
    /\ At(p, "send")
    /\ Rest(p)
    /\ UNCHANGED <<log, server, logged, cut>>

Send(p) ==
    /\ At(p, "send")
    /\ sent' = sent \cup {proc[p].e}
    /\ Goto(p, "wait")
    /\ UNCHANGED <<log, acks, events, ingested, restarts, logged, cut>>

\* Mutant: the answer confirms what was not stored.
IngestNothing(e) ==
    /\ e \in sent
    /\ sent' = sent \ {e}
    /\ acks' = acks \cup {e}
    /\ UNCHANGED <<log, proc, events, ingested, restarts, logged, cut>>

\* handleAuditIngest and Ingest: a known id is skipped and the answer counts 0.
Ingest(e) ==
    /\ e \in sent
    /\ sent' = sent \ {e}
    /\ IF e \in ToSet(events) THEN UNCHANGED <<acks, events, ingested>>
       ELSE /\ acks' = acks \cup {e}
            /\ events' = Append(events, e)
            /\ ingested' = ingested \cup {e}
    /\ UNCHANGED <<log, proc, restarts, logged, cut>>

\* The timeout of httpClient, a lost answer, or a status that is not 200.
GiveUp(p) ==
    /\ At(p, "wait")
    /\ acks' = acks \ {proc[p].e}
    /\ Rest(p)
    /\ UNCHANGED <<log, sent, events, ingested, restarts, logged, cut>>

\* Mutant: any answer counts as the confirmation.
AcknowledgedUnread(p) ==
    /\ At(p, "wait")
    /\ acks' = acks \ {proc[p].e}
    /\ Goto(p, "remove") \/ Rest(p)
    /\ UNCHANGED <<log, sent, events, ingested, restarts, logged, cut>>

\* The handshake holds; BAP_RETAIN_LOCAL keeps the entry nevertheless.
Acknowledged(p) ==
    /\ At(p, "wait") /\ proc[p].e \in acks
    /\ acks' = acks \ {proc[p].e}
    /\ Goto(p, "remove") \/ Rest(p)
    /\ UNCHANGED <<log, sent, events, ingested, restarts, logged, cut>>

(***************************************************************************)
(* RemoveEntry: read the file, drop the entry, and write the rest back.    *)
(***************************************************************************)
\* Mutant: the rest begins after the entry.
RemainingAfter(lines, e) ==
    SelectSeq(lines, LAMBDA l : \E i, j \in DOMAIN lines :
                         lines[i].id = e /\ lines[j] = l /\ i < j)

\* The loop over the lines; one that is not an entry is kept.
Remaining(lines, e) ==
    LET kept[n \in 0..Len(lines)] ==
            IF n = 0 THEN <<>>
            ELSE IF lines[n].id = e THEN kept[n - 1]
            ELSE Append(kept[n - 1], lines[n])
    IN  kept[Len(lines)]

RemoveRead(p) ==
    /\ At(p, "remove")
    /\ proc' = [proc EXCEPT ![p].at = "rewrite", ![p].copy = Remaining(log, proc[p].e)]
    /\ UNCHANGED <<log, server, logged, cut>>

\* os.Truncate if nothing remains; else os.WriteFile, which truncates first.
Truncate(p) ==
    /\ At(p, "rewrite")
    /\ log' = <<>>
    /\ IF proc[p].copy = <<>> THEN Rest(p) ELSE Goto(p, "write")
    /\ UNCHANGED <<server, logged, cut>>

\* What is left of lines that others appended since, when n of them are
\* overwritten, the last one wholly or in part.  Lines differ in length.
LeftOver(lines) ==
    {<<>>} \cup
    {SubSeq(lines, n + 1, Len(lines)) : n \in 1..Len(lines)} \cup
    {<<TornLine>> \o SubSeq(lines, n + 1, Len(lines)) : n \in 1..Len(lines)}

\* The write begins at offset 0 of the file, whatever it holds by now.
Write(p) ==
    /\ At(p, "write")
    /\ \E rest \in LeftOver(log) : log' = proc[p].copy \o rest
    /\ Rest(p)
    /\ UNCHANGED <<server, logged, cut>>

(***************************************************************************)
(* Failures.                                                               *)
(***************************************************************************)
Kill(p) ==
    /\ ~At(p, "idle")
    /\ cut' = IF At(p, "write") THEN cut \cup (IdsOf(proc[p].copy) \ {Torn}) ELSE cut
    /\ acks' = acks \ {proc[p].e}
    /\ Rest(p)
    /\ UNCHANGED <<log, sent, events, ingested, restarts, logged>>

\* The central store is kept in memory only.
RestartServer ==
    /\ restarts < MaxRestarts
    /\ restarts' = restarts + 1
    /\ sent' = {} /\ acks' = {} /\ events' = <<>>
    /\ UNCHANGED <<log, proc, ingested, logged, cut>>

Process(p) ==
    \/ \E e \in Events : LogRead(p, e)
    \/ LogAppend(p) \/ Keep(p) \/ Send(p) \/ GiveUp(p) \/ Acknowledged(p)
    \/ RemoveRead(p) \/ Truncate(p) \/ Write(p) \/ Kill(p)

Next ==
    \/ \E p \in Processes : Process(p)
    \/ \E e \in Events : Ingest(e)
    \/ RestartServer

Spec == Init /\ [][Next]_vars

-----------------------------------------------------------------------------
(***************************************************************************)
(* Properties.                                                             *)
(***************************************************************************)

\* VerifyLocalLog (bapedge verify-log) says "valid".
Verifies(lines) ==
    \A i \in DOMAIN lines :
        /\ lines[i].id # Torn
        /\ \/ lines[i].prev = Genesis
           \/ i > 1 /\ lines[i].prev = lines[i - 1].id

\* verify-log reports tampering only if somebody tampered: with one process
\* at a time the chain of the local log holds, whichever entries were
\* acknowledged and removed, and wherever a process was killed.
LogVerifies == Verifies(log)

\* transmitter.go:36: "If the server is offline or fails the handshake, the
\* entry is safely preserved in logPath."  An entry that is not in the log has
\* reached the control plane, or is in memory of the process that rewrites the
\* log, or was there when that process was killed.
NothingLost ==
    \A e \in logged \ IdsOf(log) :
        \/ e \in ingested \cup cut
        \/ \E p \in Processes : At(p, "write") /\ e \in IdsOf(proc[p].copy)

\* The events whose evidence the edge holds: in the log, or in the memory of the
\* process that has truncated it and is about to write it back.
HeldAtEdge ==
    (IdsOf(log) \cup UNION {IdsOf(proc[p].copy) : p \in {q \in Processes : At(q, "write")}})
        \ {Torn}

\* Wherever a process is killed and whenever the server restarts, evidence leaves
\* the edge only after the centre has it, or by a kill in the middle of a
\* rewrite; the centre is never sent an event twice, takes none that was not
\* logged, and loses what it has only by a restart.
Trail == INSTANCE EvidenceTrail WITH
    recorded <- logged, edge <- HeldAtEdge, received <- ingested,
    centre <- events, spilt <- cut

ImplementsTrail == Trail!Spec
=============================================================================
