----------------------------- MODULE PolicyCache -----------------------------
(***************************************************************************)
(* The policy cache of an edge (bap-edge/internal/policystore) and the     *)
(* policy store of the control plane that it synchronises with             *)
(* (bap-controlplane/internal/policy).                                     *)
(*                                                                         *)
(* The cache is three files: policy.cedar, schema.json and                 *)
(* policy-state.json.  Each is written by os.WriteFile, which truncates    *)
(* the file and then writes it; nothing spans two files, and the process   *)
(* may be killed, or an error of the disk may end Accept, between any two  *)
(* steps.  "bapedge sync" and "bapedge register" run a sync each.          *)
(*                                                                         *)
(* Contents are model values; Empty is the empty text, which is also a     *)
(* schema that does not exist.  A digest is the pair it covers.  Update    *)
(* has one caller, NewStore, so every bundle of a server has version 1.    *)
(***************************************************************************)
EXTENDS Integers, FiniteSets

CONSTANTS
    Cedars,        \* texts of policy.cedar on the server
    Schemas,       \* texts of schema.json there, Empty included if it may lack
    Empty, Junk,   \* no text; a text that two writers made
    NoFile,
    Syncs,         \* processes that synchronise
    Reverts,       \* TRUE if a restart may bring back an earlier bundle
    MaxRestarts,   \* bound on the restarts of the server
    MaxCrashes     \* bound on the syncs that end half-way

ASSUME TextAssumption ==
    /\ NoFile \notin Cedars \cup Schemas \cup {Empty, Junk}
    /\ Junk \notin Cedars \cup Schemas \cup {Empty}
ASSUME PolicyBoundAssumption ==
    Reverts \in BOOLEAN /\ MaxRestarts \in Nat /\ MaxCrashes \in Nat

VARIABLES
    bundle,        \* the server's cedar and schema
    past,          \* ghost: the bundles of the server so far
    kill,          \* bundle.KillSwitch
    file,          \* the files of the cache
    sync,          \* the syncs in progress
    told,          \* ghost: the last answer of the server was the kill switch
    cut,           \* ghost: an Accept ended half-way and none succeeded since
    restarts, crashes

server == <<bundle, past, kill, restarts>>
vars == <<server, file, sync, told, cut, crashes>>

Texts == Cedars \cup Schemas \cup {Empty}
Digest(cedar, schema) == <<cedar, schema>>
NoDigest == <<>>
Digests == (Texts \X Texts) \cup {NoDigest}
ServerVersion == 1

Policy == [cedar : Cedars, schema : Schemas]
State == [version : {0, ServerVersion}, digest : Digests, kill : BOOLEAN]
Bundle == [version : {0, ServerVersion}, digest : Digests, kill : BOOLEAN,
           cedar : Texts, schema : Texts]

NoState == [version |-> 0, digest |-> NoDigest, kill |-> FALSE]
NoBundle == [version |-> 0, digest |-> NoDigest, kill |-> FALSE,
             cedar |-> Empty, schema |-> Empty]

FileNames == {"cedar", "schema", "state"}
Places == {"idle", "post", "answer", "accept"} \cup FileNames
NoSync == [at |-> "idle", open |-> FALSE, old |-> NoState, dir |-> "none", b |-> NoBundle]

TypeOK ==
    /\ bundle \in Policy /\ past \subseteq Policy /\ bundle \in past
    /\ kill \in BOOLEAN /\ told \in BOOLEAN /\ cut \in BOOLEAN
    /\ DOMAIN file = FileNames
    /\ file["cedar"] \in Texts \cup {NoFile, Junk}
    /\ file["schema"] \in Texts \cup {NoFile, Junk}
    /\ file["state"] \in State \cup {NoFile, Empty, Junk}
    /\ sync \in [Syncs -> [at : Places, open : BOOLEAN, old : State,
                 dir : {"none", "CURRENT", "UPDATE_REQUIRED", "KILL_SWITCH"}, b : Bundle]]
    /\ restarts \in 0..MaxRestarts /\ crashes \in 0..MaxCrashes

Init ==
    /\ bundle \in Policy /\ past = {bundle} /\ kill = FALSE
    /\ file = [f \in FileNames |-> NoFile]
    /\ sync = [p \in Syncs |-> NoSync]
    /\ told = FALSE /\ cut = FALSE
    /\ restarts = 0 /\ crashes = 0

At(p, place) == sync[p].at = place
Rest(p) == sync' = [sync EXCEPT ![p] = NoSync]

-----------------------------------------------------------------------------
(***************************************************************************)
(* Reading the cache.                                                      *)
(***************************************************************************)
Readable == file["state"] \notin {NoFile, Empty, Junk}

\* LoadState, the zero value when it fails.
LoadState == IF Readable THEN file["state"] ELSE NoState

\* Current returns the paths of the files.
Usable == Readable /\ ~LoadState.kill /\ file["cedar"] # NoFile

OnDisk(f) == IF file[f] = NoFile THEN Empty ELSE file[f]

\* What the fallback reads has the digest that goes with it.
Matches == LoadState.digest = Digest(OnDisk("cedar"), OnDisk("schema"))

(***************************************************************************)
(* The control plane.                                                      *)
(***************************************************************************)
SetKillSwitch ==
    /\ kill' = ~kill
    /\ UNCHANGED <<bundle, past, restarts, file, sync, told, cut, crashes>>

\* A new process reads its files; the kill switch was in memory only, and so
\* were the requests in progress.
RestartServer(new) ==
    /\ restarts < MaxRestarts
    /\ Reverts \/ (new \notin past /\ (new.schema = Empty => bundle.schema = Empty))
    /\ bundle' = new /\ past' = past \cup {new} /\ kill' = FALSE
    /\ restarts' = restarts + 1
    /\ sync' = [p \in Syncs |-> IF At(p, "answer") THEN NoSync ELSE sync[p]]
    /\ UNCHANGED <<file, told, cut, crashes>>

\* Mutant: only versions are compared.
DirectiveByVersion(st) ==
    CASE kill -> "KILL_SWITCH"
      [] ~kill /\ st.version = ServerVersion -> "CURRENT"
      [] OTHER -> "UPDATE_REQUIRED"

\* Sync of the server: the directive for what the edge has installed.
Directive(st) ==
    CASE kill -> "KILL_SWITCH"
      [] ~kill /\ st.version = ServerVersion
               /\ st.digest = Digest(bundle.cedar, bundle.schema) -> "CURRENT"
      [] OTHER -> "UPDATE_REQUIRED"

-----------------------------------------------------------------------------
(***************************************************************************)
(* SyncWithServer.                                                         *)
(***************************************************************************)
SyncStart(p) ==
    /\ At(p, "idle")
    /\ sync' = [sync EXCEPT ![p].at = "post", ![p].old = LoadState]
    /\ UNCHANGED <<server, file, told, cut, crashes>>

SyncDirective(p) ==
    /\ At(p, "post")
    /\ sync' = [sync EXCEPT ![p].at = "answer", ![p].dir = Directive(sync[p].old)]
    /\ UNCHANGED <<server, file, told, cut, crashes>>

\* The answer points to the server's bundle and is encoded after the lock was
\* released, with whatever the kill switch is by then.
Offered == [version |-> ServerVersion, digest |-> Digest(bundle.cedar, bundle.schema),
            kill |-> kill, cedar |-> bundle.cedar, schema |-> bundle.schema]

\* Mutant: the lock counts as a newer version.
LockNewer(st) == [NoBundle EXCEPT !.version = st.version + 1, !.kill = TRUE]

\* The bundle that is to lock the cache: the old version and digest, no text.
Lock(st) == [NoBundle EXCEPT !.version = st.version, !.digest = st.digest, !.kill = TRUE]

KillAnswer(p) ==
    /\ At(p, "answer")
    /\ sync[p].dir = "KILL_SWITCH" \/ (sync[p].dir = "UPDATE_REQUIRED" /\ kill)
    /\ sync' = [sync EXCEPT ![p].at = "accept", ![p].b = Lock(sync[p].old)]
    /\ told' = TRUE
    /\ UNCHANGED <<server, file, cut, crashes>>

UpdateAnswer(p) ==
    /\ At(p, "answer") /\ sync[p].dir = "UPDATE_REQUIRED" /\ ~kill
    /\ sync' = [sync EXCEPT ![p].at = "accept", ![p].b = Offered]
    /\ told' = FALSE
    /\ UNCHANGED <<server, file, cut, crashes>>

CurrentAnswer(p) ==
    /\ At(p, "answer") /\ sync[p].dir = "CURRENT"
    /\ told' = FALSE
    /\ Rest(p)
    /\ UNCHANGED <<server, file, cut, crashes>>

\* Offline, a status that is not 200, or a server that went away.
NoAnswer(p) ==
    /\ sync[p].at \in {"post", "answer"}
    /\ Rest(p)
    /\ UNCHANGED <<server, file, told, cut, crashes>>

(***************************************************************************)
(* Accept.                                                                 *)
(***************************************************************************)
Rejects(b) ==
    \/ b.digest # NoDigest /\ b.digest # Digest(b.cedar, b.schema)
    \/ LoadState.version > 0 /\ b.version < LoadState.version

AcceptCheck(p) ==
    /\ At(p, "accept")
    /\ IF Rejects(sync[p].b) THEN Rest(p)
       ELSE sync' = [sync EXCEPT ![p].at = "cedar"]
    /\ UNCHANGED <<server, file, told, cut, crashes>>

\* Mutant: the schema is never written.
NextWithoutSchema(p) == IF At(p, "cedar") THEN "state" ELSE "idle"

NextFile(p) ==
    CASE At(p, "cedar") -> IF sync[p].b.schema = Empty THEN "state" ELSE "schema"
      [] At(p, "schema") -> "state"
      [] At(p, "state") -> "idle"

Content(p) ==
    LET b == sync[p].b IN
    CASE At(p, "cedar") -> b.cedar
      [] At(p, "schema") -> b.schema
      [] At(p, "state") -> [version |-> b.version, kill |-> b.kill,
                            digest |-> Digest(b.cedar, b.schema)]

WriteOpen(p) ==
    /\ sync[p].at \in FileNames /\ ~sync[p].open
    /\ file' = [file EXCEPT ![sync[p].at] = Empty]
    /\ sync' = [sync EXCEPT ![p].open = TRUE]
    /\ UNCHANGED <<server, told, cut, crashes>>

\* Over another text of another writer a longer end of that one may remain; the
\* state holds the time too, and so is always another text.
SameText(p) == ~At(p, "state") /\ file[sync[p].at] = Content(p)
Written(p) == {Content(p)} \cup
              (IF file[sync[p].at] = Empty \/ SameText(p) THEN {} ELSE {Junk})

WriteText(p) ==
    LET f == sync[p].at IN
    /\ f \in FileNames /\ sync[p].open
    /\ \E text \in Written(p) : file' = [file EXCEPT ![f] = text]
    /\ IF f = "state" THEN Rest(p) /\ cut' = FALSE
       ELSE sync' = [sync EXCEPT ![p].at = NextFile(p), ![p].open = FALSE] /\ UNCHANGED cut
    /\ UNCHANGED <<server, told, crashes>>

\* The process is killed, or a call of the system fails and Accept returns.
Crash(p) ==
    /\ ~At(p, "idle") /\ crashes < MaxCrashes
    /\ crashes' = crashes + 1
    /\ cut' = (cut \/ sync[p].open \/ sync[p].at \in {"schema", "state"})
    /\ Rest(p)
    /\ UNCHANGED <<server, file, told>>

-----------------------------------------------------------------------------
Answer(p) == KillAnswer(p) \/ UpdateAnswer(p) \/ CurrentAnswer(p)

AcceptStep(p) == AcceptCheck(p) \/ WriteOpen(p) \/ WriteText(p)

Next ==
    \/ SetKillSwitch
    \/ \E new \in Policy : RestartServer(new)
    \/ \E p \in Syncs : \/ SyncStart(p) \/ SyncDirective(p) \/ Answer(p) \/ NoAnswer(p)
                         \/ AcceptStep(p) \/ Crash(p)

Spec == Init /\ [][Next]_vars

\* Syncs are run again and again, one that is not cut ends, and the server
\* answers now and then.
Fairness ==
    \A p \in Syncs :
        /\ WF_vars(SyncStart(p)) /\ WF_vars(AcceptStep(p))
        /\ SF_vars(SyncDirective(p)) /\ SF_vars(Answer(p))

FairSpec == Spec /\ Fairness

-----------------------------------------------------------------------------
(***************************************************************************)
(* Properties.                                                             *)
(***************************************************************************)
Writing == \E p \in Syncs : sync[p].at \in FileNames

\* Outside Accept, and unless one was cut, the policy and the schema that a
\* fallback reads are those whose digest Accept checked: old and new files are
\* never mixed, over updates, kill switches and syncs that fail.
CacheIsWhole == Usable /\ ~Writing /\ ~cut => Matches

\* The cache holds the server's bundle and may be used.
Fresh == /\ Usable /\ ~Writing /\ Matches
         /\ LoadState.digest = Digest(bundle.cedar, bundle.schema)

\* When the kill switch stays off, the cache ends up whole and with the
\* server's bundle, whichever Accepts were cut and wherever: the state is
\* written last, so the digest it holds asks for the bundle again.
Converges == <>[]~kill => <>[]Fresh

-----------------------------------------------------------------------------
(***************************************************************************)
(* What the source says and the code does not do.                          *)
(***************************************************************************)

\* store.go:208: "Persist kill-switch so it remains locked even offline".
\* After a sync was told of the kill switch, the cache offers no policy until
\* a sync is told otherwise.
LockPersists == told /\ (\A p \in Syncs : At(p, "idle")) => ~Usable
=============================================================================
