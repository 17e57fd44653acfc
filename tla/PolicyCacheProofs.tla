-------------------------- MODULE PolicyCacheProofs --------------------------
(***************************************************************************)
(* Type correctness of the policy cache, and that it is whole outside a    *)
(* cut Accept when one sync runs at a time and the server's policies only  *)
(* move forward.                                                           *)
(***************************************************************************)
EXTENDS PolicyCache, TLAPS

-----------------------------------------------------------------------------
(***************************************************************************)
(* Type correctness.                                                       *)
(***************************************************************************)
SyncRecord == [at : Places, open : BOOLEAN, old : State,
               dir : {"none", "CURRENT", "UPDATE_REQUIRED", "KILL_SWITCH"}, b : Bundle]

LEMMA ZeroTypes == NoState \in State /\ NoBundle \in Bundle /\ NoSync \in SyncRecord
BY DEF NoState, State, Digests, NoBundle, Bundle, Texts, NoSync, SyncRecord, Places,
       ServerVersion

LEMMA BundleTypes ==
    ASSUME TypeOK
    PROVE  /\ LoadState \in State
           /\ Offered \in Bundle
           /\ \A st \in State : Lock(st) \in Bundle
           /\ \A st \in State : Directive(st) \in {"CURRENT", "UPDATE_REQUIRED", "KILL_SWITCH"}
<1>1. LoadState \in State
  BY ZeroTypes DEF TypeOK, LoadState, Readable
<1>2. Offered \in Bundle
  BY DEF TypeOK, Policy, Offered, Bundle, Digests, Digest, Texts, ServerVersion
<1>3. \A st \in State : Lock(st) \in Bundle
  BY DEF Lock, NoBundle, State, Bundle, Texts, Digests
<1>4. \A st \in State : Directive(st) \in {"CURRENT", "UPDATE_REQUIRED", "KILL_SWITCH"}
  BY DEF TypeOK, Directive
<1> QED BY <1>1, <1>2, <1>3, <1>4

LEMMA ContentTypes ==
    ASSUME TypeOK, NEW p \in Syncs
    PROVE  /\ At(p, "cedar") => Content(p) \in Texts
           /\ At(p, "schema") => Content(p) \in Texts
           /\ At(p, "state") => Content(p) \in State
           /\ sync[p].at \in FileNames => NextFile(p) \in Places
<1> sync[p].b \in Bundle
  BY DEF TypeOK
<1>1. At(p, "cedar") => Content(p) \in Texts
  BY DEF At, Content, Bundle
<1>2. At(p, "schema") => Content(p) \in Texts
  BY DEF At, Content, Bundle
<1>3. At(p, "state") => Content(p) \in State
  BY DEF At, Content, Bundle, State, Digest, Digests
<1>4. sync[p].at \in FileNames => NextFile(p) \in Places
  BY DEF At, NextFile, FileNames, Places
<1> QED BY <1>1, <1>2, <1>3, <1>4

\* The conjuncts of TypeOK by the part of the system that they speak of.
ServerTypes == /\ bundle \in Policy /\ past \subseteq Policy /\ bundle \in past
               /\ kill \in BOOLEAN /\ restarts \in 0..MaxRestarts
CacheTypes == /\ DOMAIN file = FileNames
              /\ file["cedar"] \in Texts \cup {NoFile, Junk}
              /\ file["schema"] \in Texts \cup {NoFile, Junk}
              /\ file["state"] \in State \cup {NoFile, Empty, Junk}
SyncTypes == sync \in [Syncs -> SyncRecord]
GhostTypes == told \in BOOLEAN /\ cut \in BOOLEAN /\ crashes \in 0..MaxCrashes

LEMMA TypeParts == TypeOK <=> ServerTypes /\ CacheTypes /\ SyncTypes /\ GhostTypes
BY DEF TypeOK, ServerTypes, CacheTypes, SyncTypes, GhostTypes, SyncRecord

LEMMA TypeInit == Init => TypeOK
<1> SUFFICES ASSUME Init PROVE TypeOK
  OBVIOUS
<1>1. ServerTypes
  <2>1. bundle \in Policy /\ past \subseteq Policy /\ bundle \in past /\ kill \in BOOLEAN
    BY Zenon DEF Init
  <2>2. restarts \in 0..MaxRestarts
    BY PolicyBoundAssumption DEF Init
  <2> QED BY <2>1, <2>2, Zenon DEF ServerTypes
<1>2. CacheTypes
  BY DEF Init, CacheTypes, FileNames
<1>3. SyncTypes
  BY ZeroTypes DEF Init, SyncTypes
<1>4. GhostTypes
  <2>1. told \in BOOLEAN /\ cut \in BOOLEAN
    BY Zenon DEF Init
  <2>2. crashes \in 0..MaxCrashes
    BY PolicyBoundAssumption DEF Init
  <2> QED BY <2>1, <2>2, Zenon DEF GhostTypes
<1> QED BY <1>1, <1>2, <1>3, <1>4, TypeParts

\* A step of a sync changes the server in no way, and the cache only by Accept.
LEMMA KeptTypes ==
    /\ ServerTypes /\ UNCHANGED server => ServerTypes'
    /\ CacheTypes /\ UNCHANGED file => CacheTypes'
BY DEF ServerTypes, CacheTypes, server

LEMMA SyncFields ==
    ASSUME SyncTypes, NEW p \in Syncs, NEW at \in Places
    PROVE  /\ Rest(p) => SyncTypes'
           /\ sync' = [sync EXCEPT ![p].at = at] => SyncTypes'
           /\ \A open \in BOOLEAN :
                 sync' = [sync EXCEPT ![p].at = at, ![p].open = open] => SyncTypes'
           /\ \A st \in State : sync' = [sync EXCEPT ![p].at = at, ![p].old = st] => SyncTypes'
           /\ \A b \in Bundle : sync' = [sync EXCEPT ![p].at = at, ![p].b = b] => SyncTypes'
           /\ \A d \in {"CURRENT", "UPDATE_REQUIRED", "KILL_SWITCH"} :
                 sync' = [sync EXCEPT ![p].at = at, ![p].dir = d] => SyncTypes'
<1>1. Rest(p) => SyncTypes'
  BY ZeroTypes DEF Rest, SyncTypes
<1>2. sync' = [sync EXCEPT ![p].at = at] => SyncTypes'
  BY DEF SyncTypes, SyncRecord
<1>3. \A open \in BOOLEAN :
        sync' = [sync EXCEPT ![p].at = at, ![p].open = open] => SyncTypes'
  <2> SUFFICES ASSUME NEW open \in BOOLEAN,
                      sync' = [sync EXCEPT ![p].at = at, ![p].open = open]
               PROVE  SyncTypes'
    OBVIOUS
  <2>1. [[sync[p] EXCEPT !.at = at] EXCEPT !.open = open] \in SyncRecord
    BY Zenon DEF SyncTypes, SyncRecord
  <2> QED BY <2>1 DEF SyncTypes
<1>4. \A st \in State : sync' = [sync EXCEPT ![p].at = at, ![p].old = st] => SyncTypes'
  BY DEF SyncTypes, SyncRecord
<1>5. \A b \in Bundle : sync' = [sync EXCEPT ![p].at = at, ![p].b = b] => SyncTypes'
  BY DEF SyncTypes, SyncRecord
<1>6. \A d \in {"CURRENT", "UPDATE_REQUIRED", "KILL_SWITCH"} :
        sync' = [sync EXCEPT ![p].at = at, ![p].dir = d] => SyncTypes'
  <2> SUFFICES ASSUME NEW d \in {"CURRENT", "UPDATE_REQUIRED", "KILL_SWITCH"},
                      sync' = [sync EXCEPT ![p].at = at, ![p].dir = d]
               PROVE  SyncTypes'
    OBVIOUS
  <2>1. sync[p] \in SyncRecord
    BY DEF SyncTypes
  <2>2. [[sync[p] EXCEPT !.at = at] EXCEPT !.dir = d] \in SyncRecord
    BY <2>1 DEF SyncRecord
  <2> QED BY <2>2 DEF SyncTypes
<1> QED BY <1>1, <1>2, <1>3, <1>4, <1>5, <1>6

LEMMA TypeStep == TypeOK /\ [Next]_vars => TypeOK'
<1> SUFFICES ASSUME TypeOK, [Next]_vars PROVE ServerTypes' /\ CacheTypes' /\ SyncTypes' /\ GhostTypes'
  BY TypeParts, PTL
<1> ServerTypes /\ CacheTypes /\ SyncTypes /\ GhostTypes
  BY TypeParts
<1> {"idle", "post", "answer", "accept", "cedar", "schema", "state"} = Places
  BY DEF Places, FileNames
<1>1. CASE SetKillSwitch
  BY <1>1, KeptTypes DEF SetKillSwitch, ServerTypes, SyncTypes, GhostTypes
<1>2. ASSUME NEW new \in Policy, RestartServer(new)
      PROVE  ServerTypes' /\ CacheTypes' /\ SyncTypes' /\ GhostTypes'
  <2>1. bundle' \in Policy /\ past' \subseteq Policy /\ bundle' \in past' /\ kill' \in BOOLEAN
    BY <1>2, Zenon DEF RestartServer, ServerTypes
  <2>2. restarts' \in 0..MaxRestarts
    BY <1>2, PolicyBoundAssumption DEF RestartServer, ServerTypes
  <2>3. ServerTypes'
    BY <2>1, <2>2, Zenon DEF ServerTypes
  <2>4. SyncTypes'
    BY <1>2, ZeroTypes DEF RestartServer, SyncTypes
  <2> QED BY <1>2, <2>3, <2>4, KeptTypes DEF RestartServer, GhostTypes
<1>3. ASSUME NEW p \in Syncs, SyncStart(p)
      PROVE  ServerTypes' /\ CacheTypes' /\ SyncTypes' /\ GhostTypes'
  BY <1>3, BundleTypes, KeptTypes, SyncFields DEF SyncStart, GhostTypes
<1>4. ASSUME NEW p \in Syncs, SyncDirective(p)
      PROVE  ServerTypes' /\ CacheTypes' /\ SyncTypes' /\ GhostTypes'
  <2>1. sync[p].old \in State
    BY DEF SyncTypes, SyncRecord
  <2> QED BY <1>4, <2>1, BundleTypes, KeptTypes, SyncFields DEF SyncDirective, GhostTypes
<1>5. ASSUME NEW p \in Syncs, KillAnswer(p)
      PROVE  ServerTypes' /\ CacheTypes' /\ SyncTypes' /\ GhostTypes'
  <2>1. sync[p].old \in State
    BY DEF SyncTypes, SyncRecord
  <2> QED BY <1>5, <2>1, BundleTypes, KeptTypes, SyncFields DEF KillAnswer, GhostTypes
<1>6. ASSUME NEW p \in Syncs, UpdateAnswer(p)
      PROVE  ServerTypes' /\ CacheTypes' /\ SyncTypes' /\ GhostTypes'
  BY <1>6, BundleTypes, KeptTypes, SyncFields DEF UpdateAnswer, GhostTypes
<1>7. ASSUME NEW p \in Syncs, CurrentAnswer(p) \/ NoAnswer(p)
      PROVE  ServerTypes' /\ CacheTypes' /\ SyncTypes' /\ GhostTypes'
  BY <1>7, KeptTypes, SyncFields DEF CurrentAnswer, NoAnswer, GhostTypes
<1>8. ASSUME NEW p \in Syncs, AcceptCheck(p)
      PROVE  ServerTypes' /\ CacheTypes' /\ SyncTypes' /\ GhostTypes'
  BY <1>8, KeptTypes, SyncFields DEF AcceptCheck, GhostTypes
<1>9. ASSUME NEW p \in Syncs, WriteOpen(p)
      PROVE  ServerTypes' /\ CacheTypes' /\ SyncTypes' /\ GhostTypes'
  <2>1. CacheTypes'
    BY <1>9 DEF WriteOpen, CacheTypes, FileNames, Texts
  <2>2. SyncTypes'
    BY <1>9 DEF WriteOpen, SyncTypes, SyncRecord
  <2> QED BY <1>9, <2>1, <2>2, KeptTypes DEF WriteOpen, GhostTypes
<1>10. ASSUME NEW p \in Syncs, WriteText(p)
      PROVE  ServerTypes' /\ CacheTypes' /\ SyncTypes' /\ GhostTypes'
  <2> DEFINE f == sync[p].at
  <2>1. f \in FileNames /\ Written(p) \subseteq {Content(p), Junk}
    BY <1>10 DEF WriteText, Written
  <2>2. PICK text \in {Content(p), Junk} : file' = [file EXCEPT ![f] = text]
    BY <1>10, <2>1 DEF WriteText
  <2>3. CacheTypes'
    BY <2>1, <2>2, ContentTypes DEF CacheTypes, At, FileNames
  <2>4. SyncTypes'
    BY <1>10, <2>1, ContentTypes, SyncFields DEF WriteText
  <2>5. GhostTypes'
    BY <1>10 DEF WriteText, GhostTypes
  <2> QED BY <1>10, <2>3, <2>4, <2>5, KeptTypes DEF WriteText
<1>11. ASSUME NEW p \in Syncs, Crash(p)
      PROVE  ServerTypes' /\ CacheTypes' /\ SyncTypes' /\ GhostTypes'
  <2>1. cut' \in BOOLEAN
    BY <1>11 DEF Crash, GhostTypes, SyncTypes, SyncRecord
  <2>2. crashes' \in 0..MaxCrashes /\ UNCHANGED told
    BY <1>11, PolicyBoundAssumption DEF Crash, GhostTypes
  <2>3. GhostTypes'
    BY <2>1, <2>2, Zenon DEF GhostTypes
  <2>4. SyncTypes'
    BY <1>11, SyncFields DEF Crash
  <2> QED BY <1>11, <2>3, <2>4, KeptTypes DEF Crash
<1>12. CASE UNCHANGED vars
  BY <1>12, KeptTypes DEF vars, SyncTypes, GhostTypes
<1> QED BY <1>1, <1>2, <1>3, <1>4, <1>5, <1>6, <1>7, <1>8, <1>9, <1>10, <1>11, <1>12
        DEF Next, Answer, AcceptStep

\* Every variable keeps its type, for any texts, syncs and bounds: whatever
\* SyncWithServer, Accept and the server do to the files of the cache.
THEOREM TypeCorrect == Spec => []TypeOK
BY TypeInit, TypeStep, PTL DEF Spec

-----------------------------------------------------------------------------
(***************************************************************************)
(* The cache is whole outside a cut Accept, when one sync runs at a time   *)
(* and the server's policies only move forward.                            *)
(***************************************************************************)
OneSync == \A p, q \in Syncs : p = q

\* Once a schema is on the disk the server has one, so that a bundle without
\* schema, for which Accept leaves the file alone, cannot come any more.
SchemaStays ==
    /\ OnDisk("schema") # Empty => bundle.schema # Empty
    /\ \A p \in Syncs : sync[p].at \in {"accept"} \cup FileNames =>
          /\ sync[p].b.kill => sync[p].b.schema = Empty
          /\ sync[p].b.schema # Empty => bundle.schema # Empty
          /\ ~sync[p].b.kill /\ sync[p].b.schema = Empty => OnDisk("schema") = Empty

\* What the files hold at each place of Accept.
Progress ==
    \A p \in Syncs :
        /\ sync[p].open => sync[p].at \in FileNames /\ file[sync[p].at] = Empty
        /\ sync[p].at \in {"schema", "state"} => file["cedar"] = sync[p].b.cedar
        /\ At(p, "schema") => sync[p].b.schema # Empty
        /\ At(p, "state") /\ ~sync[p].b.kill => OnDisk("schema") = sync[p].b.schema

\* Accept has not yet touched a file.
Untouched(p) == sync[p].at \notin FileNames \/ (At(p, "cedar") /\ ~sync[p].open)

WholeUntilTouched == Usable /\ ~cut /\ (\A p \in Syncs : Untouched(p)) => Matches

CacheInv == TypeOK /\ SchemaStays /\ Progress /\ WholeUntilTouched

LEMMA CacheInit == Init => CacheInv
<1> SUFFICES ASSUME Init PROVE CacheInv
  OBVIOUS
<1>1. SchemaStays
  BY DEF Init, SchemaStays, OnDisk, FileNames, NoSync
<1>2. Progress
  BY DEF Init, Progress, NoSync, At, FileNames
<1>3. WholeUntilTouched
  BY DEF Init, WholeUntilTouched, Usable, Readable, FileNames
<1> QED BY <1>1, <1>2, <1>3, TypeInit DEF CacheInv

\* The steps before Accept writes, whatever the sync learns by them.
LEMMA BeforeWriting ==
    ASSUME OneSync, CacheInv, NEW p \in Syncs, sync' \in [Syncs -> SyncRecord],
           UNCHANGED <<bundle, file, cut>>, Untouched(p),
           ~sync'[p].open, sync'[p].at \notin {"schema", "state"},
           sync'[p].at \in {"accept", "cedar"} =>
              /\ sync'[p].b.kill => sync'[p].b.schema = Empty
              /\ sync'[p].b.schema # Empty => bundle.schema # Empty
              /\ ~sync'[p].b.kill /\ sync'[p].b.schema = Empty => OnDisk("schema") = Empty
    PROVE  SchemaStays' /\ Progress' /\ WholeUntilTouched'
<1> \A q \in Syncs : q = p
  BY DEF OneSync
<1>1. SchemaStays'
  BY DEF CacheInv, SchemaStays, OnDisk, FileNames
<1>2. Progress'
  BY DEF Progress, At, FileNames
<1>3. (Usable' <=> Usable) /\ (Matches' <=> Matches)
  BY DEF Usable, Readable, LoadState, Matches, OnDisk, Digest
<1>4. WholeUntilTouched'
  BY <1>3 DEF CacheInv, WholeUntilTouched, Untouched
<1> QED BY <1>1, <1>2, <1>4

LEMMA CacheStep == OneSync /\ ~Reverts /\ CacheInv /\ [Next]_vars => CacheInv'
<1> SUFFICES ASSUME OneSync, ~Reverts, CacheInv, [Next]_vars
             PROVE  SchemaStays' /\ Progress' /\ WholeUntilTouched'
  BY TypeStep DEF CacheInv
<1> TypeOK /\ SchemaStays /\ Progress /\ WholeUntilTouched
  BY DEF CacheInv
<1>a. SyncTypes /\ SyncTypes' /\ CacheTypes
  BY TypeStep, TypeParts, PTL
<1>b. sync \in [Syncs -> SyncRecord] /\ sync' \in [Syncs -> SyncRecord]
  BY <1>a DEF SyncTypes
<1>1. CASE UNCHANGED <<bundle, file, sync, cut>>
  <2>1. (Usable' <=> Usable) /\ (Matches' <=> Matches)
    BY <1>1 DEF Usable, Readable, LoadState, Matches, OnDisk, Digest
  <2>2. SchemaStays' /\ Progress'
    BY <1>1 DEF SchemaStays, Progress, OnDisk, At
  <2>3. WholeUntilTouched'
    BY <1>1, <2>1 DEF WholeUntilTouched, Untouched, At
  <2> QED BY <2>2, <2>3
<1>2. ASSUME NEW new \in Policy, RestartServer(new)
      PROVE  SchemaStays' /\ Progress' /\ WholeUntilTouched'
  <2>1. UNCHANGED <<file, cut>> /\ (bundle.schema # Empty => bundle'.schema # Empty)
    BY <1>2 DEF RestartServer
  <2>2. \A p \in Syncs : sync'[p] = sync[p] \/ (sync[p].at = "answer" /\ sync'[p] = NoSync)
    BY <1>2, <1>b DEF RestartServer, At
  <2>3. (Usable' <=> Usable) /\ (Matches' <=> Matches)
    BY <2>1 DEF Usable, Readable, LoadState, Matches, OnDisk, Digest
  <2>4. SchemaStays'
    BY <2>1, <2>2 DEF SchemaStays, OnDisk, NoSync, FileNames
  <2>5. Progress'
    BY <2>1, <2>2 DEF Progress, OnDisk, At, NoSync, FileNames
  <2>6. \A p \in Syncs : Untouched(p)' => Untouched(p)
    BY <2>2 DEF Untouched, At, NoSync, FileNames
  <2>7. WholeUntilTouched'
    BY <2>1, <2>3, <2>6 DEF WholeUntilTouched
  <2> QED BY <2>4, <2>5, <2>7
<1>3. ASSUME NEW p \in Syncs, SyncStart(p) \/ SyncDirective(p) \/ CurrentAnswer(p) \/ NoAnswer(p)
      PROVE  SchemaStays' /\ Progress' /\ WholeUntilTouched'
  <2>1. UNCHANGED <<bundle, file, cut>> /\ sync[p].at \in {"idle", "post", "answer"}
    BY <1>3 DEF SyncStart, SyncDirective, CurrentAnswer, NoAnswer, At, server
  <2>2. ~sync[p].open /\ Untouched(p)
    BY <2>1 DEF Progress, Untouched, FileNames
  <2>3. ~sync'[p].open /\ sync'[p].at \in {"idle", "post", "answer"}
    BY <1>3, <1>b, <2>2 DEF SyncStart, SyncDirective, CurrentAnswer, NoAnswer, Rest, NoSync, SyncRecord
  <2> QED BY <1>b, <2>1, <2>2, <2>3, BeforeWriting
<1>4. ASSUME NEW p \in Syncs, KillAnswer(p) \/ UpdateAnswer(p)
      PROVE  SchemaStays' /\ Progress' /\ WholeUntilTouched'
  <2>1. UNCHANGED <<bundle, file, cut>> /\ sync[p].at = "answer"
    BY <1>4 DEF KillAnswer, UpdateAnswer, At, server
  <2>2. ~sync[p].open /\ Untouched(p)
    BY <2>1 DEF Progress, Untouched, FileNames
  <2>3. ~sync'[p].open /\ sync'[p].at = "accept"
    BY <1>4, <1>b, <2>2 DEF KillAnswer, UpdateAnswer, SyncRecord
  <2>4. CASE KillAnswer(p)
    <3>1. sync'[p].b.kill /\ sync'[p].b.schema = Empty
      BY <2>4, <1>b DEF KillAnswer, Lock, NoBundle, SyncRecord
    <3> QED BY <1>b, <2>1, <2>2, <2>3, <3>1, BeforeWriting
  <2>5. CASE UpdateAnswer(p)
    <3>1. sync'[p].b.kill = FALSE /\ sync'[p].b.schema = bundle.schema
      BY <2>5, <1>b DEF UpdateAnswer, Offered, SyncRecord
    <3>2. bundle.schema = Empty => OnDisk("schema") = Empty
      BY DEF SchemaStays
    <3> QED BY <1>b, <2>1, <2>2, <2>3, <3>1, <3>2, BeforeWriting
  <2> QED BY <1>4, <2>4, <2>5
<1>5. ASSUME NEW p \in Syncs, AcceptCheck(p)
      PROVE  SchemaStays' /\ Progress' /\ WholeUntilTouched'
  <2>1. UNCHANGED <<bundle, file, cut>> /\ sync[p].at = "accept"
    BY <1>5 DEF AcceptCheck, At, server
  <2>2. ~sync[p].open /\ Untouched(p)
    BY <2>1 DEF Progress, Untouched, FileNames
  <2>3. CASE Rest(p)
    <3>1. ~sync'[p].open /\ sync'[p].at = "idle"
      BY <2>3, <1>b DEF Rest, NoSync
    <3> QED BY <1>b, <2>1, <2>2, <3>1, BeforeWriting
  <2>4. CASE sync' = [sync EXCEPT ![p].at = "cedar"]
    <3>1. ~sync'[p].open /\ sync'[p].at = "cedar" /\ sync'[p].b = sync[p].b
      BY <2>4, <2>2, <1>b DEF SyncRecord
    <3> QED BY <1>b, <2>1, <2>2, <3>1, BeforeWriting DEF SchemaStays
  <2> QED BY <1>5, <2>3, <2>4 DEF AcceptCheck
<1>6. ASSUME NEW p \in Syncs, WriteOpen(p)
      PROVE  SchemaStays' /\ Progress' /\ WholeUntilTouched'
  <2> DEFINE f == sync[p].at
  <2>0. \A q \in Syncs : q = p
    BY DEF OneSync
  <2>1. /\ f \in FileNames /\ UNCHANGED <<bundle, cut>>
        /\ sync'[p].at = f /\ sync'[p].b = sync[p].b /\ sync'[p].open = TRUE
    BY <1>6, <1>b DEF WriteOpen, SyncRecord, server
  <2>2. file'[f] = Empty /\ \A g \in FileNames \ {f} : file'[g] = file[g]
    BY <1>6, <2>1, <1>a DEF WriteOpen, CacheTypes
  <2>3. OnDisk("schema")' = OnDisk("schema") \/ OnDisk("schema")' = Empty
    BY <2>2 DEF OnDisk, FileNames
  <2>4. SchemaStays'
    BY <2>0, <2>1, <2>3 DEF SchemaStays
  <2>5. Progress'
    <3>1. f = "state" => OnDisk("schema")' = OnDisk("schema")
      BY <2>2 DEF OnDisk, FileNames
    <3> QED BY <2>0, <2>1, <2>2, <3>1 DEF Progress, At, FileNames
  <2>6. WholeUntilTouched'
    BY <2>1 DEF WholeUntilTouched, Untouched
  <2> QED BY <2>4, <2>5, <2>6
<1>7. ASSUME NEW p \in Syncs, WriteText(p)
      PROVE  SchemaStays' /\ Progress' /\ WholeUntilTouched'
  <2> DEFINE f == sync[p].at
             b == sync[p].b
  <2>0. \A q \in Syncs : q = p
    BY DEF OneSync
  <2>1. f \in FileNames /\ sync[p].open /\ UNCHANGED bundle
    BY <1>7 DEF WriteText, server
  <2>2. file' = [file EXCEPT ![f] = Content(p)]
    BY <1>7, <2>1 DEF WriteText, Written, Progress
  <2>3. file'[f] = Content(p) /\ \A g \in FileNames \ {f} : file'[g] = file[g]
    BY <2>1, <2>2, <1>a DEF CacheTypes
  <2>4. b \in Bundle /\ b.cedar # NoFile /\ b.schema # NoFile
    BY <1>b, TextAssumption DEF SyncRecord, Bundle, Texts
  <2>5. CASE f = "cedar"
    <3>1. file'["cedar"] = b.cedar /\ file'["schema"] = file["schema"]
      BY <2>3, <2>5 DEF Content, At, FileNames
    <3>2. /\ sync'[p].at = IF b.schema = Empty THEN "state" ELSE "schema"
          /\ sync'[p].open = FALSE /\ sync'[p].b = b
      BY <1>7, <2>5, <1>b DEF WriteText, NextFile, At, SyncRecord
    <3>3. OnDisk("schema")' = OnDisk("schema")
      BY <3>1 DEF OnDisk
    <3>4. SchemaStays'
      BY <2>0, <2>1, <3>2, <3>3 DEF SchemaStays
    <3>5. Progress'
      BY <2>0, <2>1, <3>1, <3>2, <3>3 DEF Progress, SchemaStays, At
    <3>6. WholeUntilTouched'
      BY <3>2 DEF WholeUntilTouched, Untouched, At, FileNames
    <3> QED BY <3>4, <3>5, <3>6
  <2>6. CASE f = "schema"
    <3>1. file'["schema"] = b.schema /\ file'["cedar"] = file["cedar"]
      BY <2>3, <2>6 DEF Content, At, FileNames
    <3>2. sync'[p].at = "state" /\ sync'[p].open = FALSE /\ sync'[p].b = b
      BY <1>7, <2>6, <1>b DEF WriteText, NextFile, At, SyncRecord
    <3>3. OnDisk("schema")' = b.schema /\ b.schema # Empty
      BY <3>1, <2>4, <2>6 DEF OnDisk, Progress, At
    <3>4. SchemaStays'
      BY <2>0, <2>1, <3>2, <3>3 DEF SchemaStays
    <3>5. Progress'
      BY <2>0, <2>6, <3>1, <3>2, <3>3 DEF Progress, At
    <3>6. WholeUntilTouched'
      BY <3>2 DEF WholeUntilTouched, Untouched, At, FileNames
    <3> QED BY <3>4, <3>5, <3>6
  <2>7. CASE f = "state"
    <3>1. /\ file'["state"] = [version |-> b.version, kill |-> b.kill,
                               digest |-> Digest(b.cedar, b.schema)]
          /\ file'["schema"] = file["schema"] /\ file'["cedar"] = file["cedar"]
      BY <2>3, <2>7 DEF Content, At, FileNames
    <3>2. sync'[p] = NoSync
      BY <1>7, <2>7, <1>b DEF WriteText, Rest
    <3>3. OnDisk("schema")' = OnDisk("schema") /\ OnDisk("cedar")' = b.cedar
      BY <3>1, <2>4, <2>7 DEF OnDisk, Progress
    <3>4. SchemaStays'
      BY <2>0, <2>1, <3>2, <3>3 DEF SchemaStays, NoSync, FileNames
    <3>5. Progress'
      BY <2>0, <3>2 DEF Progress, NoSync, At
    <3>6. WholeUntilTouched'
      <4>1. Usable' => ~b.kill /\ LoadState'.digest = Digest(b.cedar, b.schema)
        BY <3>1 DEF Usable, Readable, LoadState
      <4>2. ~b.kill => OnDisk("schema")' = b.schema
        BY <2>7, <3>3 DEF Progress, At
      <4> QED BY <4>1, <4>2, <3>3 DEF WholeUntilTouched, Matches, Digest
    <3> QED BY <3>4, <3>5, <3>6
  <2> QED BY <2>1, <2>5, <2>6, <2>7 DEF FileNames
<1>8. ASSUME NEW p \in Syncs, Crash(p)
      PROVE  SchemaStays' /\ Progress' /\ WholeUntilTouched'
  <2>0. \A q \in Syncs : q = p
    BY DEF OneSync
  <2>1. UNCHANGED <<bundle, file>> /\ sync'[p] = NoSync
    BY <1>8, <1>b DEF Crash, Rest, server
  <2>2. ~cut' => ~cut /\ Untouched(p)
    BY <1>8 DEF Crash, Untouched, FileNames, At
  <2>3. (Usable' <=> Usable) /\ (Matches' <=> Matches)
    BY <2>1 DEF Usable, Readable, LoadState, Matches, OnDisk, Digest
  <2>4. SchemaStays'
    BY <2>0, <2>1 DEF SchemaStays, OnDisk, NoSync, FileNames
  <2>5. Progress'
    BY <2>0, <2>1 DEF Progress, NoSync, At
  <2>6. WholeUntilTouched'
    BY <2>0, <2>2, <2>3 DEF WholeUntilTouched
  <2> QED BY <2>4, <2>5, <2>6
<1>9. CASE SetKillSwitch
  BY <1>1, <1>9 DEF SetKillSwitch
<1>10. CASE UNCHANGED vars
  BY <1>1, <1>10 DEF vars, server
<1> QED BY <1>2, <1>3, <1>4, <1>5, <1>6, <1>7, <1>8, <1>9, <1>10 DEF Next, Answer, AcceptStep

\* With one sync at a time and a server whose policies only move forward, what
\* a fallback reads outside Accept is what Accept checked, unless one was cut.
THEOREM WholeOutsideAccept == OneSync /\ ~Reverts /\ Spec => []CacheIsWhole
<1>1. CacheInv => CacheIsWhole
  BY DEF CacheInv, WholeUntilTouched, CacheIsWhole, Untouched, Writing
<1>2. ASSUME OneSync /\ ~Reverts PROVE Spec => []CacheIsWhole
  <2>1. CacheInv /\ [Next]_vars => CacheInv'
    BY <1>2, CacheStep
  <2> QED BY CacheInit, <1>1, <2>1, PTL DEF Spec
<1> QED BY <1>2
=============================================================================
