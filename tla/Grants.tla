------------------------------- MODULE Grants -------------------------------
(***************************************************************************)
(* Authority grants: minted for an agent (internal/authz/grants.go and     *)
(* handleAcquireGrant), presented to the gateway (bap-gateway/main.go, in  *)
(* its default mode) or to Envoy, and consumed once by consumeActiveGrant. *)
(*                                                                         *)
(* A call reads the policy store, the registry and the minter one after    *)
(* the other; "at" names what it reads next.  Verify reads the clock       *)
(* before the minter's mutex is taken, so a grant may expire, and its      *)
(* record may be cleaned up, before it is marked.                          *)
(*                                                                         *)
(* Signatures are left out: a grant that was not minted does not verify.   *)
(* Time is in units of the TTL's; MaxTime bounds it for TLC.  Patience is  *)
(* how long a goroutine may take between reading the clock in Verify and   *)
(* holding the mutex: the code has no such bound, the theorems need one.   *)
(***************************************************************************)
EXTENDS Naturals, FiniteSets

CONSTANTS
    GrantIds, Resources,
    Agents,            \* entries of the registry, by agent id
    Names,             \* what a grant says of its agent: subject, application, instance
    Callers,           \* calls in flight
    TTL,               \* defaultTTL
    Patience, MaxTime,
    MaxRestarts,
    StableKey          \* BAP_SECRET_KEY is set, so the key survives a restart

ASSUME TimeAssumption ==
    /\ TTL \in Nat \ {0} /\ Patience \in Nat /\ MaxTime \in Nat /\ MaxRestarts \in Nat
    /\ Patience <= TTL
ASSUME KeyAssumption == StableKey \in BOOLEAN

VARIABLES
    now,
    grants,        \* the grants minted under the current key, by id
    consumed,      \* minter.consumedGrants: id |-> time
    entry,         \* registry.agents
    killSwitch,
    call,          \* calls in flight
    drawn,         \* the grant ids minted so far: random, so none comes twice
    forwarded,     \* how often the gateway has let a grant through
    restarts

vars == <<now, grants, consumed, entry, killSwitch, call, drawn, forwarded, restarts>>

\* An entry that is not active is pending, revoked or deregistered.
Entry == [status : {"active", "inactive"}, name : Names]
NoEntry == [status |-> "absent"]
Grant == [name : Names, scopes : SUBSET Resources, exp : Nat]
NoGrant == [exp |-> 0]
NoCall == [op |-> "none"]
AcquirePlaces == {"bearer", "freeze", "mint"}
ConsumePlaces == {"freeze", "list", "verify", "mark", "answer"}
Acquire == [op : {"acquire"}, at : AcquirePlaces, agent : Agents]
Consumption == [op : {"consume"}, at : ConsumePlaces, g : GrantIds,
                resource : Resources, since : Nat, bar : SUBSET {"frozen", "inactive"}]
\* Not consumed: a time no entry has.
Never == MaxTime + 1

TypeOK ==
    /\ now \in 0..MaxTime
    /\ grants \in [GrantIds -> Grant \cup {NoGrant}]
    /\ consumed \in [GrantIds -> 0..Never]
    /\ entry \in [Agents -> Entry \cup {NoEntry}]
    /\ killSwitch \in BOOLEAN
    /\ call \in [Callers -> Acquire \cup Consumption \cup {NoCall}]
    /\ drawn \in SUBSET GrantIds
    /\ forwarded \in [GrantIds -> Nat]
    /\ restarts \in 0..MaxRestarts
    /\ \A c \in Callers : call[c].op = "acquire" => entry[call[c].agent] # NoEntry

Init ==
    /\ now = 0
    /\ grants = [g \in GrantIds |-> NoGrant]
    /\ consumed = [g \in GrantIds |-> Never]
    /\ entry = [a \in Agents |-> NoEntry]
    /\ killSwitch = FALSE
    /\ call = [c \in Callers |-> NoCall]
    /\ drawn = {}
    /\ forwarded = [g \in GrantIds |-> 0]
    /\ restarts = 0

-----------------------------------------------------------------------------
Idle(c) == call[c] = NoCall
At(c, op, place) == call[c].op = op /\ call[c].at = place
Goto(c, place) == call' = [call EXCEPT ![c].at = place]
Hangup(c) == call' = [call EXCEPT ![c] = NoCall]

Minted(g) == grants[g] # NoGrant
\* Minter.Verify: the signature is ours and the grant has not expired.
Verify(g) == Minted(g) /\ now < grants[g].exp

\* Minter.Mint for an agent of this name.  Which scopes were asked for is the
\* caller's choice among those the agent is permitted.
Mint(g, n, scopes) ==
    /\ g \notin drawn
    /\ drawn' = drawn \cup {g}
    /\ grants' = [grants EXCEPT ![g] = [name |-> n, scopes |-> scopes, exp |-> now + TTL]]

\* The entries that match a grant.  Two fleets of one application in which the
\* same instance id is enrolled have two entries of one name.
Listed(n) == {a \in Agents : entry[a] # NoEntry /\ entry[a].name = n}
Active(a) == entry[a].status = "active"

\* Why a grant must not be burnt, given the entries and the kill switch, and which
\* of these reasons a consumption that has come to a place still looks for.
Bars(g, e, frozen) ==
    {b \in {"frozen", "inactive"} :
        \/ b = "frozen" /\ frozen
        \/ b = "inactive"
           /\ \A a \in Agents : e[a].status = "active" => e[a].name # grants[g].name}
Ahead(place) ==
    CASE place = "freeze" -> {"frozen", "inactive"}
      [] place = "list" -> {"inactive"}
      [] OTHER -> {}

\* What the calls in flight carry is brought up to date: a bar that is lifted
\* goes, and one that is laid before the call looks for it counts.
Rebar ==
    call' = [c \in Callers |->
                IF call[c].op = "consume" /\ call[c].at # "answer"
                THEN [call[c] EXCEPT !.bar =
                         Bars(call[c].g, entry', killSwitch') \cap (@ \cup Ahead(call[c].at))]
                ELSE call[c]]

(***************************************************************************)
(* Enrollment (handleRegisterEdge) writes an entry, whatever was there     *)
(* before, and mints the agent its first grant, which is its bearer        *)
(* credential.  Enrollment.tla has the steps.                              *)
(***************************************************************************)
Enroll(a, n, g) ==
    /\ entry' = [entry EXCEPT ![a] = [status |-> "active", name |-> n]]
    /\ Mint(g, n, Resources)
    /\ UNCHANGED <<now, consumed, killSwitch, forwarded, restarts>>
    /\ Rebar

\* EnsureSessionAgent makes an entry, or revives one that is not revoked; the
\* session's SPIFFE id may replace the entry's, and with it what grants must say.
SessionAgent(a, n) ==
    /\ entry[a] # [status |-> "active", name |-> n]
    /\ entry' = [entry EXCEPT ![a] = [status |-> "active", name |-> n]]
    /\ UNCHANGED <<now, grants, consumed, killSwitch, forwarded, drawn, restarts>>
    /\ Rebar

\* Administrators, ends of sessions and the purge change the status.
SetStatus(a, new) ==
    /\ entry[a] # NoEntry /\ entry[a].status # new
    /\ entry' = [entry EXCEPT ![a].status = new]
    /\ UNCHANGED <<now, grants, consumed, killSwitch, forwarded, drawn, restarts>>
    /\ Rebar

SetKillSwitch(on) ==
    /\ on # killSwitch
    /\ killSwitch' = on
    /\ UNCHANGED <<now, grants, consumed, entry, forwarded, drawn, restarts>>
    /\ Rebar

-----------------------------------------------------------------------------
(***************************************************************************)
(* handleAcquireGrant.  Get and the look at the status come first; after   *)
(* that the status is not looked at again.  The name is read where it is   *)
(* used, from the entry that Get has pointed to.                           *)
(***************************************************************************)
\* An administrator's call needs no bearer credential.
AcquireArrives(c, a) ==
    /\ Idle(c)
    /\ Active(a)
    /\ \E place \in {"bearer", "freeze"} :
           call' = [call EXCEPT ![c] = [op |-> "acquire", at |-> place, agent |-> a]]
    /\ UNCHANGED <<now, grants, consumed, entry, killSwitch, forwarded, drawn, restarts>>

\* The bearer credential is any unexpired grant of the same name, consumed or
\* not; the agent may have none to show.
AcquireBearer(c) ==
    /\ At(c, "acquire", "bearer")
    /\ \/ /\ \E g \in GrantIds : Verify(g) /\ grants[g].name = entry[call[c].agent].name
          /\ Goto(c, "freeze")
       \/ Hangup(c)
    /\ UNCHANGED <<now, grants, consumed, entry, killSwitch, forwarded, drawn, restarts>>

AcquireFreeze(c) ==
    /\ At(c, "acquire", "freeze")
    /\ IF killSwitch THEN Hangup(c) ELSE Goto(c, "mint")
    /\ UNCHANGED <<now, grants, consumed, entry, killSwitch, forwarded, drawn, restarts>>

AcquireMint(c, g, scopes) ==
    /\ At(c, "acquire", "mint")
    /\ Mint(g, entry[call[c].agent].name, scopes)
    /\ Hangup(c)
    /\ UNCHANGED <<now, consumed, entry, killSwitch, forwarded, restarts>>

-----------------------------------------------------------------------------
(***************************************************************************)
(* validateGrant of the gateway calls handleConsumeGrant, which calls      *)
(* consumeActiveGrant.  A grant that does not verify is refused at once.   *)
(***************************************************************************)
ConsumeArrives(c, g, r) ==
    /\ Idle(c)
    /\ Verify(g)
    /\ call' = [call EXCEPT ![c] =
                   [op |-> "consume", at |-> "freeze", g |-> g, resource |-> r,
                    since |-> now, bar |-> Bars(g, entry, killSwitch)]]
    /\ UNCHANGED <<now, grants, consumed, entry, killSwitch, forwarded, drawn, restarts>>

ConsumeFreeze(c) ==
    /\ At(c, "consume", "freeze")
    /\ IF killSwitch THEN Hangup(c) ELSE Goto(c, "list")
    /\ UNCHANGED <<now, grants, consumed, entry, killSwitch, forwarded, drawn, restarts>>

\* Mutant: the status of the entry is not checked.
ConsumeListUnchecked(c) ==
    /\ At(c, "consume", "list")
    /\ Goto(c, "verify")
    /\ UNCHANGED <<now, grants, consumed, entry, killSwitch, forwarded, drawn, restarts>>

\* registry.List has no order: the first entry of the grant's name is any of
\* them, and it alone decides.
ConsumeList(c) ==
    LET listed == Listed(grants[call[c].g].name) IN
    /\ At(c, "consume", "list")
    /\ \/ (\E a \in listed : Active(a)) /\ Goto(c, "verify")
       \/ (listed = {} \/ \E a \in listed : ~Active(a)) /\ Hangup(c)
    /\ UNCHANGED <<now, grants, consumed, entry, killSwitch, forwarded, drawn, restarts>>

\* Minter.Consume verifies again before it takes the mutex.
ConsumeVerify(c) ==
    /\ At(c, "consume", "verify")
    /\ IF Verify(call[c].g)
       THEN call' = [call EXCEPT ![c].at = "mark", ![c].since = now]
       ELSE Hangup(c)
    /\ UNCHANGED <<now, grants, consumed, entry, killSwitch, forwarded, drawn, restarts>>

\* Mutant: nothing is read under the mutex that writes the record.
ConsumeMarkUnchecked(c) ==
    /\ At(c, "consume", "mark")
    /\ Goto(c, "answer")
    /\ consumed' = [consumed EXCEPT ![call[c].g] = now]
    /\ UNCHANGED <<now, grants, entry, killSwitch, forwarded, drawn, restarts>>

\* Mutant: the scopes of the grant are not compared with the resource.
ConsumeMarkUnscoped(c) ==
    LET g == call[c].g IN
    /\ At(c, "consume", "mark")
    /\ IF consumed[g] # Never
       THEN Hangup(c) /\ UNCHANGED consumed
       ELSE Goto(c, "answer") /\ consumed' = [consumed EXCEPT ![g] = now]
    /\ UNCHANGED <<now, grants, entry, killSwitch, forwarded, drawn, restarts>>

\* Mutant: the record holds the time it may go, as if that were consumed.
ConsumeMarkDeadline(c) ==
    /\ At(c, "consume", "mark")
    /\ Goto(c, "answer")
    /\ consumed' = [consumed EXCEPT ![call[c].g] = now + 2 * TTL]
    /\ UNCHANGED <<now, grants, entry, killSwitch, forwarded, drawn, restarts>>

\* Callers always name a resource; an empty one would not be compared.
ConsumeMark(c) ==
    LET g == call[c].g IN
    /\ At(c, "consume", "mark")
    /\ IF consumed[g] # Never \/ call[c].resource \notin grants[g].scopes
       THEN Hangup(c) /\ UNCHANGED consumed
       ELSE Goto(c, "answer") /\ consumed' = [consumed EXCEPT ![g] = now]
    /\ UNCHANGED <<now, grants, entry, killSwitch, forwarded, drawn, restarts>>

\* The gateway lets the request through when the answer arrives; an answer that
\* is lost or late has burnt the grant for nothing.
ConsumeAnswer(c) ==
    /\ At(c, "consume", "answer")
    /\ forwarded' \in {forwarded, [forwarded EXCEPT ![call[c].g] = @ + 1]}
    /\ Hangup(c)
    /\ UNCHANGED <<now, grants, consumed, entry, killSwitch, drawn, restarts>>

-----------------------------------------------------------------------------
\* Mutant: a record goes as soon as it has aged at all.
ExpendableEarly(g) == consumed[g] # Never /\ now > consumed[g]

\* cleanupLoop, at any time.
Expendable(g) == consumed[g] # Never /\ now > consumed[g] + 2 * TTL

Cleanup ==
    /\ consumed' = [g \in GrantIds |-> IF Expendable(g) THEN Never ELSE consumed[g]]
    /\ UNCHANGED <<now, grants, entry, killSwitch, call, forwarded, drawn, restarts>>

Tick ==
    /\ now < MaxTime
    /\ \A c \in Callers : At(c, "consume", "mark") => now + 1 <= call[c].since + Patience
    /\ now' = now + 1
    /\ UNCHANGED <<grants, consumed, entry, killSwitch, call, forwarded, drawn, restarts>>

\* Registry, consumed grants and kill switch are in memory; without StableKey
\* the grants of the old key no longer verify.  The gateway is another process
\* and still forwards what had been answered.
Restart ==
    /\ restarts < MaxRestarts
    /\ restarts' = restarts + 1
    /\ consumed' = [g \in GrantIds |-> Never]
    /\ entry' = [a \in Agents |-> NoEntry]
    /\ killSwitch' = FALSE
    /\ call' = [c \in Callers |-> IF At(c, "consume", "answer") THEN call[c] ELSE NoCall]
    /\ grants' = IF StableKey THEN grants ELSE [g \in GrantIds |-> NoGrant]
    /\ UNCHANGED <<now, drawn, forwarded>>

CallStep(c) ==
    \/ AcquireBearer(c) \/ AcquireFreeze(c)
    \/ \E g \in GrantIds, scopes \in SUBSET Resources : AcquireMint(c, g, scopes)
    \/ ConsumeFreeze(c) \/ ConsumeList(c) \/ ConsumeVerify(c) \/ ConsumeMark(c)
    \/ ConsumeAnswer(c)

Next ==
    \/ \E a \in Agents, n \in Names, g \in GrantIds : Enroll(a, n, g)
    \/ \E a \in Agents, n \in Names : SessionAgent(a, n)
    \/ \E a \in Agents, new \in {"active", "inactive"} : SetStatus(a, new)
    \/ \E on \in BOOLEAN : SetKillSwitch(on)
    \/ \E c \in Callers :
           \/ \E a \in Agents : AcquireArrives(c, a)
           \/ \E g \in GrantIds, r \in Resources : ConsumeArrives(c, g, r)
           \/ CallStep(c)
    \/ Cleanup
    \/ Tick
    \/ Restart

Spec == Init /\ [][Next]_vars

-----------------------------------------------------------------------------
(***************************************************************************)
(* Properties.                                                             *)
(***************************************************************************)

\* A grant opens the gateway once: not again when two gateways present it at
\* the same time, nor when its record has been cleaned up, nor, with a signing
\* key that does not survive the server, after a restart.
SingleUse == \A g \in GrantIds : forwarded[g] <= 1

\* A consumption does not burn the grant if, since its arrival or since a time
\* when the check was still ahead of it, the fleet has been frozen or no entry of
\* the grant's name has been active.  (With another entry of that name active, the
\* grant of a revoked one may be burnt.)
NoUseWhenBarred ==
    \A c \in Callers : call[c].op = "consume" =>
        /\ "frozen" \in call[c].bar => call[c].at = "freeze"
        /\ "inactive" \in call[c].bar => call[c].at \in {"freeze", "list"}

\* A record is dropped only when no unexpired grant can need it.
CleanupIsSafe ==
    \A g \in GrantIds : forwarded[g] > 0 /\ Verify(g) => consumed[g] # Never

\* A grant that some call may still mark: it has not expired, or had not when
\* the call verified it.
Markable(g) ==
    /\ Minted(g) /\ consumed[g] = Never
    /\ Verify(g) \/ \E c \in Callers : At(c, "consume", "mark") /\ call[c].g = g

\* A consumption that is answered, though the answer has not arrived.
AcceptedOn(g, r) ==
    \E c \in Callers : At(c, "consume", "answer") /\ call[c].g = g /\ call[c].resource = r

GoodFor ==
    {x \in GrantIds \X Resources : Markable(x[1]) /\ x[2] \in grants[x[1]].scopes}
AcceptedFor == {x \in GrantIds \X Resources : AcceptedOn(x[1], x[2])}

\* A grant is a one-time pass for its scopes: it is minted once, is burnt by the
\* first consumption that is answered, for a resource in its scopes and at no
\* other, whether or not the answer arrives, and nothing, neither cleanup nor
\* expiry nor a restart, makes a grant consumable again.
Pass == INSTANCE OneTimePass WITH
    Passes <- GrantIds, Doors <- Resources,
    issued <- drawn, good <- GoodFor, accepted <- AcceptedFor, opened <- forwarded

ImplementsPass == Pass!Spec
=============================================================================
