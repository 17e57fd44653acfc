---------------------------- MODULE GrantsProofs ----------------------------
(***************************************************************************)
(* A grant opens the gateway at most once (SingleUse), for any number of   *)
(* grants, callers and restarts and for any TTL, provided that a goroutine *)
(* takes no longer than a TTL from its look at the clock to the mutex, and *)
(* that the signing key does not survive a restart.                        *)
(*                                                                         *)
(* SingleUse is not inductive: that consumedGrants still has the grant     *)
(* when it is presented again has to follow from times.  Spent grants are  *)
(* remembered, or have expired for longer than any call can wait.          *)
(*                                                                         *)
(* The same invariant IInv carries CleanupLosesNothing and the refinement  *)
(* of OneTimePass (GrantsAreOneTimePasses), at the end of the module;      *)
(* BarredIsNotUsed adds to it what barred each call.                       *)
(***************************************************************************)
EXTENDS Grants, TLAPS

Answered(c, g) == At(c, "consume", "answer") /\ call[c].g = g
Spent(g) == forwarded[g] > 0 \/ \E c \in Callers : Answered(c, g)

\* A grant verifies for a TTL from its minting, and its id is known.
MintedInTime ==
    \A g \in GrantIds : Minted(g) => g \in drawn /\ grants[g].exp <= now + TTL

\* A record is of a grant under the current key, made before it had expired for
\* longer than the patience of a call.
RecordInTime ==
    \A g \in GrantIds : consumed[g] # Never =>
        /\ Minted(g) /\ consumed[g] <= now
        /\ grants[g].exp <= consumed[g] + TTL

\* A call about to mark a grant has seen it unexpired and is not late.
CallsInTime ==
    \A c \in Callers : call[c].op = "consume" =>
        /\ call[c].g \in drawn
        /\ call[c].at # "answer" => Minted(call[c].g)
        /\ call[c].at = "mark" =>
               /\ call[c].since < grants[call[c].g].exp
               /\ now <= call[c].since + Patience

\* A spent grant is on record, or too old for any call, or of an old key.
SpentIsKnown ==
    \A g \in GrantIds : Spent(g) =>
        /\ g \in drawn
        /\ Minted(g) /\ consumed[g] = Never => now > grants[g].exp + TTL

\* At most one call, and at most once, lets a grant through.
OneAnswer ==
    /\ \A g \in GrantIds : forwarded[g] <= 1
    /\ \A c \in Callers, g \in GrantIds : Answered(c, g) => forwarded[g] = 0
    /\ \A c, d \in Callers, g \in GrantIds : Answered(c, g) /\ Answered(d, g) => c = d

IInv == TypeOK /\ MintedInTime /\ RecordInTime /\ CallsInTime /\ SpentIsKnown /\ OneAnswer
-----------------------------------------------------------------------------
\* The shape of a call, from its operation.
LEMMA CallShape ==
    ASSUME TypeOK, NEW c \in Callers
    PROVE  /\ call[c].op = "consume" => call[c] \in Consumption
           /\ call[c].op = "acquire" => call[c] \in Acquire
BY DEF TypeOK, Acquire, Consumption, NoCall

LEMMA AcquireOn ==
    ASSUME NEW r \in Acquire, NEW place
    PROVE  /\ [r EXCEPT !.at = place].op = "acquire"
           /\ [r EXCEPT !.at = place].agent = r.agent
           /\ r.op = "acquire" /\ NoCall.op = "none"
BY DEF Acquire, NoCall

LEMMA GrantShape ==
    ASSUME TypeOK, NEW g \in GrantIds, Minted(g)
    PROVE  grants[g] \in Grant
BY DEF TypeOK, Minted

\* The initial state has the types, and every step keeps them.
LEMMA TypeInit == Init => TypeOK
<1>1. 0 \in 0..MaxTime /\ Never \in 0..Never /\ 0 \in 0..MaxRestarts
  BY TimeAssumption DEF Never
<1>2. ASSUME Init
      PROVE  /\ grants \in [GrantIds -> Grant \cup {NoGrant}]
             /\ consumed \in [GrantIds -> 0..Never]
             /\ call \in [Callers -> Acquire \cup Consumption \cup {NoCall}]
  BY <1>1, <1>2 DEF Init
<1>3. ASSUME Init
      PROVE  /\ entry \in [Agents -> Entry \cup {NoEntry}]
             /\ \A c \in Callers : call[c].op # "acquire"
             /\ forwarded \in [GrantIds -> Nat]
             /\ drawn \in SUBSET GrantIds
  BY <1>3 DEF Init, NoCall
<1>. QED BY <1>1, <1>2, <1>3 DEF Init, TypeOK

\* An update of the bars changes nothing else of the calls.
LEMMA RebarShape ==
    ASSUME TypeOK, Rebar, NEW c \in Callers
    PROVE  \/ call'[c] = call[c]
           \/ /\ call[c] \in Consumption /\ call[c].at # "answer"
              /\ call'[c] = [call[c] EXCEPT !.bar =
                     Bars(call[c].g, entry', killSwitch') \cap (@ \cup Ahead(call[c].at))]
              /\ call'[c] \in Consumption
<1>1. CASE call[c].op = "consume" /\ call[c].at # "answer"
  <2>1. call[c] \in Consumption
    BY <1>1, CallShape
  <2>2. call'[c] = [call[c] EXCEPT !.bar =
                     Bars(call[c].g, entry', killSwitch') \cap (@ \cup Ahead(call[c].at))]
    BY <1>1 DEF Rebar
  <2>3. Bars(call[c].g, entry', killSwitch') \subseteq {"frozen", "inactive"}
    BY DEF Bars
  <2>. QED BY <1>1, <2>1, <2>2, <2>3 DEF Consumption
<1>2. CASE ~(call[c].op = "consume" /\ call[c].at # "answer")
  BY <1>2 DEF Rebar
<1>. QED BY <1>1, <1>2

LEMMA RebarType ==
    ASSUME TypeOK, Rebar
    PROVE  /\ call' \in [Callers -> Acquire \cup Consumption \cup {NoCall}]
           /\ \A c \in Callers : call'[c].op = "acquire" => call'[c] = call[c]
<1>1. ASSUME NEW c \in Callers
      PROVE  /\ call'[c] \in Acquire \cup Consumption \cup {NoCall}
             /\ call'[c].op = "acquire" => call'[c] = call[c]
  <2>1. CASE call'[c] = call[c]
    BY <2>1 DEF TypeOK
  <2>2. CASE call'[c] \in Consumption
    BY <2>2 DEF Consumption
  <2>. QED BY <2>1, <2>2, RebarShape
<1>. QED BY <1>1 DEF Rebar

LEMMA Callee ==
    ASSUME TypeOK, NEW c \in Callers, call[c].op = "acquire"
    PROVE  /\ call[c].agent \in Agents
           /\ entry[call[c].agent] # NoEntry /\ entry[call[c].agent] \in Entry
BY CallShape DEF Acquire, TypeOK

LEMMA TypeNext == TypeOK /\ [Next]_vars => TypeOK'
<1> SUFFICES ASSUME TypeOK, [Next]_vars PROVE TypeOK'
  OBVIOUS
<1> USE TimeAssumption
<1>1. ASSUME NEW a \in Agents, NEW n \in Names, NEW g \in GrantIds, Enroll(a, n, g)
      PROVE  TypeOK'
  <2>1. grants' \in [GrantIds -> Grant \cup {NoGrant}]
    BY <1>1 DEF Enroll, Mint, TypeOK, Grant
  <2>2. /\ entry' \in [Agents -> Entry \cup {NoEntry}]
        /\ \A b \in Agents : entry[b] # NoEntry => entry'[b] # NoEntry
    BY <1>1 DEF Enroll, TypeOK, Entry, NoEntry
  <2>. QED BY <1>1, <2>1, <2>2, RebarType, Callee DEF Enroll, Mint, TypeOK
<1>11. ASSUME NEW a \in Agents, NEW n \in Names, SessionAgent(a, n) PROVE TypeOK'
  <2>1. /\ entry' \in [Agents -> Entry \cup {NoEntry}]
        /\ \A b \in Agents : entry[b] # NoEntry => entry'[b] # NoEntry
    BY <1>11 DEF SessionAgent, TypeOK, Entry, NoEntry
  <2>. QED BY <1>11, <2>1, RebarType, Callee DEF SessionAgent, TypeOK
<1>2. ASSUME NEW a \in Agents, NEW new \in {"active", "inactive"}, SetStatus(a, new)
      PROVE  TypeOK'
  <2>0. [entry[a] EXCEPT !.status = new] \in Entry
    BY <1>2 DEF SetStatus, TypeOK, Entry
  <2>1. /\ entry' \in [Agents -> Entry \cup {NoEntry}]
        /\ \A b \in Agents : entry[b] # NoEntry => entry'[b] # NoEntry
    BY <1>2, <2>0 DEF SetStatus, TypeOK, Entry, NoEntry
  <2>. QED BY <1>2, <2>1, RebarType, Callee DEF SetStatus, TypeOK
<1>3. ASSUME NEW on \in BOOLEAN, SetKillSwitch(on) PROVE TypeOK'
  BY <1>3, RebarType, Callee DEF SetKillSwitch, TypeOK
<1>4. ASSUME NEW c \in Callers, NEW a \in Agents, AcquireArrives(c, a) PROVE TypeOK'
  <2>1. PICK place \in {"bearer", "freeze"} :
           call' = [call EXCEPT ![c] = [op |-> "acquire", at |-> place, agent |-> a]]
    BY <1>4 DEF AcquireArrives
  <2>2. [op |-> "acquire", at |-> place, agent |-> a] \in Acquire
    BY DEF Acquire, AcquirePlaces
  <2>3. entry[a] # NoEntry
    BY <1>4 DEF AcquireArrives, Active, NoEntry
  <2>. QED BY <1>4, <2>1, <2>2, <2>3 DEF AcquireArrives, TypeOK
<1>5. ASSUME NEW c \in Callers, NEW g \in GrantIds, NEW r \in Resources,
             ConsumeArrives(c, g, r)
      PROVE TypeOK'
  <2>1. [op |-> "consume", at |-> "freeze", g |-> g, resource |-> r,
         since |-> now, bar |-> Bars(g, entry, killSwitch)] \in Consumption
    <3>1. Bars(g, entry, killSwitch) \in SUBSET {"frozen", "inactive"}
      BY DEF Bars
    <3>. QED BY <3>1 DEF TypeOK, Consumption, ConsumePlaces
  <2>. QED BY <1>5, <2>1 DEF ConsumeArrives, TypeOK
<1>6. ASSUME NEW c \in Callers, CallStep(c) PROVE TypeOK'
  <2> DEFINE Calls == Acquire \cup Consumption \cup {NoCall}
  <2>1. NoCall \in Calls
    OBVIOUS
  <2>2. ASSUME NEW place \in AcquirePlaces, call[c].op = "acquire"
        PROVE [call[c] EXCEPT !.at = place] \in Calls
    BY <2>2, CallShape DEF Acquire
  <2>3. ASSUME NEW place \in ConsumePlaces, call[c].op = "consume"
        PROVE [call[c] EXCEPT !.at = place] \in Calls
    BY <2>3, CallShape DEF Consumption
  \* No step of a call touches the entries, or turns it into an acquisition.
  <2>12. \A d \in Callers : call'[d].op = "acquire" => entry'[call'[d].agent] # NoEntry
    <3>1. entry' = entry /\ \A d \in Callers \ {c} : call'[d] = call[d]
      BY <1>6 DEF CallStep, AcquireBearer, AcquireFreeze, AcquireMint, ConsumeFreeze,
         ConsumeList, ConsumeVerify, ConsumeMark, ConsumeAnswer,
         Goto, Hangup, TypeOK
    <3>2. call[c] \in Acquire \cup Consumption
      BY <1>6, CallShape DEF CallStep, AcquireBearer, AcquireFreeze, AcquireMint, ConsumeFreeze,
         ConsumeList, ConsumeVerify, ConsumeMark, ConsumeAnswer, At
    <3>3. CASE call[c] \in Acquire
      <4>1. call'[c] = NoCall \/ \E place : call'[c] = [call[c] EXCEPT !.at = place]
        BY <1>6, <3>3 DEF CallStep, AcquireBearer, AcquireFreeze, AcquireMint, ConsumeFreeze,
         ConsumeList, ConsumeVerify, ConsumeMark, ConsumeAnswer,
           Goto, Hangup, At, Acquire, TypeOK
      <4>2. call'[c].op = "acquire" =>
                call[c].op = "acquire" /\ call'[c].agent = call[c].agent
        <5>1. CASE call'[c] = NoCall
          BY <5>1 DEF NoCall
        <5>2. ASSUME NEW place, call'[c] = [call[c] EXCEPT !.at = place]
              PROVE  call[c].op = "acquire" /\ call'[c].agent = call[c].agent
          BY <3>3, <5>2 DEF Acquire
        <5>. QED BY <4>1, <5>1, <5>2
      <4>. QED BY <3>1, <4>2 DEF TypeOK
    <3>4. CASE call[c] \in Consumption
      <4>1. \/ call'[c] = NoCall
            \/ \E place : call' = [call EXCEPT ![c].at = place]
            \/ call' = [call EXCEPT ![c].at = "mark", ![c].since = now]
        BY <1>6, <3>4 DEF CallStep, AcquireBearer, AcquireFreeze, AcquireMint, ConsumeFreeze,
         ConsumeList, ConsumeVerify, ConsumeMark, ConsumeAnswer,
           Goto, Hangup, At, Consumption, TypeOK
      <4>2. call'[c].op # "acquire"
        BY <3>4, <4>1 DEF Consumption, NoCall, TypeOK
      <4>. QED BY <3>1, <4>2 DEF TypeOK
    <3>. QED BY <3>2, <3>3, <3>4
  <2>4. CASE AcquireBearer(c)
    BY <2>1, <2>2, <2>4, <2>12 DEF AcquireBearer, At, Goto, Hangup, AcquirePlaces, TypeOK
  <2>5. CASE AcquireFreeze(c)
    BY <2>1, <2>2, <2>5, <2>12 DEF AcquireFreeze, At, Goto, Hangup, AcquirePlaces, TypeOK
  <2>6. ASSUME NEW g \in GrantIds, NEW scopes \in SUBSET Resources, AcquireMint(c, g, scopes)
        PROVE TypeOK'
    <3>1. entry[call[c].agent].name \in Names
      BY <2>6, Callee DEF AcquireMint, At, Entry
    <3>2. [name |-> entry[call[c].agent].name, scopes |-> scopes, exp |-> now + TTL] \in Grant
      BY <3>1 DEF Grant, TypeOK
    <3>3. grants' \in [GrantIds -> Grant \cup {NoGrant}]
      BY <2>6, <3>2 DEF AcquireMint, Mint, TypeOK
    <3>. QED BY <2>6, <2>12, <3>3 DEF AcquireMint, Mint, Hangup, TypeOK
  <2>7. CASE ConsumeFreeze(c)
    BY <2>1, <2>3, <2>7, <2>12 DEF ConsumeFreeze, At, Goto, Hangup, ConsumePlaces, TypeOK
  <2>8. CASE ConsumeList(c)
    BY <2>1, <2>3, <2>8, <2>12 DEF ConsumeList, At, Goto, Hangup, ConsumePlaces, TypeOK
  <2>9. CASE ConsumeVerify(c)
    <3>1. call[c] \in Consumption
      BY <2>9, CallShape DEF ConsumeVerify, At
    <3>2. now \in Nat
      BY DEF TypeOK
    <3>3. [call[c] EXCEPT !.at = "mark", !.since = now] \in Consumption
      BY <3>1, <3>2 DEF Consumption, ConsumePlaces
    <3>. QED BY <2>1, <2>9, <2>12, <3>3 DEF ConsumeVerify, Hangup, TypeOK
  <2>10. CASE ConsumeMark(c)
    <3>1. consumed' \in [GrantIds -> 0..Never]
      BY <2>10 DEF ConsumeMark, TypeOK, Never
    <3>. QED BY <2>1, <2>3, <2>10, <2>12, <3>1
         DEF ConsumeMark, At, Goto, Hangup, ConsumePlaces, TypeOK
  <2>11. CASE ConsumeAnswer(c)
    <3>1. forwarded' \in [GrantIds -> Nat]
      BY <2>11 DEF ConsumeAnswer, TypeOK
    <3>. QED BY <2>1, <2>11, <2>12, <3>1 DEF ConsumeAnswer, Hangup, TypeOK
  <2>. QED BY <1>6, <2>4, <2>5, <2>6, <2>7, <2>8, <2>9, <2>10, <2>11 DEF CallStep
<1>7. CASE Cleanup
  <2>1. Never \in 0..Never
    BY DEF Never
  <2>2. consumed' \in [GrantIds -> 0..Never]
    BY <1>7, <2>1 DEF Cleanup, TypeOK
  <2>. QED BY <1>7, <2>2 DEF Cleanup, TypeOK
<1>8. CASE Tick
  BY <1>8 DEF Tick, TypeOK
<1>9. CASE Restart
  <2>1. Never \in 0..Never
    BY DEF Never
  <2>2. grants' \in [GrantIds -> Grant \cup {NoGrant}]
    BY <1>9 DEF Restart, TypeOK
  <2>3. call' \in [Callers -> Acquire \cup Consumption \cup {NoCall}]
    BY <1>9 DEF Restart, TypeOK
  <2>4. restarts' \in 0..MaxRestarts
    BY <1>9 DEF Restart, TypeOK
  <2>5. \A c \in Callers : call'[c].op # "acquire"
    <3> TAKE c \in Callers
    <3>1. call'[c] = IF At(c, "consume", "answer") THEN call[c] ELSE NoCall
      BY <1>9 DEF Restart, At
    <3>. QED BY <3>1 DEF At, NoCall
  <2>. QED BY <1>9, <2>1, <2>2, <2>3, <2>4, <2>5 DEF Restart, TypeOK
<1>10. CASE UNCHANGED vars
  BY <1>10 DEF vars, TypeOK
<1>. QED
  BY <1>1, <1>2, <1>3, <1>4, <1>5, <1>6, <1>7, <1>8, <1>9, <1>10, <1>11 DEF Next

\* Every variable of Grants keeps its type.
THEOREM TypeCorrect == Spec => []TypeOK
BY TypeInit, TypeNext, PTL DEF Spec
-----------------------------------------------------------------------------
\* What most actions do to the parts of the invariant: nothing, but for calls
\* that hang up, go on to another look, or arrive.
Quiet ==
    /\ UNCHANGED <<now, grants, consumed, drawn, forwarded>>
    /\ \A c \in Callers : call'[c].op = "consume" =>
           \/ call'[c].at \notin {"mark", "answer"} /\ Minted(call'[c].g)
              /\ call'[c].g \in GrantIds
           \/ /\ call[c].op = "consume" /\ call'[c].at = call[c].at
              /\ call'[c].g = call[c].g /\ call'[c].since = call[c].since

\* A call that is as it was, up to its bars.
Same(c) ==
    \/ call'[c] = call[c]
    \/ /\ call[c] \in Consumption /\ call'[c] \in Consumption
       /\ call'[c].at = call[c].at /\ call'[c].g = call[c].g
       /\ call'[c].since = call[c].since /\ call'[c].resource = call[c].resource

LEMMA RebarSame == TypeOK /\ Rebar => \A c \in Callers : Same(c)
<1> SUFFICES ASSUME TypeOK, Rebar, NEW c \in Callers PROVE Same(c)
  OBVIOUS
<1>1. CASE call'[c] = call[c]
  BY <1>1 DEF Same
<1>2. CASE /\ call[c] \in Consumption /\ call'[c] \in Consumption
           /\ call'[c] = [call[c] EXCEPT !.bar =
                  Bars(call[c].g, entry', killSwitch') \cap (@ \cup Ahead(call[c].at))]
  BY <1>2 DEF Same, Consumption
<1>. QED BY <1>1, <1>2, RebarShape

LEMMA QuietKeeps == IInv /\ TypeOK' /\ Quiet => IInv'
<1> SUFFICES ASSUME IInv, TypeOK', Quiet PROVE IInv'
  OBVIOUS
<1>1. \A c \in Callers, g \in GrantIds : Answered(c, g)' => Answered(c, g)
  BY DEF Quiet, Answered, At
<1>2. \A g \in GrantIds : Spent(g)' => Spent(g)
  BY <1>1 DEF Spent, Quiet
<1>3. MintedInTime'
  BY DEF IInv, MintedInTime, Quiet, Minted
<1>4. RecordInTime'
  BY DEF IInv, RecordInTime, Quiet, Minted, Never
<1>5. CallsInTime'
  BY DEF IInv, CallsInTime, MintedInTime, Quiet, Minted
<1>6. SpentIsKnown'
  BY <1>2 DEF IInv, SpentIsKnown, Quiet, Minted, Never
<1>7. OneAnswer'
  BY <1>1 DEF IInv, OneAnswer, Quiet
<1>. QED BY <1>3, <1>4, <1>5, <1>6, <1>7 DEF IInv

\* A new grant is of an id that no record, call or answer knows.
LEMMA MintKeeps ==
    ASSUME IInv, TypeOK', NEW g \in GrantIds, NEW n,
           NEW scopes \in SUBSET Resources, Mint(g, n, scopes),
           UNCHANGED <<now, consumed, forwarded>>,
           \A c \in Callers : Same(c) \/ call'[c] = NoCall
    PROVE  IInv'
<1>1. /\ g \notin drawn /\ drawn' = drawn \cup {g}
      /\ grants'[g].exp = now + TTL
      /\ \A h \in GrantIds \ {g} : grants'[h] = grants[h]
  BY DEF Mint, IInv, TypeOK
<1>2. ~Minted(g)
  BY <1>1 DEF IInv, MintedInTime
<1>3. \A c \in Callers, h \in GrantIds : Answered(c, h)' => Answered(c, h)
  BY DEF Answered, At, NoCall, Same, Consumption
<1>4. \A h \in GrantIds : Spent(h)' => Spent(h) /\ h # g
  BY <1>1, <1>3 DEF Spent, IInv, SpentIsKnown
<1>5. now \in Nat /\ TTL \in Nat
  BY TimeAssumption DEF IInv, TypeOK
<1>6. MintedInTime'
  BY <1>1, <1>5 DEF IInv, MintedInTime, Minted
<1>7. RecordInTime'
  BY <1>1, <1>2 DEF IInv, RecordInTime, Minted, Never
<1>8. CallsInTime'
  <2> SUFFICES ASSUME NEW c \in Callers, call'[c].op = "consume"
               PROVE  (/\ call[c].g \in drawn
                       /\ call[c].at # "answer" => Minted(call[c].g)
                       /\ call[c].at = "mark" =>
                              /\ call[c].since < grants[call[c].g].exp
                              /\ now <= call[c].since + Patience)'
    BY DEF CallsInTime
  <2>1. /\ call[c].op = "consume" /\ call'[c].at = call[c].at
        /\ call'[c].g = call[c].g /\ call'[c].since = call[c].since
    BY DEF NoCall, Same, Consumption
  <2>2. call[c].g \in drawn /\ call[c].g # g /\ call[c].g \in GrantIds
    BY <1>1, <2>1, CallShape DEF IInv, CallsInTime, Consumption
  <2>. QED BY <1>1, <2>1, <2>2 DEF IInv, CallsInTime, Minted
<1>9. SpentIsKnown'
  BY <1>1, <1>4 DEF IInv, SpentIsKnown, Minted, Never
<1>10. OneAnswer'
  BY <1>3 DEF IInv, OneAnswer
<1>. QED BY <1>6, <1>7, <1>8, <1>9, <1>10 DEF IInv

LEMMA InvInit == Init => IInv
<1> SUFFICES ASSUME Init PROVE IInv
  OBVIOUS
<1>1. TypeOK
  BY TypeInit
<1>2. \A g \in GrantIds : ~Minted(g) /\ ~Spent(g)
  BY DEF Init, Minted, Spent, Answered, At, NoCall
<1>3. \A c \in Callers : call[c].op # "consume"
  BY DEF Init, NoCall
<1>4. OneAnswer
  BY <1>3 DEF Init, OneAnswer, Answered, At
<1>. QED BY <1>1, <1>2, <1>3, <1>4
     DEF IInv, Init, MintedInTime, RecordInTime, CallsInTime, SpentIsKnown

\* The call verifies: it has looked at the clock now.
LEMMA VerifyKeeps ==
    ASSUME IInv, TypeOK', NEW c \in Callers, ConsumeVerify(c), Verify(call[c].g)
    PROVE  IInv'
<1> DEFINE g == call[c].g
<1>1. /\ g \in GrantIds /\ g \in drawn /\ Minted(g) /\ now < grants[g].exp
  BY CallShape DEF ConsumeVerify, At, IInv, CallsInTime, Verify, Consumption
<1>2. /\ call'[c].at = "mark" /\ call'[c].g = g /\ call'[c].since = now
      /\ \A d \in Callers \ {c} : call'[d] = call[d]
  <2>1. call[c] \in Consumption
    BY CallShape DEF ConsumeVerify, At, IInv
  <2>2. call' = [call EXCEPT ![c].at = "mark", ![c].since = now]
    BY DEF ConsumeVerify
  <2>. QED BY <2>1, <2>2 DEF Consumption, IInv, TypeOK
<1>3. \A d \in Callers, h \in GrantIds : Answered(d, h)' => Answered(d, h)
  BY <1>2 DEF Answered, At
<1>4. \A h \in GrantIds : Spent(h)' => Spent(h)
  BY <1>3 DEF Spent, ConsumeVerify
<1>5. UNCHANGED <<now, grants, consumed, drawn, forwarded>>
  BY DEF ConsumeVerify
<1>6. CallsInTime'
  <2>1. now <= now + Patience
    BY TimeAssumption DEF IInv, TypeOK
  <2>. QED BY <1>1, <1>2, <1>5, <2>1 DEF IInv, CallsInTime, Minted
<1>7. MintedInTime' /\ RecordInTime'
  BY <1>5 DEF IInv, MintedInTime, RecordInTime, Minted, Never
<1>8. SpentIsKnown'
  BY <1>4, <1>5 DEF IInv, SpentIsKnown, Minted, Never
<1>9. OneAnswer'
  BY <1>3, <1>5 DEF IInv, OneAnswer
<1>. QED BY <1>6, <1>7, <1>8, <1>9 DEF IInv

\* The grant that is marked had not been spent: else its record, which is gone,
\* would put it too far in the past for this call.
LEMMA MarkKeeps ==
    ASSUME IInv, TypeOK', NEW c \in Callers, ConsumeMark(c), call'[c] # NoCall
    PROVE  IInv'
<1> DEFINE g == call[c].g
<1>0. call[c] \in Consumption /\ call[c].op = "consume" /\ call[c].at = "mark"
  BY CallShape DEF ConsumeMark, At, IInv
<1>1. /\ g \in GrantIds /\ g \in drawn /\ Minted(g)
      /\ call[c].since < grants[g].exp /\ now <= call[c].since + Patience
  BY <1>0 DEF IInv, CallsInTime, Consumption
<1>2. /\ consumed[g] = Never
      /\ consumed' = [consumed EXCEPT ![g] = now]
      /\ call' = [call EXCEPT ![c].at = "answer"]
      /\ UNCHANGED <<now, grants, drawn, forwarded>>
  BY DEF ConsumeMark, Hangup, Goto, IInv, TypeOK
<1>3. grants[g] \in Grant /\ grants[g].exp \in Nat /\ now \in Nat /\ call[c].since \in Nat
  BY <1>0, <1>1, GrantShape DEF IInv, Grant, Consumption, TypeOK
<1>4. ~Spent(g)
  BY <1>1, <1>2, <1>3, TimeAssumption DEF IInv, SpentIsKnown
<1>5. /\ call'[c].at = "answer" /\ call'[c].g = g
      /\ \A d \in Callers \ {c} : call'[d] = call[d]
  BY <1>0, <1>2 DEF Consumption, IInv, TypeOK
<1>6. \A d \in Callers, h \in GrantIds :
          Answered(d, h)' => Answered(d, h) \/ (d = c /\ h = g)
  BY <1>5 DEF Answered, At
<1>7. MintedInTime'
  BY <1>2 DEF IInv, MintedInTime, Minted
<1>8. RecordInTime'
  <2>1. grants[g].exp <= now + TTL
    BY <1>1 DEF IInv, MintedInTime
  <2>. QED BY <1>1, <1>2, <1>3, <2>1 DEF IInv, RecordInTime, Minted, Never, TypeOK
<1>9. CallsInTime'
  BY <1>0, <1>1, <1>2, <1>5 DEF IInv, CallsInTime, Minted
<1>10. SpentIsKnown'
  <2>1. consumed'[g] = now /\ now # Never
    BY <1>1, <1>2, TimeAssumption DEF IInv, TypeOK, Never
  <2>2. \A h \in GrantIds : Spent(h)' => Spent(h) \/ h = g
    BY <1>2, <1>6 DEF Spent
  <2>3. \A h \in GrantIds \ {g} : consumed'[h] = consumed[h]
    BY <1>2 DEF IInv, TypeOK
  <2>4. Never' = Never
    BY DEF Never
  <2>. QED BY <1>1, <1>2, <2>1, <2>2, <2>3, <2>4 DEF IInv, SpentIsKnown, Minted
<1>11. OneAnswer'
  <2>1. forwarded[g] = 0 /\ \A d \in Callers : ~Answered(d, g)
    BY <1>1, <1>4 DEF Spent, IInv, TypeOK
  <2>. QED BY <1>2, <1>6, <2>1 DEF IInv, OneAnswer
<1>. QED BY <1>7, <1>8, <1>9, <1>10, <1>11 DEF IInv

\* The one answer arrives, or does not.
LEMMA AnswerKeeps ==
    ASSUME IInv, TypeOK', NEW c \in Callers, ConsumeAnswer(c)
    PROVE  IInv'
<1> DEFINE g == call[c].g
<1>0. call[c] \in Consumption /\ g \in GrantIds /\ Answered(c, g)
  BY CallShape DEF ConsumeAnswer, At, IInv, Consumption, Answered
<1>1. /\ call'[c] = NoCall /\ \A d \in Callers \ {c} : call'[d] = call[d]
      /\ UNCHANGED <<now, grants, consumed, drawn>>
  BY DEF ConsumeAnswer, Hangup, IInv, TypeOK
<1>2. \A d \in Callers, h \in GrantIds : Answered(d, h)' => Answered(d, h) /\ d # c
  BY <1>1 DEF Answered, At, NoCall
<1>3. forwarded[g] = 0
  BY <1>0 DEF IInv, OneAnswer
<1>4. \A h \in GrantIds : forwarded'[h] = forwarded[h] \/ (h = g /\ forwarded'[h] = 1)
  BY <1>0, <1>3 DEF ConsumeAnswer, IInv, TypeOK
<1>5. \A h \in GrantIds : Spent(h)' => Spent(h)
  BY <1>0, <1>2, <1>4 DEF Spent
<1>6. MintedInTime' /\ RecordInTime'
  BY <1>1 DEF IInv, MintedInTime, RecordInTime, Minted, Never
<1>7. CallsInTime'
  BY <1>1 DEF IInv, CallsInTime, Minted, NoCall
<1>8. SpentIsKnown'
  BY <1>1, <1>5 DEF IInv, SpentIsKnown, Minted, Never
<1>9. OneAnswer'
  BY <1>0, <1>2, <1>4 DEF IInv, OneAnswer
<1>. QED BY <1>6, <1>7, <1>8, <1>9 DEF IInv

\* What is dropped has expired a TTL ago.
LEMMA CleanupKeeps == IInv /\ TypeOK' /\ Cleanup => IInv'
<1> SUFFICES ASSUME IInv, TypeOK', Cleanup PROVE IInv'
  OBVIOUS
<1>1. UNCHANGED <<now, grants, call, drawn, forwarded>>
  BY DEF Cleanup
<1>2. \A g \in GrantIds : consumed'[g] = IF Expendable(g) THEN Never ELSE consumed[g]
  BY DEF Cleanup
<1>3. \A g \in GrantIds : Spent(g)' => Spent(g)
  BY <1>1 DEF Spent, Answered, At
<1>4. MintedInTime' /\ CallsInTime' /\ OneAnswer'
  BY <1>1 DEF IInv, MintedInTime, CallsInTime, OneAnswer, Minted, Answered, At
<1>5. RecordInTime'
  BY <1>1, <1>2 DEF IInv, RecordInTime, Minted, Never
<1>6. SpentIsKnown'
  <2> SUFFICES ASSUME NEW g \in GrantIds, Spent(g)
               PROVE  /\ g \in drawn
                      /\ Minted(g) /\ consumed'[g] = Never => now > grants[g].exp + TTL
    BY <1>1, <1>3 DEF SpentIsKnown, Minted, Never
  <2>1. CASE Expendable(g) /\ Minted(g)
    <3>1. grants[g].exp \in Nat /\ now \in Nat /\ consumed[g] \in Nat
      BY <2>1, GrantShape, TimeAssumption DEF IInv, TypeOK, Grant, Never
    <3>2. grants[g].exp <= consumed[g] + TTL /\ now > consumed[g] + 2 * TTL
      BY <2>1 DEF Expendable, IInv, RecordInTime
    <3>. QED BY <3>1, <3>2, TimeAssumption DEF IInv, SpentIsKnown
  <2>2. CASE ~(Expendable(g) /\ Minted(g))
    BY <1>2, <2>2 DEF IInv, SpentIsKnown
  <2>. QED BY <2>1, <2>2
<1>. QED BY <1>4, <1>5, <1>6 DEF IInv

LEMMA TickKeeps == IInv /\ TypeOK' /\ Tick => IInv'
<1> SUFFICES ASSUME IInv, TypeOK', Tick PROVE IInv'
  OBVIOUS
<1>1. /\ UNCHANGED <<grants, consumed, call, drawn, forwarded>>
      /\ now' = now + 1 /\ now \in Nat /\ TTL \in Nat
  BY TimeAssumption DEF Tick, IInv, TypeOK
<1>2. \A g \in GrantIds : (Spent(g)' => Spent(g)) /\ (Minted(g)' <=> Minted(g))
  BY <1>1 DEF Spent, Answered, At, Minted
<1>3. \A g \in GrantIds : Minted(g) => grants[g].exp \in Nat
  BY GrantShape DEF IInv, Grant
<1>4. \A g \in GrantIds : consumed[g] \in Nat
  BY TimeAssumption DEF IInv, TypeOK, Never
<1>5. MintedInTime'
  BY <1>1, <1>2, <1>3 DEF IInv, MintedInTime
<1>6. RecordInTime'
  BY <1>1, <1>2, <1>4 DEF IInv, RecordInTime, Never
<1>7. CallsInTime'
  <2> SUFFICES ASSUME NEW c \in Callers, call[c].op = "consume"
               PROVE  /\ call[c].g \in drawn
                      /\ call[c].at # "answer" => Minted(call[c].g)
                      /\ call[c].at = "mark" =>
                            /\ call[c].since < grants[call[c].g].exp
                            /\ now + 1 <= call[c].since + Patience
    BY <1>1 DEF CallsInTime, Minted
  <2>. QED BY DEF IInv, CallsInTime, Tick, At
<1>8. SpentIsKnown'
  BY <1>1, <1>2, <1>3 DEF IInv, SpentIsKnown, Never
<1>9. OneAnswer'
  BY <1>1 DEF IInv, OneAnswer, Answered, At
<1>. QED BY <1>5, <1>6, <1>7, <1>8, <1>9 DEF IInv

\* With a new key nothing minted before verifies any more.
LEMMA RestartKeeps == ~StableKey /\ IInv /\ TypeOK' /\ Restart => IInv'
<1> SUFFICES ASSUME ~StableKey, IInv, TypeOK', Restart PROVE IInv'
  OBVIOUS
<1>1. \A g \in GrantIds : ~Minted(g)' /\ consumed'[g] = Never
  BY DEF Restart, Minted
<1>2. \A c \in Callers : \/ call'[c] = NoCall
                         \/ call'[c] = call[c] /\ At(c, "consume", "answer")
  <2> TAKE c \in Callers
  <2>1. call'[c] = IF At(c, "consume", "answer") THEN call[c] ELSE NoCall
    BY DEF Restart, At
  <2>. QED BY <2>1
<1>3. UNCHANGED <<now, drawn, forwarded>>
  BY DEF Restart
<1>4. \A c \in Callers, g \in GrantIds : Answered(c, g)' => Answered(c, g)
  BY <1>2 DEF Answered, At, NoCall
<1>5. \A g \in GrantIds : Spent(g)' => Spent(g)
  BY <1>3, <1>4 DEF Spent
<1>6. MintedInTime' /\ RecordInTime'
  BY <1>1 DEF MintedInTime, RecordInTime, Never
<1>7. CallsInTime'
  BY <1>2, <1>3 DEF IInv, CallsInTime, At, NoCall
<1>8. SpentIsKnown'
  BY <1>1, <1>3, <1>5 DEF IInv, SpentIsKnown
<1>9. OneAnswer'
  BY <1>3, <1>4 DEF IInv, OneAnswer
<1>. QED BY <1>6, <1>7, <1>8, <1>9 DEF IInv

\* Every step keeps the invariant.
LEMMA InvNext == ~StableKey /\ IInv /\ [Next]_vars => IInv'
<1> SUFFICES ASSUME ~StableKey, IInv, [Next]_vars PROVE IInv'
  OBVIOUS
<1>0. TypeOK'
  BY TypeNext DEF IInv
<1>1. ASSUME NEW a \in Agents, NEW n \in Names, NEW g \in GrantIds, Enroll(a, n, g)
      PROVE  IInv'
  <2>1. Mint(g, n, Resources) /\ UNCHANGED <<now, consumed, forwarded>>
    BY <1>1 DEF Enroll
  <2>2. \A c \in Callers : Same(c)
    BY <1>1, RebarSame DEF Enroll, IInv
  <2>. QED BY <1>0, <2>1, <2>2, MintKeeps
<1>2. ASSUME Rebar, UNCHANGED <<now, grants, consumed, drawn, forwarded>> PROVE IInv'
  <2>1. Quiet
    BY <1>2, RebarSame DEF Quiet, Same, Consumption, IInv
  <2>. QED BY <1>0, <2>1, QuietKeeps
<1>3. ASSUME \/ \E a \in Agents, n \in Names : SessionAgent(a, n)
             \/ \E a \in Agents, new \in {"active", "inactive"} : SetStatus(a, new)
             \/ \E on \in BOOLEAN : SetKillSwitch(on)
      PROVE  IInv'
  BY <1>2, <1>3 DEF SessionAgent, SetStatus, SetKillSwitch
<1>4. ASSUME NEW c \in Callers, NEW a \in Agents, AcquireArrives(c, a) PROVE IInv'
  <2>1. Quiet
    BY <1>4 DEF AcquireArrives, Quiet, IInv, TypeOK
  <2>. QED BY <1>0, <2>1, QuietKeeps
<1>5. ASSUME NEW c \in Callers, NEW g \in GrantIds, NEW r \in Resources,
             ConsumeArrives(c, g, r)
      PROVE IInv'
  <2>1. Quiet
    BY <1>5 DEF ConsumeArrives, Quiet, IInv, TypeOK, Verify
  <2>. QED BY <1>0, <2>1, QuietKeeps
<1>6. ASSUME NEW c \in Callers, CallStep(c) PROVE IInv'
  \* Hanging up, and going on to the next look, are quiet.
  <2>1. ASSUME Hangup(c), UNCHANGED <<now, grants, consumed, drawn, forwarded>> PROVE IInv'
    <3>1. Quiet
      BY <2>1 DEF Hangup, Quiet, NoCall, IInv, TypeOK
    <3>. QED BY <1>0, <3>1, QuietKeeps
  <2>2. ASSUME NEW place \in {"freeze", "list", "verify", "mint"}, Goto(c, place),
               call[c].op \in {"acquire", "consume"}, call[c].at # "answer",
               UNCHANGED <<now, grants, consumed, drawn, forwarded>>
        PROVE IInv'
    <3>1. call[c].op = "consume" => Minted(call[c].g) /\ call[c].g \in GrantIds
      BY <2>2, CallShape DEF IInv, CallsInTime, Consumption
    <3>2. /\ call'[c].at = place /\ call'[c].op = call[c].op
          /\ call[c].op = "consume" => call'[c].g = call[c].g
          /\ \A d \in Callers \ {c} : call'[d] = call[d]
      <4>1. call[c] \in Acquire \cup Consumption
        BY <2>2, CallShape DEF IInv
      <4>2. call' = [call EXCEPT ![c].at = place]
        BY <2>2 DEF Goto
      <4>. QED BY <4>1, <4>2 DEF Acquire, Consumption, IInv, TypeOK
    <3>3. Quiet
      BY <2>2, <3>1, <3>2 DEF Quiet, Minted
    <3>. QED BY <1>0, <3>3, QuietKeeps
  <2>3. CASE AcquireBearer(c)
    BY <2>1, <2>2, <2>3 DEF AcquireBearer, At
  <2>4. CASE AcquireFreeze(c)
    BY <2>1, <2>2, <2>4 DEF AcquireFreeze, At
  <2>5. ASSUME NEW g \in GrantIds, NEW scopes \in SUBSET Resources, AcquireMint(c, g, scopes)
        PROVE IInv'
    <3>1. \A d \in Callers : Same(d) \/ call'[d] = NoCall
      BY <2>5 DEF AcquireMint, Hangup, Same, IInv, TypeOK
    <3>2. /\ Mint(g, entry[call[c].agent].name, scopes)
          /\ UNCHANGED <<now, consumed, forwarded>>
      BY <2>5 DEF AcquireMint
    <3>. QED BY <1>0, <3>1, <3>2, MintKeeps
  <2>6. CASE ConsumeFreeze(c)
    BY <2>1, <2>2, <2>6 DEF ConsumeFreeze, At
  <2>7. CASE ConsumeList(c)
    BY <2>1, <2>2, <2>7 DEF ConsumeList, At
  <2>8. CASE ConsumeVerify(c)
    <3>1. CASE Verify(call[c].g)
      BY <1>0, <2>8, <3>1, VerifyKeeps
    <3>2. CASE ~Verify(call[c].g)
      BY <2>1, <2>8, <3>2 DEF ConsumeVerify
    <3>. QED BY <3>1, <3>2
  <2>9. CASE ConsumeMark(c)
    <3>1. CASE call'[c] # NoCall
      BY <1>0, <2>9, <3>1, MarkKeeps
    <3>2. CASE call'[c] = NoCall
      <4>1. call[c] \in Consumption
        BY <2>9, CallShape DEF ConsumeMark, At, IInv
      <4>2. ~Goto(c, "answer")
        <5> SUFFICES ASSUME Goto(c, "answer") PROVE FALSE
          OBVIOUS
        <5>1. call'[c].op = "consume"
          BY <4>1 DEF Goto, Consumption, IInv, TypeOK
        <5>. QED BY <3>2, <5>1 DEF NoCall
      <4>3. Hangup(c) /\ UNCHANGED <<now, grants, consumed, drawn, forwarded>>
        BY <2>9, <4>2 DEF ConsumeMark
      <4>. QED BY <2>1, <4>3
    <3>. QED BY <3>1, <3>2
  <2>10. CASE ConsumeAnswer(c)
    BY <1>0, <2>10, AnswerKeeps
  <2>. QED BY <1>6, <2>3, <2>4, <2>5, <2>6, <2>7, <2>8, <2>9, <2>10 DEF CallStep
<1>7. CASE Cleanup
  BY <1>0, <1>7, CleanupKeeps
<1>8. CASE Tick
  BY <1>0, <1>8, TickKeeps
<1>9. CASE Restart
  BY <1>0, <1>9, RestartKeeps
<1>10. CASE UNCHANGED vars
  <2>1. Quiet
    BY <1>10 DEF vars, Quiet
  <2>. QED BY <1>0, <2>1, QuietKeeps
<1>. QED
  BY <1>1, <1>2, <1>3, <1>4, <1>5, <1>6, <1>7, <1>8, <1>9, <1>10 DEF Next

\* With an ephemeral signing key and calls that wait no longer than a TTL, no
\* grant opens the gateway twice.
THEOREM GrantsAreSingleUse == ~StableKey => (Spec => []SingleUse)
<1> SUFFICES ASSUME ~StableKey PROVE Spec => []SingleUse
  OBVIOUS
<1>1. Init => IInv
  BY InvInit
<1>2. IInv /\ [Next]_vars => IInv'
  BY InvNext
<1>3. IInv => SingleUse
  BY DEF IInv, OneAnswer, SingleUse
<1>. QED BY <1>1, <1>2, <1>3, PTL DEF Spec

-----------------------------------------------------------------------------
\* A consumed grant that is still unexpired is on record.
THEOREM CleanupLosesNothing == ~StableKey => (Spec => []CleanupIsSafe)
<1> SUFFICES ASSUME ~StableKey PROVE Spec => []CleanupIsSafe
  OBVIOUS
<1>1. Init => IInv
  BY InvInit
<1>2. IInv /\ [Next]_vars => IInv'
  BY InvNext
<1>3. IInv => CleanupIsSafe
  <2> SUFFICES ASSUME IInv, NEW g \in GrantIds, forwarded[g] > 0, Verify(g)
               PROVE  consumed[g] # Never
    BY DEF CleanupIsSafe
  <2>1. Minted(g) /\ now < grants[g].exp /\ Spent(g)
    BY DEF Verify, Spent
  <2>2. grants[g].exp \in Nat /\ now \in Nat
    BY <2>1, GrantShape DEF IInv, Grant, TypeOK
  <2>. QED BY <2>1, <2>2, TimeAssumption DEF IInv, SpentIsKnown
<1>. QED BY <1>1, <1>2, <1>3, PTL DEF Spec
-----------------------------------------------------------------------------
(***************************************************************************)
(* NoUseWhenBarred.  A bar that a call carries is there as long as the     *)
(* call can still look for it; a restart, after which entries are active   *)
(* again without anyone's lifting a bar, leaves no call that looks.        *)
(***************************************************************************)
Holds(r) ==
    /\ r.bar \subseteq Ahead(r.at)
    /\ r.at # "answer" => r.bar \subseteq Bars(r.g, entry, killSwitch)

BarHolds == \A c \in Callers : call[c].op = "consume" => Holds(call[c])

BarInv == IInv /\ BarHolds

LEMMA AheadIs ==
    /\ Ahead("freeze") = {"frozen", "inactive"} /\ Ahead("list") = {"inactive"}
    /\ Ahead("verify") = {} /\ Ahead("mark") = {} /\ Ahead("answer") = {}
BY DEF Ahead

\* An update leaves a call the bars that hold and that it still looks for.
LEMMA RebarHolds ==
    ASSUME BarInv, Rebar,
           \A c \in Callers : call[c].op = "consume" /\ call[c].at # "answer"
               => grants'[call[c].g] = grants[call[c].g]
    PROVE  BarHolds'
<1> SUFFICES ASSUME NEW c \in Callers, call'[c].op = "consume" PROVE Holds(call[c])'
  BY DEF BarHolds
<1>0. TypeOK
  BY DEF BarInv, IInv
<1>1. CASE call[c].op = "consume" /\ call[c].at # "answer"
  <2>1. /\ call[c] \in Consumption
        /\ call'[c] = [call[c] EXCEPT !.bar =
               Bars(call[c].g, entry', killSwitch') \cap (@ \cup Ahead(call[c].at))]
    BY <1>1, <1>0, CallShape DEF Rebar
  <2>2. /\ call'[c].at = call[c].at /\ call'[c].g = call[c].g
        /\ call'[c].bar \subseteq Bars(call[c].g, entry', killSwitch')
        /\ call'[c].bar \subseteq call[c].bar \cup Ahead(call[c].at)
    BY <2>1 DEF Consumption
  <2>3. Bars(call[c].g, entry', killSwitch') = Bars(call[c].g, entry, killSwitch)'
    BY <1>1, <2>2 DEF Bars
  <2>4. Ahead(call'[c].at) = Ahead(call[c].at)
    BY <2>2
  <2>. QED BY <1>1, <2>2, <2>3, <2>4 DEF BarInv, BarHolds, Holds
<1>2. CASE ~(call[c].op = "consume" /\ call[c].at # "answer")
  <2>1. call'[c] = call[c]
    BY <1>2 DEF Rebar
  <2>. QED BY <1>2, <2>1 DEF BarInv, BarHolds, Holds
<1>. QED BY <1>1, <1>2

\* A call that is as it was, about a grant that is as it was.
LEMMA StillHolds ==
    ASSUME BarInv, UNCHANGED <<entry, killSwitch>>, NEW c \in Callers,
           call'[c] = call[c], call[c].op = "consume",
           call[c].at # "answer" => grants'[call[c].g] = grants[call[c].g]
    PROVE  Holds(call[c])'
BY DEF BarInv, BarHolds, Holds, Bars

\* A call goes on only past the bars that are not there.
LEMMA BarCall ==
    ASSUME BarInv, NEW c \in Callers, CallStep(c), UNCHANGED <<grants, entry, killSwitch>>
    PROVE  BarHolds'
<1>0. TypeOK
  BY DEF BarInv, IInv
<1>1. \A d \in Callers \ {c} : call'[d] = call[d]
  BY <1>0 DEF CallStep, AcquireMint, AcquireBearer, AcquireFreeze, ConsumeFreeze, ConsumeList,
     ConsumeVerify, ConsumeMark, ConsumeAnswer, Goto, Hangup, TypeOK
<1>2. call[c] \in Acquire \cup Consumption
  BY <1>0, CallShape DEF CallStep, AcquireMint, AcquireBearer, AcquireFreeze, ConsumeFreeze, ConsumeList,
     ConsumeVerify, ConsumeMark, ConsumeAnswer, At
<1>3. CASE call[c] \in Acquire
  <2>1. call'[c] = NoCall \/ \E place : call'[c] = [call[c] EXCEPT !.at = place]
    BY <1>0, <1>3 DEF CallStep, AcquireMint, AcquireBearer, AcquireFreeze, ConsumeFreeze, ConsumeList,
     ConsumeVerify, ConsumeMark, ConsumeAnswer, Goto, Hangup, At, Acquire, TypeOK
  <2>2. call'[c].op # "consume"
    BY <1>3, <2>1, AcquireOn
  <2>. QED BY <1>1, <2>2, StillHolds DEF BarHolds
<1>4. CASE call[c] \in Consumption
  <2>1. Holds(call[c]) /\ call[c].op = "consume"
    BY <1>4 DEF BarInv, BarHolds, Consumption
  <2>2. \/ call'[c] = NoCall
        \/ ConsumeFreeze(c) /\ ~killSwitch /\ Goto(c, "list")
        \/ ConsumeList(c) /\ Goto(c, "verify") /\ \E a \in Listed(grants[call[c].g].name) : Active(a)
        \/ ConsumeVerify(c) /\ call' = [call EXCEPT ![c].at = "mark", ![c].since = now]
        \/ ConsumeMark(c) /\ Goto(c, "answer")
    BY <1>0, <1>4 DEF CallStep, AcquireMint, AcquireBearer, AcquireFreeze, ConsumeFreeze, ConsumeList,
     ConsumeVerify, ConsumeMark, ConsumeAnswer, Hangup, At, Consumption, TypeOK
  <2>3. CASE call'[c] = NoCall
    BY <1>1, <2>3, StillHolds DEF BarHolds, NoCall
  <2>4. ASSUME call'[c].op = "consume" => Holds(call[c])' PROVE BarHolds'
    BY <1>1, <2>4, StillHolds DEF BarHolds
  <2>5. CASE ConsumeFreeze(c) /\ ~killSwitch /\ Goto(c, "list")
    <3>1. call'[c].at = "list" /\ call'[c].g = call[c].g /\ call'[c].bar = call[c].bar
      BY <1>0, <1>4, <2>5 DEF Goto, Consumption, TypeOK
    <3>2. call[c].at = "freeze"
      BY <2>5 DEF ConsumeFreeze, At
    <3>3. call[c].bar \subseteq Bars(call[c].g, entry, killSwitch)
      BY <2>1, <3>2 DEF Holds
    <3>4. "frozen" \notin call[c].bar /\ call[c].bar \subseteq {"frozen", "inactive"}
      BY <2>5, <3>3 DEF Bars
    <3>5. Bars(call[c].g, entry, killSwitch)' = Bars(call[c].g, entry, killSwitch)
      BY <3>1 DEF Bars
    <3>. QED BY <2>4, <3>1, <3>3, <3>4, <3>5, AheadIs DEF Holds
  <2>6. CASE /\ ConsumeList(c) /\ Goto(c, "verify")
             /\ \E a \in Listed(grants[call[c].g].name) : Active(a)
    <3>1. call'[c].at = "verify" /\ call'[c].bar = call[c].bar
      BY <1>0, <1>4, <2>6 DEF Goto, Consumption, TypeOK
    <3>2. call[c].at = "list"
      BY <2>6 DEF ConsumeList, At
    <3>3. "inactive" \notin Bars(call[c].g, entry, killSwitch)
      BY <2>6 DEF Bars, Listed, Active
    <3>4. call[c].bar = {}
      BY <2>1, <3>2, <3>3, AheadIs DEF Holds
    <3>. QED BY <2>4, <3>1, <3>4 DEF Holds
  <2>7. CASE ConsumeVerify(c) /\ call' = [call EXCEPT ![c].at = "mark", ![c].since = now]
    <3>1. call'[c].at = "mark" /\ call'[c].bar = call[c].bar
      BY <1>0, <1>4, <2>7 DEF Consumption, TypeOK
    <3>2. call[c].bar = {}
      BY <2>1, <2>7, AheadIs DEF Holds, ConsumeVerify, At
    <3>. QED BY <2>4, <3>1, <3>2 DEF Holds
  <2>8. CASE ConsumeMark(c) /\ Goto(c, "answer")
    <3>1. call'[c].at = "answer" /\ call'[c].bar = call[c].bar
      BY <1>0, <1>4, <2>8 DEF Goto, Consumption, TypeOK
    <3>2. call[c].bar = {}
      BY <2>1, <2>8, AheadIs DEF Holds, ConsumeMark, At
    <3>. QED BY <2>4, <3>1, <3>2 DEF Holds
  <2>. QED BY <2>2, <2>3, <2>5, <2>6, <2>7, <2>8
<1>. QED BY <1>2, <1>3, <1>4

\* The id of a new grant is not that of any grant in a call.
LEMMA MintElsewhere ==
    ASSUME BarInv, NEW g \in GrantIds, NEW n, NEW scopes, Mint(g, n, scopes)
    PROVE  \A c \in Callers : call[c].op = "consume" /\ call[c].at # "answer"
               => grants'[call[c].g] = grants[call[c].g]
<1> TAKE c \in Callers
<1> HAVE call[c].op = "consume" /\ call[c].at # "answer"
<1>1. call[c].g \in drawn /\ call[c].g \in GrantIds
  BY CallShape DEF BarInv, IInv, CallsInTime, Consumption
<1>. QED BY <1>1 DEF Mint, BarInv, IInv, TypeOK

LEMMA BarNext == ~StableKey /\ BarInv /\ [Next]_vars => BarInv'
<1> SUFFICES ASSUME ~StableKey, BarInv, [Next]_vars PROVE BarHolds'
  BY InvNext DEF BarInv
<1>0. TypeOK
  BY DEF BarInv, IInv
<1>1. ASSUME NEW a \in Agents, NEW n \in Names, NEW g \in GrantIds, Enroll(a, n, g)
      PROVE  BarHolds'
  BY <1>1, RebarHolds, MintElsewhere DEF Enroll
<1>2. ASSUME Rebar, UNCHANGED grants PROVE BarHolds'
  BY <1>2, RebarHolds
<1>3. ASSUME \/ \E a \in Agents, n \in Names : SessionAgent(a, n)
             \/ \E a \in Agents, new \in {"active", "inactive"} : SetStatus(a, new)
             \/ \E on \in BOOLEAN : SetKillSwitch(on)
      PROVE  BarHolds'
  BY <1>2, <1>3 DEF SessionAgent, SetStatus, SetKillSwitch
<1>4. ASSUME NEW c \in Callers, NEW a \in Agents, AcquireArrives(c, a)
      PROVE  BarHolds'
  <2>1. /\ call'[c].op = "acquire" /\ \A d \in Callers \ {c} : call'[d] = call[d]
        /\ UNCHANGED <<grants, entry, killSwitch>>
    BY <1>0, <1>4 DEF AcquireArrives, TypeOK
  <2>. QED BY <2>1, StillHolds DEF BarHolds
<1>5. ASSUME NEW c \in Callers, NEW g \in GrantIds, NEW r \in Resources,
             ConsumeArrives(c, g, r)
      PROVE  BarHolds'
  <2>1. /\ call'[c].at = "freeze" /\ call'[c].g = g
        /\ call'[c].bar = Bars(g, entry, killSwitch)
        /\ \A d \in Callers \ {c} : call'[d] = call[d]
        /\ UNCHANGED <<grants, entry, killSwitch>>
    BY <1>0, <1>5 DEF ConsumeArrives, TypeOK
  <2>2. Bars(call[c].g, entry, killSwitch)' = Bars(g, entry, killSwitch)
    BY <2>1 DEF Bars
  <2>3. Bars(g, entry, killSwitch) \subseteq Ahead("freeze")
    BY AheadIs DEF Bars
  <2>4. Holds(call[c])'
    BY <2>1, <2>2, <2>3 DEF Holds
  <2>. QED BY <2>1, <2>4, StillHolds DEF BarHolds
<1>6. ASSUME NEW c \in Callers, CallStep(c)
      PROVE  BarHolds'
  <2>1. CASE UNCHANGED <<grants, entry, killSwitch>>
    BY <1>6, <2>1, BarCall
  <2>2. ASSUME NEW g \in GrantIds, NEW scopes \in SUBSET Resources, AcquireMint(c, g, scopes)
        PROVE  BarHolds'
    <3>1. /\ UNCHANGED <<entry, killSwitch>>
          /\ \A d \in Callers : call'[d] = call[d] \/ call'[d] = NoCall
      BY <1>0, <2>2 DEF AcquireMint, Hangup, TypeOK
    <3>2. \A d \in Callers : call[d].op = "consume" /\ call[d].at # "answer"
              => grants'[call[d].g] = grants[call[d].g]
      BY <2>2, MintElsewhere DEF AcquireMint
    <3>. QED BY <3>1, <3>2, StillHolds DEF BarHolds, NoCall
  <2>. QED BY <1>6, <2>1, <2>2 DEF CallStep, AcquireBearer, AcquireFreeze, ConsumeFreeze, ConsumeList,
     ConsumeVerify, ConsumeMark, ConsumeAnswer
<1>7. CASE Cleanup \/ Tick \/ UNCHANGED vars
  <2>1. UNCHANGED <<grants, entry, killSwitch, call>>
    BY <1>7 DEF Cleanup, Tick, vars
  <2>. QED BY <2>1, StillHolds DEF BarHolds
<1>8. CASE Restart
  <2>1. ASSUME NEW c \in Callers, call'[c].op = "consume"
        PROVE  Holds(call[c])'
    <3>1. call'[c] = IF At(c, "consume", "answer") THEN call[c] ELSE NoCall
      BY <1>8 DEF Restart, At
    <3>2. call'[c] = call[c] /\ call[c].at = "answer"
      BY <2>1, <3>1 DEF At, NoCall
    <3>. QED BY <2>1, <3>2 DEF BarInv, BarHolds, Holds
  <2>. QED BY <2>1 DEF BarHolds
<1>. QED
  BY <1>1, <1>3, <1>4, <1>5, <1>6, <1>7, <1>8 DEF Next

\* A consumption is not answered past a bar that was there when it arrived, or
\* that was laid before the call came to look for it, unless the bar was lifted.
THEOREM BarredIsNotUsed == ~StableKey => (Spec => []NoUseWhenBarred)
<1> SUFFICES ASSUME ~StableKey PROVE Spec => []NoUseWhenBarred
  OBVIOUS
<1>1. Init => BarInv
  <2>1. Init => BarHolds
    BY DEF Init, BarHolds, NoCall
  <2>. QED BY <2>1, InvInit DEF BarInv
<1>2. BarInv /\ [Next]_vars => BarInv'
  BY BarNext
<1>3. BarInv => NoUseWhenBarred
  <2> SUFFICES ASSUME BarInv, NEW c \in Callers, call[c].op = "consume"
               PROVE  /\ "frozen" \in call[c].bar => call[c].at = "freeze"
                      /\ "inactive" \in call[c].bar => call[c].at \in {"freeze", "list"}
    BY DEF NoUseWhenBarred
  <2>1. call[c] \in Consumption /\ call[c].bar \subseteq Ahead(call[c].at)
    BY CallShape DEF BarInv, BarHolds, Holds, IInv
  <2>. QED BY <2>1, AheadIs DEF Consumption, ConsumePlaces
<1>. QED BY <1>1, <1>2, <1>3, PTL DEF Spec
-----------------------------------------------------------------------------
(***************************************************************************)
(* ImplementsPass.  Most steps let passes lapse, or change nothing of      *)
(* them; a mint issues one, a mark shows one, an answer opens or wastes it.*)
(***************************************************************************)
LEMMA GoodPass ==
    \A g \in GrantIds, r \in Resources :
        /\ <<g, r>> \in GoodFor <=> Markable(g) /\ r \in grants[g].scopes
        /\ <<g, r>> \in AcceptedFor <=> AcceptedOn(g, r)
BY DEF GoodFor, AcceptedFor

\* The same in the next state.
LEMMA GoodPassNext ==
    \A g \in GrantIds, r \in Resources :
        /\ <<g, r>> \in GoodFor' <=> Markable(g)' /\ r \in grants'[g].scopes
        /\ <<g, r>> \in AcceptedFor' <=> AcceptedOn(g, r)'
BY DEF GoodFor, AcceptedFor

LEMMA PassPairs ==
    /\ GoodFor \subseteq GrantIds \X Resources /\ GoodFor' \subseteq GrantIds \X Resources
    /\ AcceptedFor \subseteq GrantIds \X Resources
    /\ AcceptedFor' \subseteq GrantIds \X Resources
BY DEF GoodFor, AcceptedFor

\* A step that makes no grant markable, and changes no answer, is a lapse.
LEMMA Fades ==
    ASSUME \A g \in GrantIds : Markable(g)' => Markable(g) /\ grants'[g] = grants[g],
           \A g \in GrantIds, r \in Resources : AcceptedOn(g, r)' <=> AcceptedOn(g, r),
           UNCHANGED <<drawn, forwarded>>
    PROVE  Pass!Next
<1>1. GoodFor' \subseteq GoodFor
  <2> SUFFICES ASSUME NEW g \in GrantIds, NEW r \in Resources, <<g, r>> \in GoodFor'
               PROVE  <<g, r>> \in GoodFor
    BY PassPairs
  <2>. QED BY GoodPass, GoodPassNext
<1>2. AcceptedFor' = AcceptedFor
  BY DEF AcceptedFor
<1>3. Pass!Lapse
  BY <1>1, <1>2 DEF Pass!Lapse
<1>. QED BY <1>3 DEF Pass!Next

\* The looks of a call before it marks, and what administrators do.
Apart ==
    /\ UNCHANGED <<now, grants, consumed, drawn, forwarded>>
    /\ \A c \in Callers :
           /\ At(c, "consume", "answer")' <=> At(c, "consume", "answer")
           /\ At(c, "consume", "answer") =>
                  call'[c].g = call[c].g /\ call'[c].resource = call[c].resource
           /\ At(c, "consume", "mark")' =>
                  \/ Verify(call'[c].g)
                  \/ At(c, "consume", "mark") /\ call'[c].g = call[c].g

LEMMA ApartFades == Apart => Pass!Next
<1> SUFFICES ASSUME Apart PROVE Pass!Next
  OBVIOUS
<1>1. \A g \in GrantIds : Markable(g)' => Markable(g) /\ grants'[g] = grants[g]
  <2> SUFFICES ASSUME NEW g \in GrantIds, Markable(g)' PROVE Markable(g)
    BY DEF Apart
  <2>1. Minted(g) /\ consumed[g] = Never
    BY DEF Apart, Markable, Minted, Never
  <2>2. CASE Verify(g)'
    BY <2>1, <2>2 DEF Apart, Markable, Verify, Minted
  <2>3. CASE \E c \in Callers : (At(c, "consume", "mark") /\ call[c].g = g)'
    BY <2>1, <2>3 DEF Apart, Markable
  <2>. QED BY <2>2, <2>3 DEF Markable
<1>2. \A g \in GrantIds, r \in Resources : AcceptedOn(g, r)' <=> AcceptedOn(g, r)
  BY DEF Apart, AcceptedOn
<1>. QED BY <1>1, <1>2, Fades DEF Apart

LEMMA MintIssues ==
    ASSUME IInv, NEW g \in GrantIds, NEW n, NEW scopes \in SUBSET Resources,
           Mint(g, n, scopes), UNCHANGED <<now, consumed, forwarded>>,
           \A c \in Callers : \/ Same(c)
                              \/ call[c].op = "acquire" /\ call'[c] = NoCall
    PROVE  Pass!Next
<1>1. /\ g \notin drawn /\ drawn' = drawn \cup {g}
      /\ grants'[g] = [name |-> n, scopes |-> scopes, exp |-> now + TTL]
      /\ \A h \in GrantIds \ {g} : grants'[h] = grants[h]
  BY DEF Mint, IInv, TypeOK
<1>2. ~Minted(g) /\ consumed[g] = Never
  BY <1>1 DEF IInv, MintedInTime, RecordInTime
<1>3. Markable(g)'
  <2>1. now < now + TTL
    BY TimeAssumption DEF IInv, TypeOK
  <2>2. Minted(g)' /\ Verify(g)'
    BY <1>1, <2>1 DEF Verify, Minted, NoGrant
  <2>. QED BY <1>2, <2>2 DEF Markable, Never
<1>4. ASSUME NEW c \in Callers, NEW place
      PROVE  /\ At(c, "consume", place)' <=> At(c, "consume", place)
             /\ At(c, "consume", place) =>
                    call'[c].g = call[c].g /\ call'[c].resource = call[c].resource
  <2>1. CASE call'[c] = call[c]
    BY <2>1 DEF At
  <2>2. CASE call[c].op = "acquire" /\ call'[c] = NoCall
    BY <2>2 DEF At, NoCall
  <2>3. CASE call'[c] # call[c] /\ Same(c)
    BY <2>3 DEF At, Same, Consumption
  <2>. QED BY <2>1, <2>2, <2>3
<1>5. ASSUME NEW h \in GrantIds \ {g} PROVE Markable(h)' <=> Markable(h)
  BY <1>1, <1>4 DEF Markable, Minted, Verify, Never
<1>6. GoodFor' = GoodFor \cup ({g} \X scopes)
  <2>1. ASSUME NEW h \in GrantIds, NEW r \in Resources
        PROVE  <<h, r>> \in GoodFor' <=> <<h, r>> \in GoodFor \cup ({g} \X scopes)
    <3>1. CASE h = g
      <4>1. <<h, r>> \in GoodFor' <=> r \in scopes
        BY <1>1, <1>3, <3>1, GoodPassNext
      <4>2. <<h, r>> \notin GoodFor
        BY <1>2, <3>1, GoodPass DEF Markable
      <4>. QED BY <3>1, <4>1, <4>2
    <3>2. CASE h # g
      <4>1. <<h, r>> \in GoodFor' <=> <<h, r>> \in GoodFor
        BY <1>1, <1>5, <3>2, GoodPass, GoodPassNext
      <4>2. <<h, r>> \notin {g} \X scopes
        BY <3>2
      <4>. QED BY <4>1, <4>2
    <3>. QED BY <3>1, <3>2
  <2>. QED BY <2>1, PassPairs
<1>7. AcceptedFor' = AcceptedFor
  BY <1>4 DEF AcceptedFor, AcceptedOn
<1>8. Pass!Issue(g, scopes)
  BY <1>1, <1>6, <1>7 DEF Pass!Issue
<1>. QED BY <1>8 DEF Pass!Next

LEMMA MarkShows ==
    ASSUME IInv, NEW c \in Callers, ConsumeMark(c), ~Hangup(c)
    PROVE  Pass!Next
<1>0. call[c] \in Consumption /\ call[c].op = "consume" /\ call[c].at = "mark"
  BY CallShape DEF ConsumeMark, At, IInv
<1>1. PICK g \in GrantIds, r \in Resources :
          call[c].g = g /\ call[c].resource = r /\ Minted(g)
  BY <1>0 DEF IInv, CallsInTime, Consumption
<1>2. /\ consumed[g] = Never /\ r \in grants[g].scopes
      /\ consumed' = [consumed EXCEPT ![g] = now]
      /\ call' = [call EXCEPT ![c].at = "answer"]
      /\ UNCHANGED <<now, grants, drawn, forwarded>>
  BY <1>1 DEF ConsumeMark, Goto
<1>3. /\ At(c, "consume", "answer")' /\ call'[c].g = g /\ call'[c].resource = r
      /\ ~At(c, "consume", "mark")' /\ ~At(c, "consume", "answer")
      /\ \A d \in Callers \ {c} : call'[d] = call[d]
  BY <1>0, <1>1, <1>2 DEF At, Consumption, IInv, TypeOK
<1>4. <<g, r>> \in GoodFor
  BY <1>0, <1>1, <1>2, GoodPass DEF Markable, At
<1>5. ~Markable(g)'
  <2>1. consumed'[g] = now /\ now # Never
    BY <1>1, <1>2, TimeAssumption DEF IInv, TypeOK, Never
  <2>. QED BY <2>1 DEF Markable, Never
<1>6. ASSUME NEW h \in GrantIds \ {g} PROVE Markable(h)' <=> Markable(h)
  <2>1. consumed'[h] = consumed[h]
    BY <1>2 DEF IInv, TypeOK
  <2>2. \A d \in Callers : At(d, "consume", "mark") /\ call[d].g = h
            <=> At(d, "consume", "mark")' /\ call'[d].g = h
    BY <1>1, <1>3 DEF At
  <2>. QED BY <1>2, <2>1, <2>2 DEF Markable, Minted, Verify, Never
<1>7. GoodFor' = GoodFor \ ({g} \X Resources)
  <2>1. ASSUME NEW h \in GrantIds, NEW d \in Resources
        PROVE  <<h, d>> \in GoodFor' <=> <<h, d>> \in GoodFor \ ({g} \X Resources)
    BY <1>2, <1>5, <1>6, GoodPass, GoodPassNext
  <2>. QED BY <2>1, PassPairs
<1>8. AcceptedFor' = AcceptedFor \cup {<<g, r>>}
  <2>1. ASSUME NEW h \in GrantIds, NEW d \in Resources
        PROVE  AcceptedOn(h, d)' <=> AcceptedOn(h, d) \/ (h = g /\ d = r)
    BY <1>1, <1>3 DEF AcceptedOn, At
  <2>2. ASSUME NEW h \in GrantIds, NEW d \in Resources
        PROVE  <<h, d>> \in AcceptedFor' <=> <<h, d>> \in AcceptedFor \cup {<<g, r>>}
    BY <2>1, GoodPass, GoodPassNext
  <2>. QED BY <1>1, <2>2, PassPairs
<1>9. Pass!Show(g, r)
  BY <1>2, <1>4, <1>7, <1>8 DEF Pass!Show
<1>. QED BY <1>1, <1>9 DEF Pass!Next

\* No other call is answered for the same grant, so nothing else is accepted
\* on it once this answer is gone.
LEMMA AnswerOpens ==
    ASSUME IInv, NEW c \in Callers, ConsumeAnswer(c)
    PROVE  Pass!Next
<1>0. PICK g \in GrantIds, r \in Resources :
          /\ call[c].g = g /\ call[c].resource = r
          /\ At(c, "consume", "answer") /\ Answered(c, g)
  BY CallShape DEF ConsumeAnswer, At, IInv, Consumption, Answered
<1>1. /\ ~At(c, "consume", "answer")' /\ ~At(c, "consume", "mark")'
      /\ \A d \in Callers \ {c} : call'[d] = call[d]
      /\ UNCHANGED <<now, grants, consumed, drawn>>
  BY DEF ConsumeAnswer, Hangup, At, NoCall, IInv, TypeOK
<1>2. <<g, r>> \in AcceptedFor
  BY <1>0, GoodPass DEF AcceptedOn
<1>3. \A h \in GrantIds : Markable(h)' <=> Markable(h)
  <2>1. ASSUME NEW d \in Callers
        PROVE  /\ At(d, "consume", "mark")' <=> At(d, "consume", "mark")
               /\ At(d, "consume", "mark") => call'[d].g = call[d].g
    BY <1>0, <1>1 DEF At
  <2>. QED BY <1>1, <2>1 DEF Markable, Minted, Verify, Never
<1>4. GoodFor' = GoodFor
  BY <1>1, <1>3 DEF GoodFor
<1>5. AcceptedFor' = AcceptedFor \ {<<g, r>>}
  <2>1. ASSUME NEW h \in GrantIds, NEW d \in Resources
        PROVE  AcceptedOn(h, d)' <=> AcceptedOn(h, d) /\ ~(h = g /\ d = r)
    <3>1. CASE h = g
      <4>1. \A e \in Callers : At(e, "consume", "answer") /\ call[e].g = g => e = c
        BY <1>0 DEF IInv, OneAnswer, Answered
      <4>2. ~AcceptedOn(g, d)'
        BY <1>1, <4>1 DEF AcceptedOn, At
      <4>3. AcceptedOn(g, d) => d = r
        BY <1>0, <4>1 DEF AcceptedOn
      <4>. QED BY <3>1, <4>2, <4>3
    <3>2. CASE h # g
      BY <1>0, <1>1, <3>2 DEF AcceptedOn, At
    <3>. QED BY <3>1, <3>2
  <2>2. ASSUME NEW h \in GrantIds, NEW d \in Resources
        PROVE  <<h, d>> \in AcceptedFor' <=> <<h, d>> \in AcceptedFor \ {<<g, r>>}
    BY <2>1, GoodPass, GoodPassNext
  <2>. QED BY <2>2, PassPairs
<1>6. CASE forwarded' = forwarded
  <2>1. Pass!Waste(g, r)
    BY <1>1, <1>2, <1>4, <1>5, <1>6 DEF Pass!Waste
  <2>. QED BY <1>0, <2>1 DEF Pass!Next
<1>7. CASE forwarded' = [forwarded EXCEPT ![g] = @ + 1]
  <2>1. Pass!Open(g, r)
    BY <1>1, <1>2, <1>4, <1>5, <1>7 DEF Pass!Open
  <2>. QED BY <1>0, <2>1 DEF Pass!Next
<1>. QED BY <1>0, <1>6, <1>7 DEF ConsumeAnswer

\* A record that is dropped is of a grant too old for any call to mark it.
LEMMA CleanupLapses ==
    ASSUME IInv, Cleanup
    PROVE  Pass!Next
<1>1. UNCHANGED <<now, grants, call, drawn, forwarded>>
  BY DEF Cleanup
<1>2. ASSUME NEW g \in GrantIds, Markable(g)' PROVE Markable(g)
  <2>1. consumed'[g] = IF Expendable(g) THEN Never ELSE consumed[g]
    BY DEF Cleanup
  <2>2. CASE Expendable(g)
    <3>1. Minted(g)
      BY <2>2 DEF Expendable, IInv, RecordInTime
    <3>2. grants[g].exp \in Nat /\ now \in Nat /\ consumed[g] \in Nat
      BY <3>1, GrantShape, TimeAssumption DEF IInv, TypeOK, Grant, Never
    <3>3. grants[g].exp <= consumed[g] + TTL /\ now > consumed[g] + 2 * TTL
      BY <2>2 DEF Expendable, IInv, RecordInTime
    <3>4. now > grants[g].exp + TTL
      BY <3>2, <3>3, TimeAssumption
    <3>5. ~Verify(g)'
      BY <1>1, <3>2, <3>4, TimeAssumption DEF Verify, Minted
    <3>6. PICK c \in Callers : At(c, "consume", "mark") /\ call[c].g = g
      BY <1>1, <1>2, <3>5 DEF Markable, At
    <3>7. call[c].since < grants[g].exp /\ now <= call[c].since + Patience
      BY <3>6 DEF IInv, CallsInTime, At
    <3>8. call[c].since \in Nat
      BY <3>6, CallShape DEF IInv, Consumption, At
    <3>. QED BY <3>2, <3>4, <3>7, <3>8, TimeAssumption
  <2>3. CASE ~Expendable(g)
    BY <1>1, <1>2, <2>1, <2>3 DEF Markable, Minted, Verify, Never, At
  <2>. QED BY <2>2, <2>3
<1>3. \A g \in GrantIds, r \in Resources : AcceptedOn(g, r)' <=> AcceptedOn(g, r)
  BY <1>1 DEF AcceptedOn, At
<1>. QED BY <1>1, <1>2, <1>3, Fades

LEMMA TickLapses ==
    ASSUME IInv, Tick
    PROVE  Pass!Next
<1>1. /\ UNCHANGED <<grants, consumed, call, drawn, forwarded>>
      /\ now' = now + 1 /\ now \in Nat
  BY DEF Tick, IInv, TypeOK
<1>2. ASSUME NEW g \in GrantIds, Markable(g)' PROVE Markable(g)
  <2>1. Minted(g) /\ consumed[g] = Never
    BY <1>1, <1>2 DEF Markable, Minted, Never
  <2>2. grants[g].exp \in Nat
    BY <2>1, GrantShape DEF IInv, Grant
  <2>3. Verify(g)' => Verify(g)
    BY <1>1, <2>1, <2>2 DEF Verify, Minted
  <2>. QED BY <1>1, <1>2, <2>1, <2>3 DEF Markable, At
<1>3. \A g \in GrantIds, r \in Resources : AcceptedOn(g, r)' <=> AcceptedOn(g, r)
  BY <1>1 DEF AcceptedOn, At
<1>. QED BY <1>1, <1>2, <1>3, Fades

LEMMA RestartLapses ==
    ASSUME ~StableKey, Restart
    PROVE  Pass!Next
<1>1. \A g \in GrantIds : ~Markable(g)'
  BY DEF Restart, Markable, Minted
<1>2. ASSUME NEW c \in Callers
      PROVE  /\ At(c, "consume", "answer")' <=> At(c, "consume", "answer")
             /\ At(c, "consume", "answer") => call'[c] = call[c]
  <2>1. call'[c] = IF At(c, "consume", "answer") THEN call[c] ELSE NoCall
    BY DEF Restart, At
  <2>. QED BY <2>1 DEF At, NoCall
<1>3. \A g \in GrantIds, r \in Resources : AcceptedOn(g, r)' <=> AcceptedOn(g, r)
  BY <1>2 DEF AcceptedOn
<1>. QED BY <1>1, <1>3, Fades DEF Restart

LEMMA PassNext == ~StableKey /\ IInv /\ [Next]_vars => [Pass!Next]_(Pass!pass)
<1> SUFFICES ASSUME ~StableKey, IInv, [Next]_vars PROVE [Pass!Next]_(Pass!pass)
  OBVIOUS
<1>0. TypeOK
  BY DEF IInv
<1>1. ASSUME NEW a \in Agents, NEW n \in Names, NEW g \in GrantIds, Enroll(a, n, g)
      PROVE  Pass!Next
  <2>1. Mint(g, n, Resources) /\ UNCHANGED <<now, consumed, forwarded>>
    BY <1>1 DEF Enroll
  <2>2. \A c \in Callers : Same(c)
    BY <1>0, <1>1, RebarSame DEF Enroll
  <2>3. Resources \in SUBSET Resources
    OBVIOUS
  <2>. QED BY <2>1, <2>2, <2>3, MintIssues
<1>2. ASSUME Rebar, UNCHANGED <<now, grants, consumed, drawn, forwarded>> PROVE Pass!Next
  <2>1. Apart
    BY <1>0, <1>2, RebarSame DEF Apart, Same, Consumption, At
  <2>. QED BY <2>1, ApartFades
<1>3. ASSUME \/ \E a \in Agents, n \in Names : SessionAgent(a, n)
             \/ \E a \in Agents, new \in {"active", "inactive"} : SetStatus(a, new)
             \/ \E on \in BOOLEAN : SetKillSwitch(on)
      PROVE  Pass!Next
  BY <1>2, <1>3 DEF SessionAgent, SetStatus, SetKillSwitch
<1>4. ASSUME NEW c \in Callers,
             \/ \E a \in Agents : AcquireArrives(c, a)
             \/ \E g \in GrantIds, r \in Resources : ConsumeArrives(c, g, r)
      PROVE  Pass!Next
  <2>1. /\ call[c] = NoCall
        /\ \A d \in Callers \ {c} : call'[d] = call[d]
        /\ call'[c].at \in {"bearer", "freeze"}
        /\ UNCHANGED <<now, grants, consumed, drawn, forwarded>>
    BY <1>0, <1>4 DEF AcquireArrives, ConsumeArrives, Idle, TypeOK
  <2>2. Apart
    BY <2>1 DEF Apart, At, NoCall
  <2>. QED BY <2>2, ApartFades
<1>5. ASSUME NEW c \in Callers, CallStep(c) PROVE Pass!Next
  <2>1. ASSUME Hangup(c), ~At(c, "consume", "answer"),
               UNCHANGED <<now, grants, consumed, drawn, forwarded>>
        PROVE  Pass!Next
    <3>1. call'[c] = NoCall /\ \A d \in Callers \ {c} : call'[d] = call[d]
      BY <1>0, <2>1 DEF Hangup, TypeOK
    <3>2. Apart
      BY <2>1, <3>1 DEF Apart, At, NoCall
    <3>. QED BY <3>2, ApartFades
  <2>2. ASSUME NEW place \in {"freeze", "list", "verify", "mint"}, Goto(c, place),
               call[c].op \in {"acquire", "consume"}, ~At(c, "consume", "answer"),
               UNCHANGED <<now, grants, consumed, drawn, forwarded>>
        PROVE  Pass!Next
    <3>1. call[c] \in Acquire \cup Consumption /\ call' = [call EXCEPT ![c].at = place]
      BY <1>0, <2>2, CallShape DEF Goto
    <3>2. call'[c].at = place /\ \A d \in Callers \ {c} : call'[d] = call[d]
      BY <1>0, <3>1 DEF Acquire, Consumption, TypeOK
    <3>3. Apart
      BY <2>2, <3>2 DEF Apart, At
    <3>. QED BY <3>3, ApartFades
  <2>3. CASE AcquireBearer(c)
    BY <2>1, <2>2, <2>3 DEF AcquireBearer, At
  <2>4. CASE AcquireFreeze(c)
    BY <2>1, <2>2, <2>4 DEF AcquireFreeze, At
  <2>5. ASSUME NEW g \in GrantIds, NEW scopes \in SUBSET Resources, AcquireMint(c, g, scopes)
        PROVE  Pass!Next
    <3>1. call[c].op = "acquire"
      BY <2>5 DEF AcquireMint, At
    <3>2. \A d \in Callers : \/ Same(d)
                             \/ call[d].op = "acquire" /\ call'[d] = NoCall
      BY <1>0, <2>5, <3>1 DEF AcquireMint, Hangup, Same, TypeOK
    <3>. QED BY <2>5, <3>2, MintIssues DEF AcquireMint
  <2>6. CASE ConsumeFreeze(c)
    BY <2>1, <2>2, <2>6 DEF ConsumeFreeze, At
  <2>7. CASE ConsumeList(c)
    BY <2>1, <2>2, <2>7 DEF ConsumeList, At
  <2>8. CASE ConsumeVerify(c)
    <3>1. CASE Verify(call[c].g)
      <4>1. call[c] \in Consumption /\ ~At(c, "consume", "answer")
        BY <1>0, <2>8, CallShape DEF ConsumeVerify, At
      <4>2. call' = [call EXCEPT ![c].at = "mark", ![c].since = now]
        BY <2>8, <3>1 DEF ConsumeVerify
      <4>3. /\ call'[c].at = "mark" /\ call'[c].g = call[c].g
            /\ \A d \in Callers \ {c} : call'[d] = call[d]
        BY <1>0, <4>1, <4>2 DEF Consumption, TypeOK
      <4>4. Apart
        BY <2>8, <3>1, <4>1, <4>3 DEF ConsumeVerify, Apart, At
      <4>. QED BY <4>4, ApartFades
    <3>2. CASE ~Verify(call[c].g)
      BY <2>1, <2>8, <3>2 DEF ConsumeVerify, At
    <3>. QED BY <3>1, <3>2
  <2>9. CASE ConsumeMark(c)
    <3>1. CASE ~Hangup(c)
      BY <2>9, <3>1, MarkShows
    <3>2. CASE Hangup(c)
      <4>1. call[c] \in Consumption /\ ~At(c, "consume", "answer")
        BY <1>0, <2>9, CallShape DEF ConsumeMark, At
      <4>2. ~Goto(c, "answer")
        <5> SUFFICES ASSUME Goto(c, "answer") PROVE FALSE
          OBVIOUS
        <5>1. call'[c].op = "consume" /\ call'[c] = NoCall
          BY <1>0, <3>2, <4>1 DEF Goto, Hangup, Consumption, TypeOK
        <5>. QED BY <5>1 DEF NoCall
      <4>. QED BY <2>1, <2>9, <3>2, <4>1, <4>2 DEF ConsumeMark
    <3>. QED BY <3>1, <3>2
  <2>10. CASE ConsumeAnswer(c)
    BY <2>10, AnswerOpens
  <2>. QED BY <1>5, <2>3, <2>4, <2>5, <2>6, <2>7, <2>8, <2>9, <2>10 DEF CallStep
<1>6. CASE Cleanup
  BY <1>6, CleanupLapses
<1>7. CASE Tick
  BY <1>7, TickLapses
<1>8. CASE Restart
  BY <1>8, RestartLapses
<1>9. CASE UNCHANGED vars
  <2>1. UNCHANGED <<GoodFor, AcceptedFor>>
    BY <1>9 DEF vars, GoodFor, AcceptedFor, Markable, AcceptedOn, Minted, Verify, Never, At
  <2>. QED BY <1>9, <2>1 DEF vars, Pass!pass
<1>. QED
  BY <1>1, <1>2, <1>3, <1>4, <1>5, <1>6, <1>7, <1>8, <1>9 DEF Next

\* With an ephemeral signing key, a grant is a one-time pass for its scopes: the
\* control plane and the gateway together implement OneTimePass.
THEOREM GrantsAreOneTimePasses == ~StableKey => (Spec => ImplementsPass)
<1> SUFFICES ASSUME ~StableKey PROVE Spec => ImplementsPass
  OBVIOUS
<1>1. Init => IInv
  BY InvInit
<1>2. IInv /\ [Next]_vars => IInv'
  BY InvNext
<1>3. Init => Pass!Init
  <2> SUFFICES ASSUME Init PROVE Pass!Init
    OBVIOUS
  <2>1. GoodFor = {} /\ AcceptedFor = {}
    BY DEF Init, GoodFor, AcceptedFor, Markable, AcceptedOn, Minted, At, NoCall
  <2>. QED BY <2>1 DEF Init, Pass!Init
<1>4. IInv /\ [Next]_vars => [Pass!Next]_(Pass!pass)
  BY PassNext
<1>. QED BY <1>1, <1>2, <1>3, <1>4, PTL DEF Spec, Pass!Spec, ImplementsPass
=============================================================================
