--------------------------- MODULE EdgeAuditProofs ---------------------------
(***************************************************************************)
(* The log of the edge, for any processes and events and a log of any      *)
(* length.                                                                 *)
(*                                                                         *)
(* Nothing locks the file, so the theorems about it say under which        *)
(* schedules they hold, as narrowly as the interleavings allow:            *)
(* NothingIsLost for processes that do anything at the same time except    *)
(* append to a log that another one is rewriting, LogStaysChained for one  *)
(* process at a time.  Run audit_lost shows that the first needs it; two   *)
(* processes that read the same tail fork the chain.                       *)
(*                                                                         *)
(* EdgeKeepsTheTrail, under the same condition as NothingIsLost: each step *)
(* is one of EvidenceTrail or a stutter.                                   *)
(*                                                                         *)
(* What the loop of RemoveEntry keeps is shown by induction over the lines *)
(* it has passed: a set of numbers that starts at 0 and is closed under +1 *)
(* (Induction), from the order of the natural numbers.                     *)
(***************************************************************************)
EXTENDS EdgeAudit, SequenceTheorems, WellFoundedInduction, TLAPS

-----------------------------------------------------------------------------
(***************************************************************************)
(* Induction, from the order of the natural numbers.                       *)
(***************************************************************************)

LEMMA LeastNumber ==
    ASSUME NEW T \in SUBSET Nat, T # {}
    PROVE  \E n \in T : \A m \in T : n <= m
<1> DEFINE R == OpToRel(<, Nat)
<1>1. IsWellFoundedOn(R, Nat)
  BY NatLessThanWellFounded
<1>2. \A m, k \in Nat : m < k => <<m, k>> \in R
  BY DEF OpToRel
<1> HIDE DEF R
<1>3. PICK n \in T : \A m \in T : <<m, n>> \notin R
  BY <1>1, WFMin
<1>4. \A m \in T : m \in Nat
  OBVIOUS
<1>5. \A m \in T : ~(m < n)
  BY <1>2, <1>3, <1>4
<1>6. \A m \in T : n <= m
  BY <1>4, <1>5
<1>. QED BY <1>6

\* A set of numbers that starts at 0 and is closed under +1, up to b.
LEMMA Induction ==
    ASSUME NEW b \in Nat, NEW S, 0 \in S,
           \A n \in 0..b : n \in S /\ n < b => n + 1 \in S
    PROVE  0..b \subseteq S
<1> DEFINE T == {n \in 0..b : n \notin S}
<1>1. CASE T = {}
  BY <1>1
<1>2. CASE T # {}
  <2>1. PICK n \in T : \A m \in T : n <= m
    <3>1. T \in SUBSET Nat
      OBVIOUS
    <3>. QED BY <1>2, <3>1, LeastNumber
  <2>2. n \in 0..b /\ n # 0 /\ n \notin S
    BY <2>1
  <2>3. n - 1 \in 0..b /\ n - 1 < n /\ n - 1 < b /\ (n - 1) + 1 = n
    BY <2>2
  <2>4. n - 1 \in S
    BY <2>1, <2>3
  <2>. QED BY <2>2, <2>3, <2>4
<1>. QED BY <1>1, <1>2

LEMMA MaxIsGreatest ==
    ASSUME NEW n \in Nat, NEW S \in SUBSET (0..n), S # {}
    PROVE  Max(S) \in S /\ \A m \in S : Max(S) >= m
<1> DEFINE T == {n - m : m \in S}
<1>1. T \in SUBSET Nat /\ T # {}
  <2>1. \A m \in S : m \in 0..n
    OBVIOUS
  <2>2. \A m \in S : n - m \in Nat
    BY <2>1
  <2>. QED BY <2>2
<1>2. PICK k \in T : \A m \in T : k <= m
  BY <1>1, LeastNumber
<1>3. PICK x \in S : k = n - x
  BY <1>2
<1>4. \A m \in S : x >= m
  <2> TAKE m \in S
  <2>1. n - x <= n - m
    BY <1>2, <1>3
  <2>. QED BY <2>1
<1>. QED BY <1>4 DEF Max

-----------------------------------------------------------------------------
(***************************************************************************)
(* What Remaining and LastHash return.                                     *)
(***************************************************************************)

KeptStep(f, lines, e, n) ==
    IF n = 0 THEN <<>>
    ELSE IF lines[n].id = e THEN f[n - 1]
    ELSE Append(f[n - 1], lines[n])

\* The loop is defined for every number of lines.
LEMMA KeptExists ==
    ASSUME NEW lines \in Seq(Line), NEW e
    PROVE  \E f : f = [n \in 0..Len(lines) |-> KeptStep(f, lines, e, n)]
<1> DEFINE Upto(b) == \E f : f = [n \in 0..b |-> KeptStep(f, lines, e, n)]
           S == {b \in 0..Len(lines) : Upto(b)}
<1>1. Upto(0)
  <2> DEFINE f == [n \in 0..0 |-> <<>>]
  <2>1. f = [n \in 0..0 |-> KeptStep(f, lines, e, n)]
    BY DEF KeptStep
  <2>. QED BY <2>1
<1>2. ASSUME NEW b \in 0..Len(lines), Upto(b), b < Len(lines)
      PROVE  Upto(b + 1)
  <2>1. PICK f : f = [n \in 0..b |-> KeptStep(f, lines, e, n)]
    BY <1>2
  <2> DEFINE g == [n \in 0..(b + 1) |-> IF n = b + 1 THEN KeptStep(f, lines, e, n) ELSE f[n]]
  <2>2. \A n \in 0..b : g[n] = f[n]
    OBVIOUS
  <2>3. \A n \in 0..(b + 1) : g[n] = KeptStep(g, lines, e, n)
    <3> TAKE n \in 0..(b + 1)
    <3> HIDE DEF g
    <3>1. n = 0 \/ n - 1 \in 0..b
      OBVIOUS
    <3>2. KeptStep(g, lines, e, n) = KeptStep(f, lines, e, n)
      BY <2>2, <3>1 DEF KeptStep
    <3>3. CASE n = b + 1
      BY <3>2, <3>3 DEF g
    <3>4. CASE n \in 0..b
      BY <2>1, <2>2, <3>2, <3>4
    <3>. QED BY <3>3, <3>4
  <2>4. g = [n \in 0..(b + 1) |-> KeptStep(g, lines, e, n)]
    BY <2>3
  <2>. QED BY <2>4
<1>3. 0..Len(lines) \subseteq S
  <2>1. Len(lines) \in Nat /\ 0 \in S
    BY <1>1
  <2>2. \A n \in 0..Len(lines) : n \in S /\ n < Len(lines) => n + 1 \in S
    BY <1>2, <2>1
  <2> HIDE DEF S
  <2>. QED BY <2>1, <2>2, Induction
<1>. QED BY <1>3

\* The entry e is in the last line and in no other one.
LastOnly(lines, e) ==
    /\ lines # <<>> /\ lines[Len(lines)].id = e
    /\ \A i \in 1..(Len(lines) - 1) : lines[i].id # e

\* RemoveEntry keeps the lines of all other events, in their order; an entry
\* that is the last line is taken off the end.
LEMMA RemainingKeeps ==
    ASSUME NEW lines \in Seq(Line), NEW e
    PROVE  /\ Remaining(lines, e) \in Seq(Line)
           /\ IdsOf(Remaining(lines, e)) = IdsOf(lines) \ {e}
           /\ LastOnly(lines, e) =>
                  Remaining(lines, e) = SubSeq(lines, 1, Len(lines) - 1)
<1> DEFINE kept[n \in 0..Len(lines)] ==
               IF n = 0 THEN <<>>
               ELSE IF lines[n].id = e THEN kept[n - 1]
               ELSE Append(kept[n - 1], lines[n])
           Before(n) == {lines[i].id : i \in 1..n}
           Good(n) == /\ kept[n] \in Seq(Line)
                      /\ IdsOf(kept[n]) = Before(n) \ {e}
                      /\ e \notin Before(n) => kept[n] = SubSeq(lines, 1, n)
           S == {n \in 0..Len(lines) : Good(n)}
<1>1. Remaining(lines, e) = kept[Len(lines)]
  BY DEF Remaining
<1>2. kept = [n \in 0..Len(lines) |-> KeptStep(kept, lines, e, n)]
  <2>1. \E f : f = [n \in 0..Len(lines) |->
                       IF n = 0 THEN <<>>
                       ELSE IF lines[n].id = e THEN f[n - 1]
                       ELSE Append(f[n - 1], lines[n])]
    <3>1. PICK f : f = [n \in 0..Len(lines) |-> KeptStep(f, lines, e, n)]
      BY KeptExists
    <3>2. f = [n \in 0..Len(lines) |->
                  IF n = 0 THEN <<>>
                  ELSE IF lines[n].id = e THEN f[n - 1]
                  ELSE Append(f[n - 1], lines[n])]
      BY <3>1 DEF KeptStep
    <3>. QED BY <3>2
  <2>2. kept = [n \in 0..Len(lines) |->
                  IF n = 0 THEN <<>>
                  ELSE IF lines[n].id = e THEN kept[n - 1]
                  ELSE Append(kept[n - 1], lines[n])]
    BY <2>1
  <2> HIDE DEF kept
  <2>. QED BY <2>2 DEF KeptStep
<1> HIDE DEF kept
<1>3. Len(lines) \in Nat /\ kept[0] = <<>>
  BY <1>2 DEF KeptStep
<1>4. Good(0)
  <2>1. IdsOf(<<>>) = {} /\ Before(0) = {}
    BY DEF IdsOf
  <2>. QED BY <1>3, <2>1
<1>5. ASSUME NEW n \in 0..Len(lines), Good(n), n < Len(lines)
      PROVE  Good(n + 1)
  <2>1. /\ n + 1 \in 1..Len(lines) /\ lines[n + 1] \in Line
        /\ kept[n + 1] = IF lines[n + 1].id = e THEN kept[n]
                         ELSE Append(kept[n], lines[n + 1])
    <3>1. n + 1 \in 1..Len(lines) /\ n + 1 \in 0..Len(lines) /\ n + 1 # 0 /\ (n + 1) - 1 = n
      BY <1>3, <1>5
    <3>2. lines[n + 1] \in Line
      BY <3>1
    <3>3. kept[n + 1] = KeptStep(kept, lines, e, n + 1)
      BY <1>2, <3>1
    <3>. QED BY <3>1, <3>2, <3>3 DEF KeptStep
  <2>2. Before(n + 1) = Before(n) \cup {lines[n + 1].id}
    BY <2>1
  <2>3. CASE lines[n + 1].id = e
    BY <1>5, <2>1, <2>2, <2>3
  <2>4. CASE lines[n + 1].id # e
    <3> DEFINE old == kept[n]
               new == Append(old, lines[n + 1])
    <3>1. old \in Seq(Line) /\ new \in Seq(Line)
      BY <1>5, <2>1
    <3>2. IdsOf(new) = IdsOf(old) \cup {lines[n + 1].id}
      <4> HIDE DEF old
      <4>1. /\ DOMAIN new = 1..(Len(old) + 1) /\ DOMAIN old = 1..Len(old)
            /\ new[Len(old) + 1] = lines[n + 1]
            /\ \A i \in 1..Len(old) : new[i] = old[i]
            /\ Len(old) \in Nat
        BY <3>1, <2>1
      <4>. QED BY <4>1 DEF IdsOf
    <3>3. e \notin Before(n + 1) => new = SubSeq(lines, 1, n + 1)
      <4> SUFFICES ASSUME e \notin Before(n + 1)
                   PROVE  new = SubSeq(lines, 1, n + 1)
        OBVIOUS
      <4>1. old = SubSeq(lines, 1, n)
        BY <1>5, <2>2
      <4> HIDE DEF old
      <4>. QED BY <1>3, <2>1, <4>1, <1>5
    <3>. QED BY <1>5, <2>1, <2>2, <2>4, <3>1, <3>2, <3>3
  <2>. QED BY <2>3, <2>4
<1>6. \A n \in 0..Len(lines) : Good(n)
  <2> HIDE DEF Good
  <2>1. 0 \in S
    BY <1>3, <1>4
  <2>3. \A n \in 0..Len(lines) : n \in S /\ n < Len(lines) => n + 1 \in S
    BY <1>3, <1>5
  <2> HIDE DEF S
  <2>2. 0..Len(lines) \subseteq S
    BY <1>3, <2>1, <2>3, Induction
  <2>. QED BY <2>2 DEF S
<1>7. Good(Len(lines))
  <2> HIDE DEF Good
  <2>. QED BY <1>3, <1>6
<1>8. Before(Len(lines)) = IdsOf(lines)
  BY DEF IdsOf
<1>9. ASSUME LastOnly(lines, e)
      PROVE  Remaining(lines, e) = SubSeq(lines, 1, Len(lines) - 1)
  <2> DEFINE n == Len(lines) - 1
  <2>1. n \in 0..Len(lines) /\ n + 1 = Len(lines) /\ n + 1 # 0
    BY <1>3, <1>9 DEF LastOnly
  <2>2. e \notin Before(n)
    BY <1>9 DEF LastOnly
  <2>3. kept[n] = SubSeq(lines, 1, n)
    BY <1>6, <2>1, <2>2
  <2>4. kept[n + 1] = kept[n]
    <3>1. kept[n + 1] = KeptStep(kept, lines, e, n + 1) /\ n + 1 \in 0..Len(lines)
      BY <1>2, <1>3, <2>1
    <3>2. lines[n + 1].id = e /\ (n + 1) - 1 = n
      BY <1>9, <2>1 DEF LastOnly
    <3>. QED BY <2>1, <3>1, <3>2 DEF KeptStep
  <2>. QED BY <1>1, <2>1, <2>3, <2>4
<1>. QED BY <1>1, <1>7, <1>8, <1>9

LEMMA LastHashIs ==
    ASSUME NEW lines \in Seq(Line)
    PROVE  /\ LastHash(lines) \in Events \cup {Genesis}
           /\ Verifies(lines) => LastHash(lines) = IF lines = <<>> THEN Genesis
                                                  ELSE lines[Len(lines)].id
<1>1. /\ Len(lines) \in Nat /\ DOMAIN lines = 1..Len(lines)
      /\ \A i \in DOMAIN lines : lines[i].id \in Events \cup {Torn}
  <2>1. \A l \in Line : l.id \in Events \cup {Torn}
    BY DEF Line
  <2>. QED BY <2>1
<1>2. Whole(lines) \in SUBSET (0..Len(lines))
  BY <1>1 DEF Whole
<1>3. CASE Whole(lines) = {}
  <2>1. Verifies(lines) => lines = <<>>
    BY <1>1, <1>3 DEF Verifies, Whole
  <2>. QED BY <1>3, <2>1 DEF LastHash
<1>4. CASE Whole(lines) # {}
  <2> DEFINE m == Max(Whole(lines))
  <2>1. m \in Whole(lines) /\ \A i \in Whole(lines) : m >= i
    BY <1>1, <1>2, <1>4, MaxIsGreatest
  <2>2. LastHash(lines) = lines[m].id
    BY <1>4 DEF LastHash
  <2> HIDE DEF m
  <2>3. LastHash(lines) \in Events
    BY <1>1, <2>1, <2>2 DEF Whole
  <2>4. ASSUME Verifies(lines)
        PROVE  lines # <<>> /\ m = Len(lines)
    <3>1. Whole(lines) = 1..Len(lines)
      BY <1>1, <2>4 DEF Whole, Verifies
    <3>2. Len(lines) \in Whole(lines)
      BY <1>1, <1>4, <3>1
    <3>. QED BY <1>1, <2>1, <3>1, <3>2
  <2>. QED BY <2>2, <2>3, <2>4
<1>. QED BY <1>3, <1>4

LEMMA IdsOfAppend ==
    ASSUME NEW lines \in Seq(Line), NEW l \in Line
    PROVE  /\ Append(lines, l) \in Seq(Line)
           /\ IdsOf(Append(lines, l)) = IdsOf(lines) \cup {l.id}
<1> DEFINE new == Append(lines, l)
<1>1. /\ new \in Seq(Line) /\ Len(lines) \in Nat
      /\ DOMAIN new = 1..(Len(lines) + 1) /\ DOMAIN lines = 1..Len(lines)
      /\ new[Len(lines) + 1] = l /\ \A i \in 1..Len(lines) : new[i] = lines[i]
  OBVIOUS
<1>. QED BY <1>1 DEF IdsOf

\* What the write of a rewrite leaves behind it.
LEMMA LeftOverIs ==
    ASSUME NEW lines \in Seq(Line), NEW rest \in LeftOver(lines)
    PROVE  /\ rest \in Seq(Line)
           /\ IdsOf(rest) \subseteq IdsOf(lines) \cup {Torn}
           /\ lines = <<>> => rest = <<>>
<1> DEFINE tail(n) == SubSeq(lines, n + 1, Len(lines))
<1>1. Len(lines) \in Nat /\ TornLine \in Line /\ TornLine.id = Torn
  BY DEF TornLine, Line
<1>2. \A n \in 1..Len(lines) :
          /\ tail(n) \in Seq(Line) /\ IdsOf(tail(n)) \subseteq IdsOf(lines)
  <2> TAKE n \in 1..Len(lines)
  <2>1. /\ tail(n) \in Seq(Line) /\ Len(tail(n)) = Len(lines) - n
        /\ \A i \in 1..(Len(lines) - n) : tail(n)[i] = lines[n + i]
    BY <1>1
  <2>2. DOMAIN tail(n) = 1..(Len(lines) - n) /\ DOMAIN lines = 1..Len(lines)
    BY <2>1
  <2> HIDE DEF tail
  <2>3. \A i \in DOMAIN tail(n) : n + i \in DOMAIN lines /\ tail(n)[i].id = lines[n + i].id
    BY <1>1, <2>1, <2>2
  <2>. QED BY <2>1, <2>3 DEF IdsOf
<1> HIDE DEF tail
<1>3. \A t \in Seq(Line) : /\ <<TornLine>> \o t \in Seq(Line)
                           /\ IdsOf(<<TornLine>> \o t) \subseteq IdsOf(t) \cup {Torn}
  <2> TAKE t \in Seq(Line)
  <2> DEFINE u == <<TornLine>> \o t
  <2>1. /\ u \in Seq(Line) /\ Len(u) = Len(t) + 1 /\ Len(t) \in Nat /\ u[1] = TornLine
        /\ \A i \in 2..(Len(t) + 1) : u[i] = t[i - 1]
    BY <1>1
  <2> HIDE DEF u
  <2>2. DOMAIN u = 1..(Len(t) + 1) /\ DOMAIN t = 1..Len(t)
    BY <2>1
  <2>3. \A i \in DOMAIN u : i = 1 \/ i - 1 \in DOMAIN t
    BY <2>1, <2>2
  <2>4. \A i \in DOMAIN u : u[i].id = Torn \/ u[i].id \in IdsOf(t)
    BY <1>1, <2>1, <2>2, <2>3 DEF IdsOf
  <2>. QED BY <2>1, <2>4 DEF IdsOf, u
<1>4. CASE rest = <<>>
  BY <1>4 DEF IdsOf
<1>5. ASSUME NEW n \in 1..Len(lines), rest = tail(n)
      PROVE  rest \in Seq(Line) /\ IdsOf(rest) \subseteq IdsOf(lines) \cup {Torn}
  BY <1>2, <1>5
<1>6. ASSUME NEW n \in 1..Len(lines), rest = <<TornLine>> \o tail(n)
      PROVE  rest \in Seq(Line) /\ IdsOf(rest) \subseteq IdsOf(lines) \cup {Torn}
  <2>1. tail(n) \in Seq(Line) /\ IdsOf(tail(n)) \subseteq IdsOf(lines)
    BY <1>2
  <2>. QED BY <1>3, <1>6, <2>1
<1>7. \/ rest = <<>>
      \/ \E n \in 1..Len(lines) : rest = tail(n) \/ rest = <<TornLine>> \o tail(n)
  BY DEF LeftOver, tail
<1>8. lines = <<>> => rest = <<>>
  BY <1>1, <1>7
<1>. QED BY <1>4, <1>5, <1>6, <1>7, <1>8

LEMMA IdsOfConcat ==
    ASSUME NEW s \in Seq(Line), NEW t \in Seq(Line)
    PROVE  s \o t \in Seq(Line) /\ IdsOf(s \o t) = IdsOf(s) \cup IdsOf(t)
<1> DEFINE u == s \o t
<1>1. /\ u \in Seq(Line) /\ Len(s) \in Nat /\ Len(t) \in Nat
      /\ DOMAIN s = 1..Len(s) /\ DOMAIN t = 1..Len(t) /\ DOMAIN u = 1..(Len(s) + Len(t))
      /\ \A i \in 1..Len(s) : u[i] = s[i]
      /\ \A i \in 1..Len(t) : u[Len(s) + i] = t[i]
  OBVIOUS
<1> HIDE DEF u
<1>2. \A i \in DOMAIN u : i \in DOMAIN s \/ i - Len(s) \in DOMAIN t
  BY <1>1
<1>3. IdsOf(u) \subseteq IdsOf(s) \cup IdsOf(t)
  <2> SUFFICES ASSUME NEW i \in DOMAIN u
               PROVE  u[i].id \in IdsOf(s) \cup IdsOf(t)
    BY DEF IdsOf
  <2>1. CASE i \in DOMAIN s
    BY <1>1, <2>1 DEF IdsOf
  <2>2. CASE i - Len(s) \in DOMAIN t
    <3>1. i = Len(s) + (i - Len(s))
      BY <1>1
    <3>2. u[i] = t[i - Len(s)]
      BY <1>1, <2>2, <3>1
    <3>. QED BY <2>2, <3>2 DEF IdsOf
  <2>. QED BY <1>2, <2>1, <2>2
<1>4. IdsOf(s) \subseteq IdsOf(u)
  <2>1. \A i \in DOMAIN s : i \in DOMAIN u
    BY <1>1
  <2>. QED BY <1>1, <2>1 DEF IdsOf
<1>5. IdsOf(t) \subseteq IdsOf(u)
  <2>1. \A i \in DOMAIN t : Len(s) + i \in DOMAIN u
    BY <1>1
  <2>. QED BY <1>1, <2>1 DEF IdsOf
<1>. QED BY <1>1, <1>3, <1>4, <1>5 DEF u

-----------------------------------------------------------------------------
(***************************************************************************)
(* Type correctness.                                                       *)
(***************************************************************************)

\* Where a process stands tells what is known of its event; whatever is in
\* the file, or in the copy of it that a process holds, was logged.
Placed ==
    /\ \A p \in Processes :
           /\ ~At(p, "idle") => proc[p].e \in Events
           /\ proc[p].at \notin {"idle", "append"} => proc[p].e \in logged
           /\ IdsOf(proc[p].copy) \subseteq logged \cup {Torn}
    /\ IdsOf(log) \subseteq logged \cup {Torn}

TypeInv == TypeOK /\ Placed

LEMMA Bare ==
    /\ IdsOf(<<>>) = {}
    /\ IdleProc \in [at : Places, e : Events \cup {NoEvent},
                     prev : Events \cup {Genesis}, copy : Seq(Line)]
    /\ IdleProc.at = "idle" /\ IdsOf(IdleProc.copy) = {}
  BY DEF IdsOf, IdleProc, Places

LEMMA InitType == Init => TypeInv
  BY Bare, RestartsAssumption DEF Init, TypeInv, TypeOK, Placed, At

LEMMA ProcessType ==
    ASSUME TypeInv, NEW p \in Processes, Process(p)
    PROVE  TypeInv'
<1> USE DEF TypeInv, TypeOK, Placed, At, server, Places
<1>1. ASSUME NEW e \in Events, LogRead(p, e)
      PROVE  TypeInv'
  <2>1. LastHash(log) \in Events \cup {Genesis}
    BY LastHashIs
  <2>. QED BY <1>1, <2>1, Bare DEF LogRead
<1>2. CASE LogAppend(p)
  <2>1. [id |-> proc[p].e, prev |-> proc[p].prev] \in Line
    BY <1>2 DEF LogAppend, Line
  <2>2. log' \in Seq(Line) /\ IdsOf(log') = IdsOf(log) \cup {proc[p].e}
    BY <1>2, <2>1, IdsOfAppend DEF LogAppend
  <2>3. /\ logged' = logged \cup {proc[p].e} /\ logged' \subseteq Events
        /\ UNCHANGED <<sent, acks, events, ingested, restarts, cut>>
    BY <1>2 DEF LogAppend
  <2>4. /\ proc' \in [Processes -> [at : Places, e : Events \cup {NoEvent},
                                   prev : Events \cup {Genesis}, copy : Seq(Line)]]
        /\ \A q \in Processes : /\ proc'[q].e = proc[q].e /\ proc'[q].copy = proc[q].copy
                                /\ q # p => proc'[q] = proc[q]
        /\ proc'[p].at = "send"
    BY <1>2 DEF LogAppend, Goto
  <2>5. TypeOK'
    BY <2>2, <2>3, <2>4
  <2>6. ~At(p, "idle") /\ proc[p].e \in Events
    BY <1>2 DEF LogAppend
  <2>7. Placed'
    BY <2>2, <2>3, <2>4, <2>6
  <2>. QED BY <2>5, <2>7
<1>3. CASE Keep(p)
  BY <1>3, Bare DEF Keep, Rest
<1>4. CASE Send(p)
  BY <1>4 DEF Send, Goto
<1>5. CASE GiveUp(p)
  BY <1>5, Bare DEF GiveUp, Rest
<1>6. CASE Acknowledged(p)
  <2>1. CASE Goto(p, "remove")
    BY <1>6, <2>1 DEF Acknowledged, Goto
  <2>2. CASE Rest(p)
    BY <1>6, <2>2, Bare DEF Acknowledged, Rest
  <2>. QED BY <1>6, <2>1, <2>2 DEF Acknowledged
<1>7. CASE RemoveRead(p)
  <2>1. /\ Remaining(log, proc[p].e) \in Seq(Line)
        /\ IdsOf(Remaining(log, proc[p].e)) \subseteq IdsOf(log)
    BY RemainingKeeps
  <2>. QED BY <1>7, <2>1 DEF RemoveRead
<1>8. CASE Truncate(p)
  <2>1. log' \in Seq(Line) /\ IdsOf(log') = {}
    BY <1>8, Bare DEF Truncate
  <2>2. CASE Goto(p, "write")
    BY <1>8, <2>1, <2>2 DEF Truncate, Goto
  <2>3. CASE Rest(p)
    BY <1>8, <2>1, <2>3, Bare DEF Truncate, Rest
  <2>. QED BY <1>8, <2>2, <2>3 DEF Truncate
<1>9. CASE Write(p)
  <2>1. PICK rest \in LeftOver(log) : log' = proc[p].copy \o rest
    BY <1>9 DEF Write
  <2>2. rest \in Seq(Line) /\ IdsOf(rest) \subseteq logged \cup {Torn}
    BY LeftOverIs
  <2>3. log' \in Seq(Line) /\ IdsOf(log') \subseteq logged \cup {Torn}
    BY <2>1, <2>2, IdsOfConcat
  <2>. QED BY <1>9, <2>3, Bare DEF Write, Rest
<1>10. CASE Kill(p)
  BY <1>10, Bare DEF Kill, Rest
<1>. QED BY <1>1, <1>2, <1>3, <1>4, <1>5, <1>6, <1>7, <1>8, <1>9, <1>10 DEF Process

LEMMA ServerType ==
    ASSUME TypeInv, RestartServer \/ \E e \in Events : Ingest(e)
    PROVE  TypeInv'
<1> USE DEF TypeInv, TypeOK, Placed, At
<1>1. CASE RestartServer
  BY <1>1, RestartsAssumption DEF RestartServer
<1>2. ASSUME NEW e \in Events, Ingest(e)
      PROVE  TypeInv'
  <2>1. CASE e \in ToSet(events)
    BY <1>2, <2>1 DEF Ingest
  <2>2. CASE e \notin ToSet(events)
    <3>1. events \in Seq(ingested') /\ e \in ingested'
      BY <1>2, <2>2 DEF Ingest
    <3>2. events' \in Seq(ingested')
      BY <1>2, <2>2, <3>1 DEF Ingest
    <3>. QED BY <1>2, <2>2, <3>2 DEF Ingest
  <2>. QED BY <2>1, <2>2
<1>. QED BY <1>1, <1>2

LEMMA TypeStep == TypeInv /\ [Next]_vars => TypeInv'
<1>1. CASE UNCHANGED vars
  BY <1>1 DEF vars, server, TypeInv, TypeOK, Placed, At
<1>. QED BY <1>1, ProcessType, ServerType DEF Next

LEMMA TypeHolds == Spec => []TypeInv
  BY InitType, TypeStep, PTL DEF Spec

\* The log holds lines, the control plane stores and confirms only what it
\* was sent, and only what was logged is ever sent (logger.go, transmitter.go).
THEOREM TypeCorrect == Spec => []TypeOK
<1>1. TypeInv => TypeOK
  BY DEF TypeInv
<1>. QED BY <1>1, TypeHolds, PTL

-----------------------------------------------------------------------------
(***************************************************************************)
(* Nothing is lost.                                                        *)
(***************************************************************************)

\* While a process rewrites the file no other one appends to it or rewrites it.
RewritesAlone ==
    \A p, q \in Processes :
        p # q /\ proc[p].at \in {"rewrite", "write"}
            => proc[q].at \notin {"append", "rewrite", "write"}

\* An entry is removed only if it was confirmed; what a rewrite is going to
\* truncate is in its copy, and between truncation and write the file is empty.
RewriteKeeps ==
    \A p \in Processes :
        /\ proc[p].at \in {"remove", "rewrite", "write"} => proc[p].e \in ingested
        /\ At(p, "rewrite") => IdsOf(log) \subseteq IdsOf(proc[p].copy) \cup {proc[p].e}
        /\ At(p, "write") => log = <<>>

KeepInv == RewriteKeeps /\ NothingLost

LEMMA KeepProcess ==
    ASSUME TypeInv, RewritesAlone, KeepInv, NEW p \in Processes, Process(p)
    PROVE  KeepInv'
<1> USE DEF KeepInv, RewriteKeeps, NothingLost, At, server
<1>0. /\ proc \in [Processes -> [at : Places, e : Events \cup {NoEvent},
                               prev : Events \cup {Genesis}, copy : Seq(Line)]]
      /\ log \in Seq(Line) /\ acks \subseteq ingested
  BY DEF TypeInv, TypeOK
<1>1. ASSUME NEW e \in Events, LogRead(p, e)
      PROVE  KeepInv'
  BY <1>0, <1>1 DEF LogRead
<1>2. CASE LogAppend(p)
  <2>1. [id |-> proc[p].e, prev |-> proc[p].prev] \in Line
    BY <1>0, <1>2 DEF LogAppend, Line, TypeInv, Placed
  <2>2. IdsOf(log') = IdsOf(log) \cup {proc[p].e}
    BY <1>0, <1>2, <2>1, IdsOfAppend DEF LogAppend
  <2>3. /\ \A q \in Processes \ {p} : proc'[q] = proc[q]
        /\ proc'[p].at = "send" /\ At(p, "append")
        /\ logged' = logged \cup {proc[p].e} /\ UNCHANGED <<ingested, cut>>
    BY <1>0, <1>2 DEF LogAppend, Goto
  <2>4. \A q \in Processes \ {p} : proc[q].at \notin {"rewrite", "write"}
    BY <2>3 DEF RewritesAlone
  <2>. QED BY <2>2, <2>3, <2>4
<1>3. CASE Keep(p)
  BY <1>0, <1>3, Bare DEF Keep, Rest
<1>4. CASE Send(p)
  BY <1>0, <1>4 DEF Send, Goto
<1>5. CASE GiveUp(p)
  BY <1>0, <1>5, Bare DEF GiveUp, Rest
<1>6. CASE Acknowledged(p)
  <2>1. CASE Goto(p, "remove")
    BY <1>0, <1>6, <2>1 DEF Acknowledged, Goto
  <2>2. CASE Rest(p)
    BY <1>0, <1>6, <2>2, Bare DEF Acknowledged, Rest
  <2>. QED BY <1>6, <2>1, <2>2 DEF Acknowledged
<1>7. CASE RemoveRead(p)
  <2>1. IdsOf(Remaining(log, proc[p].e)) = IdsOf(log) \ {proc[p].e}
    BY <1>0, RemainingKeeps
  <2>2. /\ \A q \in Processes \ {p} : proc'[q] = proc[q]
        /\ proc'[p].at = "rewrite" /\ proc'[p].e = proc[p].e
        /\ proc'[p].copy = Remaining(log, proc[p].e) /\ At(p, "remove")
        /\ UNCHANGED <<log, logged, ingested, cut>>
    BY <1>0, <1>7 DEF RemoveRead
  <2>. QED BY <2>1, <2>2
<1>8. CASE Truncate(p)
  <2>1. /\ At(p, "rewrite") /\ log' = <<>> /\ IdsOf(log') = {}
        /\ UNCHANGED <<logged, ingested, cut>>
    BY <1>8, Bare DEF Truncate
  <2>2. \A q \in Processes \ {p} : proc[q].at \notin {"rewrite", "write"}
    BY <2>1 DEF RewritesAlone
  <2>3. \A q \in Processes \ {p} : proc'[q] = proc[q]
    BY <1>0, <1>8 DEF Truncate, Goto, Rest
  <2>4. \A e \in logged : e \in ingested \cup cut \/ e \in IdsOf(proc[p].copy)
    BY <2>1, <2>2
  <2>5. CASE proc[p].copy = <<>>
    <3>1. proc'[p] = IdleProc
      BY <1>0, <1>8, <2>5 DEF Truncate, Rest
    <3>. QED BY <2>1, <2>2, <2>3, <2>4, <2>5, <3>1, Bare
  <2>6. CASE proc[p].copy # <<>>
    <3>1. /\ proc'[p].at = "write" /\ proc'[p].e = proc[p].e
          /\ proc'[p].copy = proc[p].copy
      BY <1>0, <1>8, <2>6 DEF Truncate, Goto
    <3>. QED BY <2>1, <2>2, <2>3, <2>4, <3>1
  <2>. QED BY <2>5, <2>6
<1>9. CASE Write(p)
  <2>1. /\ At(p, "write") /\ log = <<>> /\ UNCHANGED <<logged, ingested, cut>>
        /\ proc'[p] = IdleProc /\ \A q \in Processes \ {p} : proc'[q] = proc[q]
    BY <1>0, <1>9 DEF Write, Rest
  <2>2. PICK rest \in LeftOver(log) : log' = proc[p].copy \o rest
    BY <1>9 DEF Write
  <2>3. IdsOf(proc[p].copy) \subseteq IdsOf(log')
    BY <1>0, <2>2, LeftOverIs, IdsOfConcat
  <2>4. \A q \in Processes \ {p} : proc[q].at \notin {"rewrite", "write"}
    BY <2>1 DEF RewritesAlone
  <2>. QED BY <2>1, <2>3, <2>4, Bare
<1>10. CASE Kill(p)
  <2>1. /\ proc'[p] = IdleProc /\ \A q \in Processes \ {p} : proc'[q] = proc[q]
        /\ UNCHANGED <<log, logged, ingested>> /\ cut \subseteq cut'
        /\ At(p, "write") => IdsOf(proc[p].copy) \ {Torn} \subseteq cut'
    BY <1>0, <1>10 DEF Kill, Rest
  <2>2. Torn \notin logged
    BY MarksAssumption DEF TypeInv, TypeOK
  <2>. QED BY <2>1, <2>2, Bare
<1>. QED BY <1>1, <1>2, <1>3, <1>4, <1>5, <1>6, <1>7, <1>8, <1>9, <1>10 DEF Process

LEMMA KeepStep == TypeInv /\ RewritesAlone /\ KeepInv /\ [Next]_vars => KeepInv'
<1> SUFFICES ASSUME TypeInv, RewritesAlone, KeepInv, [Next]_vars
             PROVE  KeepInv'
  OBVIOUS
<1> USE DEF KeepInv, RewriteKeeps, NothingLost, At
<1>1. CASE UNCHANGED vars
  BY <1>1 DEF vars, server
<1>2. CASE RestartServer
  BY <1>2 DEF RestartServer
<1>3. ASSUME NEW e \in Events, Ingest(e)
      PROVE  KeepInv'
  BY <1>3 DEF Ingest
<1>. QED BY <1>1, <1>2, <1>3, KeepProcess DEF Next

\* As long as no process appends to the log while another one is removing its
\* entry from it, whichever processes log, send or wait at the same time: what
\* is not in the log was confirmed by the control plane, or was in a rewrite
\* that a kill cut short (transmitter.go:36, RemoveEntry).
THEOREM NothingIsLost == Spec /\ []RewritesAlone => []NothingLost
<1>1. Init => KeepInv
  BY Bare DEF Init, KeepInv, RewriteKeeps, NothingLost, At
<1>2. KeepInv => NothingLost
  BY DEF KeepInv
<1>. QED BY <1>1, <1>2, KeepStep, TypeHolds, PTL DEF Spec

-----------------------------------------------------------------------------
(***************************************************************************)
(* The evidence trail: each step is one of EvidenceTrail or a stutter.     *)
(***************************************************************************)

\* An event is sent once: one that is about to be sent was neither sent nor
\* received before, and no other process is about to send it.
SentOnce ==
    /\ sent \cap ingested = {}
    /\ \A p \in Processes :
           /\ At(p, "append") => proc[p].e \notin logged
           /\ proc[p].at \in {"append", "send"} => proc[p].e \notin sent \cup ingested
    /\ \A p, q \in Processes :
           p # q /\ ~At(p, "idle") /\ ~At(q, "idle") => proc[p].e # proc[q].e

\* A rewrite adds nothing to the log it has read.
CopyOfLog ==
    \A p \in Processes :
        At(p, "rewrite") => IdsOf(proc[p].copy) = IdsOf(log) \ {proc[p].e}

TrailInv == KeepInv /\ SentOnce /\ CopyOfLog

\* The initial value of a process, and what Goto and Rest do to proc.
LEMMA Moves ==
    ASSUME TypeInv, NEW p \in Processes
    PROVE  /\ \A place : Goto(p, place) =>
                  /\ proc'[p].at = place /\ proc'[p].e = proc[p].e
                  /\ proc'[p].copy = proc[p].copy
                  /\ \A q \in Processes \ {p} : proc'[q] = proc[q]
           /\ Rest(p) =>
                  /\ proc'[p] = IdleProc /\ proc'[p].at = "idle"
                  /\ \A q \in Processes \ {p} : proc'[q] = proc[q]
BY DEF TypeInv, TypeOK, Goto, Rest, IdleProc

LEMMA SentOnceProcess ==
    ASSUME TypeInv, SentOnce, NEW p \in Processes, Process(p)
    PROVE  SentOnce'
<1> USE DEF SentOnce, At, server
<1>0. /\ sent \subseteq logged /\ ingested \subseteq logged /\ logged \subseteq Events
      /\ \A q \in Processes : At(q, "idle") \/ proc[q].e \in Events
  BY DEF TypeInv, TypeOK, Placed
<1>1. ASSUME NEW e \in Events, LogRead(p, e)
      PROVE  SentOnce'
  <2>1. /\ proc'[p].at = "append" /\ proc'[p].e = e
        /\ \A q \in Processes \ {p} : proc'[q] = proc[q] /\ proc[q].e # e
        /\ e \notin logged /\ UNCHANGED <<sent, ingested, logged>>
    BY <1>1 DEF LogRead, TypeInv, TypeOK
  <2>. QED BY <1>0, <2>1
<1>2. CASE LogAppend(p)
  <2>1. /\ Goto(p, "send") /\ At(p, "append") /\ logged' = logged \cup {proc[p].e}
        /\ UNCHANGED <<sent, ingested>>
    BY <1>2 DEF LogAppend
  <2>. QED BY <2>1, Moves
<1>3. CASE Rest(p) /\ UNCHANGED <<sent, ingested, logged>>
  BY <1>3, Moves
<1>4. CASE Send(p)
  <2>1. /\ Goto(p, "wait") /\ At(p, "send") /\ sent' = sent \cup {proc[p].e}
        /\ UNCHANGED <<ingested, logged>>
    BY <1>4 DEF Send
  <2>. QED BY <2>1, Moves
<1>5. ASSUME NEW place \in {"remove", "write"}, Goto(p, place), ~At(p, "idle"),
             UNCHANGED <<sent, ingested, logged>>
      PROVE  SentOnce'
  BY <1>5, Moves
<1>6. CASE RemoveRead(p)
  <2>1. /\ proc'[p].at = "rewrite" /\ proc'[p].e = proc[p].e /\ At(p, "remove")
        /\ \A q \in Processes \ {p} : proc'[q] = proc[q]
        /\ UNCHANGED <<sent, ingested, logged>>
    BY <1>6 DEF RemoveRead, TypeInv, TypeOK
  <2>. QED BY <2>1
<1>. QED BY <1>1, <1>2, <1>3, <1>4, <1>5, <1>6
     DEF Process, Keep, GiveUp, Acknowledged, Truncate, Write, Kill

LEMMA SentOnceServer ==
    ASSUME SentOnce, RestartServer \/ \E e \in Events : Ingest(e)
    PROVE  SentOnce'
BY DEF SentOnce, At, RestartServer, Ingest

\* Other processes leave the log alone while one rewrites it.
LEMMA CopyProcess ==
    ASSUME TypeInv, RewritesAlone, CopyOfLog, NEW p \in Processes, Process(p)
    PROVE  CopyOfLog'
<1> USE DEF CopyOfLog, At, server
<1>1. CASE RemoveRead(p)
  <2>1. IdsOf(Remaining(log, proc[p].e)) = IdsOf(log) \ {proc[p].e}
    BY RemainingKeeps DEF TypeInv, TypeOK
  <2>2. /\ proc'[p].e = proc[p].e /\ proc'[p].copy = Remaining(log, proc[p].e)
        /\ \A q \in Processes \ {p} : proc'[q] = proc[q]
        /\ UNCHANGED log
    BY <1>1 DEF RemoveRead, TypeInv, TypeOK
  <2>. QED BY <2>1, <2>2
<1>2. CASE proc[p].at \in {"append", "rewrite", "write"} /\ ~RemoveRead(p)
  <2>1. \A q \in Processes \ {p} : proc[q].at # "rewrite"
    BY <1>2 DEF RewritesAlone
  <2>2. /\ proc'[p].at # "rewrite"
        /\ \A q \in Processes \ {p} : proc'[q] = proc[q]
    BY <1>2, Moves DEF Process, LogRead, LogAppend, Keep, Send, GiveUp, Acknowledged,
       RemoveRead, Truncate, Write, Kill
  <2>. QED BY <2>1, <2>2
<1>3. CASE proc[p].at \notin {"append", "rewrite", "write"} /\ ~RemoveRead(p)
  <2>1. ASSUME NEW e \in Events, LogRead(p, e)
        PROVE  CopyOfLog'
    BY <2>1 DEF LogRead, TypeInv, TypeOK
  <2>2. ASSUME NEW place \in {"wait", "remove"}, Goto(p, place), UNCHANGED log
        PROVE  CopyOfLog'
    BY <2>2, Moves
  <2>3. CASE Rest(p) /\ UNCHANGED log
    BY <2>3, Moves
  <2>. QED BY <1>3, <2>1, <2>2, <2>3
       DEF Process, LogAppend, Keep, Send, GiveUp, Acknowledged, Truncate, Write, Kill
<1>. QED BY <1>1, <1>2, <1>3

LEMMA TrailInvStep == TypeInv /\ RewritesAlone /\ TrailInv /\ [Next]_vars => TrailInv'
<1> SUFFICES ASSUME TypeInv, RewritesAlone, TrailInv, [Next]_vars
             PROVE  SentOnce' /\ CopyOfLog'
  BY KeepStep DEF TrailInv
<1>1. CASE UNCHANGED vars
  BY <1>1 DEF TrailInv, SentOnce, CopyOfLog, At, vars, server
<1>2. CASE RestartServer \/ \E e \in Events : Ingest(e)
  <2>1. UNCHANGED <<log, proc>>
    BY <1>2 DEF RestartServer, Ingest
  <2>. QED BY <1>2, <2>1, SentOnceServer DEF TrailInv, CopyOfLog, At
<1>3. ASSUME NEW p \in Processes, Process(p)
      PROVE  SentOnce' /\ CopyOfLog'
  BY <1>3, SentOnceProcess, CopyProcess DEF TrailInv
<1>. QED BY <1>1, <1>2, <1>3 DEF Next

\* The edge holds what is in the log, and what the one process that writes has
\* in its copy.
LEMMA Held ==
    ASSUME NEW p \in Processes, \A q \in Processes \ {p} : ~At(q, "write")
    PROVE  HeldAtEdge = (IdsOf(log) \cup IF At(p, "write") THEN IdsOf(proc[p].copy) ELSE {})
                            \ {Torn}
BY DEF HeldAtEdge

LEMMA HeldNext ==
    ASSUME NEW p \in Processes, \A q \in Processes \ {p} : ~At(q, "write")'
    PROVE  HeldAtEdge' = (IdsOf(log') \cup
                             IF proc'[p].at = "write" THEN IdsOf(proc'[p].copy) ELSE {})
                            \ {Torn}
BY DEF HeldAtEdge, At

\* A step of a process that neither touches the log nor begins or ends a write.
LEMMA HeldStill ==
    ASSUME UNCHANGED log,
           \A q \in Processes : /\ At(q, "write")' <=> At(q, "write")
                                /\ At(q, "write") => proc'[q].copy = proc[q].copy
    PROVE  HeldAtEdge' = HeldAtEdge
BY DEF HeldAtEdge

LEMMA TrailProcess ==
    ASSUME TypeInv, RewritesAlone, TrailInv, NEW p \in Processes, Process(p)
    PROVE  [Trail!Next]_(Trail!trail)
<1>0. /\ log \in Seq(Line) /\ logged \subseteq Events
      /\ \A q \in Processes : proc[q].copy \in Seq(Line)
  BY DEF TypeInv, TypeOK
<1>1. CASE LogAppend(p)
  <2>0. PICK e \in Events : e = proc[p].e
    BY <1>1 DEF LogAppend, At, TypeInv, Placed
  <2>1. /\ e \notin logged /\ logged' = logged \cup {e}
        /\ UNCHANGED <<events, ingested, cut>>
    BY <1>1, <2>0 DEF LogAppend, server, TrailInv, SentOnce
  <2>2. \A q \in Processes \ {p} : ~At(q, "write") /\ proc'[q] = proc[q]
    BY <1>1, Moves DEF LogAppend, At, RewritesAlone
  <2>3. At(p, "append") /\ proc'[p].at = "send"
    BY <1>1, Moves DEF LogAppend
  <2>4. IdsOf(log') = IdsOf(log) \cup {e}
    <3>1. [id |-> e, prev |-> proc[p].prev] \in Line
      BY DEF Line, TypeInv, TypeOK
    <3>. QED BY <1>0, <1>1, <2>0, <3>1, IdsOfAppend DEF LogAppend
  <2>5. HeldAtEdge = IdsOf(log) \ {Torn}
    BY <2>2, <2>3, Held DEF At
  <2>6. HeldAtEdge' = IdsOf(log') \ {Torn}
    BY <2>2, <2>3, HeldNext DEF At
  <2>7. HeldAtEdge' = HeldAtEdge \cup {e}
    BY <2>4, <2>5, <2>6, MarksAssumption
  <2>8. Trail!Record(e)
    BY <2>1, <2>7 DEF Trail!Record
  <2>. QED BY <2>8 DEF Trail!Next
<1>2. CASE Truncate(p)
  <2>0. PICK e \in Events : e = proc[p].e
    BY <1>2 DEF Truncate, At, TypeInv, Placed
  <2>1. /\ At(p, "rewrite") /\ log' = <<>> /\ IdsOf(log') = {}
        /\ UNCHANGED <<logged, events, ingested, cut>>
    BY <1>2, Bare DEF Truncate, server
  <2>2. \A q \in Processes \ {p} : ~At(q, "write") /\ proc'[q] = proc[q]
    BY <1>2, <2>1, Moves DEF Truncate, At, RewritesAlone
  <2>3. HeldAtEdge = IdsOf(log) \ {Torn}
    BY <2>1, <2>2, Held DEF At
  <2>4. IdsOf(proc[p].copy) = IdsOf(log) \ {e} /\ e \in ingested
    BY <2>0, <2>1 DEF TrailInv, CopyOfLog, KeepInv, RewriteKeeps, At
  <2>5. HeldAtEdge' = IdsOf(proc[p].copy) \ {Torn}
    <3>1. CASE proc[p].copy = <<>>
      <4>1. proc'[p].at = "idle"
        BY <1>2, <3>1, Moves DEF Truncate
      <4>. QED BY <2>1, <2>2, <3>1, <4>1, HeldNext, Bare DEF At
    <3>2. CASE proc[p].copy # <<>>
      <4>1. proc'[p].at = "write" /\ proc'[p].copy = proc[p].copy
        BY <1>2, <3>2, Moves DEF Truncate
      <4>. QED BY <2>1, <2>2, <4>1, HeldNext DEF At
    <3>. QED BY <3>1, <3>2
  <2>6. HeldAtEdge' = HeldAtEdge \ {e}
    BY <2>3, <2>4, <2>5
  <2>7. Trail!LetGo(e)
    BY <2>1, <2>4, <2>6 DEF Trail!LetGo
  <2>. QED BY <2>7 DEF Trail!Next
<1>3. CASE Write(p)
  <2>1. /\ At(p, "write") /\ log = <<>> /\ UNCHANGED <<logged, events, ingested, cut>>
        /\ proc'[p].at = "idle"
    BY <1>3, Moves DEF Write, server, TrailInv, KeepInv, RewriteKeeps
  <2>2. \A q \in Processes \ {p} : ~At(q, "write") /\ proc'[q] = proc[q]
    BY <1>3, <2>1, Moves DEF Write, At, RewritesAlone
  <2>3. IdsOf(log') = IdsOf(proc[p].copy)
    <3>1. PICK rest \in LeftOver(log) : log' = proc[p].copy \o rest
      BY <1>3 DEF Write
    <3>2. rest = <<>> /\ rest \in Seq(Line)
      BY <1>0, <2>1, LeftOverIs
    <3>. QED BY <1>0, <3>1, <3>2, IdsOfConcat, Bare
  <2>4. HeldAtEdge = IdsOf(proc[p].copy) \ {Torn}
    BY <2>1, <2>2, Held, Bare
  <2>5. HeldAtEdge' = IdsOf(log') \ {Torn}
    BY <2>1, <2>2, HeldNext DEF At
  <2>. QED BY <2>1, <2>3, <2>4, <2>5 DEF Trail!trail
<1>4. CASE Kill(p) /\ At(p, "write")
  <2> DEFINE S == IdsOf(proc[p].copy) \ {Torn}
  <2>1. /\ log' = log /\ log = <<>> /\ cut' = cut \cup S /\ proc'[p].at = "idle"
        /\ UNCHANGED <<logged, events, ingested>>
    BY <1>4, Moves DEF Kill, TrailInv, KeepInv, RewriteKeeps
  <2>2. \A q \in Processes \ {p} : ~At(q, "write") /\ proc'[q] = proc[q]
    BY <1>4, Moves DEF Kill, At, RewritesAlone
  <2>3. HeldAtEdge = S
    BY <1>4, <2>1, <2>2, Held, Bare
  <2>4. HeldAtEdge' = {}
    BY <2>1, <2>2, HeldNext, Bare DEF At
  <2>5. S \in SUBSET Events
    <3>1. IdsOf(proc[p].copy) \subseteq logged \cup {Torn}
      BY DEF TypeInv, Placed
    <3>. QED BY <1>0, <3>1
  <2>6. Trail!Spill(S)
    BY <2>1, <2>3, <2>4 DEF Trail!Spill
  <2>. QED BY <2>5, <2>6 DEF Trail!Next
<1>5. CASE \/ \E e \in Events : LogRead(p, e)
           \/ Keep(p) \/ Send(p) \/ GiveUp(p) \/ Acknowledged(p) \/ RemoveRead(p)
           \/ Kill(p) /\ ~At(p, "write")
  <2>1. UNCHANGED <<log, logged, events, ingested, cut>>
    BY <1>5 DEF LogRead, Keep, Send, GiveUp, Acknowledged, RemoveRead, Kill, server
  <2>2. ~At(p, "write")
    BY <1>5 DEF LogRead, Keep, Send, GiveUp, Acknowledged, RemoveRead, At
  <2>3. proc'[p].at # "write" /\ \A q \in Processes \ {p} : proc'[q] = proc[q]
    <3>1. CASE \E e \in Events : LogRead(p, e)
      BY <3>1 DEF LogRead, TypeInv, TypeOK
    <3>2. CASE RemoveRead(p)
      BY <3>2 DEF RemoveRead, TypeInv, TypeOK
    <3>. QED BY <1>5, <3>1, <3>2, Moves DEF Keep, Send, GiveUp, Acknowledged, Kill
  <2>4. HeldAtEdge' = HeldAtEdge
    BY <2>1, <2>2, <2>3, HeldStill DEF At
  <2>. QED BY <2>1, <2>4 DEF Trail!trail
<1>. QED BY <1>1, <1>2, <1>3, <1>4, <1>5 DEF Process

LEMMA TrailServer ==
    ASSUME TypeInv, TrailInv, RestartServer \/ \E e \in Events : Ingest(e)
    PROVE  Trail!Next
<1>1. HeldAtEdge' = HeldAtEdge
  BY HeldStill DEF RestartServer, Ingest, At
<1>2. CASE RestartServer
  <2>1. Trail!Forget
    BY <1>1, <1>2 DEF RestartServer, Trail!Forget
  <2>. QED BY <2>1 DEF Trail!Next
<1>3. ASSUME NEW e \in Events, Ingest(e)
      PROVE  Trail!Next
  <2>1. e \in sent /\ e \in logged /\ e \notin ingested
    BY <1>3 DEF Ingest, TrailInv, SentOnce, TypeInv, TypeOK
  <2>2. e \notin ToSet(events)
    <3>1. events \in Seq(ingested)
      BY DEF TypeInv, TypeOK
    <3>. QED BY <2>1, <3>1 DEF ToSet
  <2>3. Trail!Receive(e)
    BY <1>1, <1>3, <2>1, <2>2 DEF Ingest, Trail!Receive
  <2>. QED BY <2>3 DEF Trail!Next
<1>. QED BY <1>2, <1>3

LEMMA TrailInit == Init => TrailInv /\ Trail!Init
<1> SUFFICES ASSUME Init PROVE TrailInv /\ Trail!Init
  OBVIOUS
<1>1. TrailInv
  BY Bare DEF Init, TrailInv, KeepInv, RewriteKeeps, NothingLost, SentOnce, CopyOfLog, At
<1>2. HeldAtEdge = {}
  BY Bare DEF Init, HeldAtEdge, At
<1>. QED BY <1>1, <1>2 DEF Init, Trail!Init

\* As long as no process appends to the log while another one is removing its
\* entry from it, edge and control plane implement EvidenceTrail: evidence leaves
\* the edge for the centre or by a kill in a rewrite, and arrives once.
THEOREM EdgeKeepsTheTrail == Spec /\ []RewritesAlone => ImplementsTrail
<1>1. TypeInv /\ RewritesAlone /\ TrailInv /\ [Next]_vars => [Trail!Next]_(Trail!trail)
  <2> SUFFICES ASSUME TypeInv, RewritesAlone, TrailInv, [Next]_vars
               PROVE  [Trail!Next]_(Trail!trail)
    OBVIOUS
  <2>1. CASE UNCHANGED vars
    <3>1. HeldAtEdge' = HeldAtEdge
      BY <2>1, HeldStill DEF vars, At
    <3>. QED BY <2>1, <3>1 DEF vars, server, Trail!trail
  <2>. QED BY <2>1, TrailProcess, TrailServer DEF Next
<1>. QED BY <1>1, TrailInit, TrailInvStep, TypeHolds, PTL
     DEF Spec, Trail!Spec, ImplementsTrail

-----------------------------------------------------------------------------
(***************************************************************************)
(* The chain.                                                              *)
(***************************************************************************)

\* At most one process is between its decision and the end of its report.
OneAtATime ==
    \A p, q \in Processes : ~At(p, "idle") /\ ~At(q, "idle") => p = q

\* The busy process finds the log as it left it: it appends after the line whose
\* hash it read, and its own entry is the last one when it removes it.
Chained ==
    \A p \in Processes :
        /\ At(p, "append") => /\ proc[p].e \notin logged
                              /\ proc[p].prev = LastHash(log)
        /\ proc[p].at \in {"send", "wait", "remove"} => LastOnly(log, proc[p].e)
        /\ proc[p].at \in {"rewrite", "write"} => Verifies(proc[p].copy)
        /\ At(p, "write") => log = <<>>

ChainInv == Chained /\ LogVerifies

LEMMA ChainProcess ==
    ASSUME TypeInv, OneAtATime, ChainInv, NEW p \in Processes, Process(p)
    PROVE  ChainInv'
<1> USE DEF ChainInv, Chained, LogVerifies, At, server
<1>0. /\ proc \in [Processes -> [at : Places, e : Events \cup {NoEvent},
                               prev : Events \cup {Genesis}, copy : Seq(Line)]]
      /\ log \in Seq(Line)
  BY DEF TypeInv, TypeOK
<1>1. ASSUME NEW e \in Events, LogRead(p, e)
      PROVE  ChainInv'
  BY <1>0, <1>1 DEF LogRead
<1>2. CASE LogAppend(p)
  <2> DEFINE l == [id |-> proc[p].e, prev |-> proc[p].prev]
  <2>1. l \in Line /\ l.id \in Events /\ l.id # Torn
    BY <1>0, <1>2, MarksAssumption DEF LogAppend, Line, TypeInv, Placed
  <2>2. /\ At(p, "append") /\ log' = Append(log, l) /\ l.id \notin logged
        /\ l.prev = LastHash(log) /\ proc'[p].at = "send" /\ proc'[p].e = l.id
        /\ \A q \in Processes \ {p} : proc'[q] = proc[q]
    BY <1>0, <1>2 DEF LogAppend, Goto
  <2>3. \A q \in Processes \ {p} : proc[q].at = "idle"
    BY <2>2 DEF OneAtATime
  <2> HIDE DEF l
  <2>4. /\ Len(log) \in Nat /\ log' # <<>>
        /\ Len(log') = Len(log) + 1 /\ DOMAIN log' = 1..(Len(log) + 1)
        /\ log'[Len(log) + 1] = l
        /\ \A i \in 1..Len(log) : log'[i] = log[i]
    BY <1>0, <2>1, <2>2
  <2>5. LastOnly(log', proc'[p].e)
    <3>1. \A i \in 1..Len(log) : log[i].id # l.id
      BY <1>0, <2>1, <2>2 DEF TypeInv, Placed, IdsOf
    <3>. QED BY <2>2, <2>4, <3>1 DEF LastOnly
  <2>6. LogVerifies'
    <3> SUFFICES ASSUME NEW i \in 1..(Len(log) + 1)
                 PROVE  /\ log'[i].id # Torn
                        /\ \/ log'[i].prev = Genesis
                           \/ i > 1 /\ log'[i].prev = log'[i - 1].id
      BY <2>4 DEF Verifies
    <3>1. CASE i \in 1..Len(log)
      <4>1. i > 1 => i - 1 \in 1..Len(log)
        BY <2>4, <3>1
      <4>2. log'[i] = log[i] /\ (i > 1 => log'[i - 1] = log[i - 1])
        BY <2>4, <3>1, <4>1
      <4>3. /\ log[i].id # Torn
            /\ \/ log[i].prev = Genesis
               \/ i > 1 /\ log[i].prev = log[i - 1].id
        BY <1>0, <3>1 DEF Verifies
      <4>. QED BY <4>2, <4>3
    <3>2. CASE i = Len(log) + 1
      <4>1. l.prev = IF log = <<>> THEN Genesis ELSE log[Len(log)].id
        BY <1>0, <2>2, LastHashIs
      <4>2. log # <<>> => Len(log) \in 1..Len(log) /\ i > 1 /\ i - 1 = Len(log)
        BY <1>0, <3>2
      <4>. QED BY <2>1, <2>4, <3>2, <4>1, <4>2
    <3>. QED BY <2>4, <3>1, <3>2
  <2>. QED BY <2>2, <2>3, <2>5, <2>6
<1>3. CASE Keep(p)
  BY <1>0, <1>3, Bare DEF Keep, Rest
<1>4. CASE Send(p)
  BY <1>0, <1>4 DEF Send, Goto
<1>5. CASE GiveUp(p)
  BY <1>0, <1>5, Bare DEF GiveUp, Rest
<1>6. CASE Acknowledged(p)
  <2>1. CASE Goto(p, "remove")
    BY <1>0, <1>6, <2>1 DEF Acknowledged, Goto
  <2>2. CASE Rest(p)
    BY <1>0, <1>6, <2>2, Bare DEF Acknowledged, Rest
  <2>. QED BY <1>6, <2>1, <2>2 DEF Acknowledged
<1>7. CASE RemoveRead(p)
  <2> DEFINE n == Len(log) - 1
             front == SubSeq(log, 1, n)
  <2>1. /\ LastOnly(log, proc[p].e) /\ UNCHANGED <<log, logged>>
        /\ proc'[p].at = "rewrite" /\ proc'[p].copy = Remaining(log, proc[p].e)
        /\ \A q \in Processes \ {p} : proc'[q] = proc[q]
    BY <1>0, <1>7 DEF RemoveRead
  <2>2. proc'[p].copy = front
    BY <1>0, <2>1, RemainingKeeps
  <2>3. /\ Len(log) \in Nat /\ n \in 0..Len(log) /\ DOMAIN log = 1..Len(log)
        /\ DOMAIN front = 1..n /\ \A i \in 1..n : front[i] = log[i]
    BY <1>0, <2>1 DEF LastOnly
  <2>4. Verifies(front)
    <3> HIDE DEF n, front
    <3>1. \A i \in 1..n : i \in DOMAIN log /\ (i > 1 => i - 1 \in 1..n)
      BY <2>3
    <3>. QED BY <2>3, <3>1 DEF Verifies
  <2>. QED BY <2>1, <2>2, <2>4
<1>8. CASE Truncate(p)
  <2>1. /\ At(p, "rewrite") /\ log' = <<>> /\ UNCHANGED logged
        /\ \A q \in Processes \ {p} : proc'[q] = proc[q] /\ proc[q].at = "idle"
    BY <1>0, <1>8 DEF Truncate, Goto, Rest, OneAtATime
  <2>2. Verifies(<<>>)
    BY DEF Verifies
  <2>3. CASE proc'[p] = IdleProc
    BY <2>1, <2>2, <2>3, Bare
  <2>4. CASE proc'[p].at = "write" /\ proc'[p].copy = proc[p].copy
    BY <2>1, <2>2, <2>4
  <2>. QED BY <1>0, <1>8, <2>3, <2>4 DEF Truncate, Goto, Rest
<1>9. CASE Write(p)
  <2>1. /\ At(p, "write") /\ log = <<>> /\ proc'[p] = IdleProc
        /\ \A q \in Processes \ {p} : proc'[q] = proc[q] /\ proc[q].at = "idle"
    BY <1>0, <1>9 DEF Write, Rest, OneAtATime
  <2>2. log' = proc[p].copy
    <3>1. PICK rest \in LeftOver(log) : log' = proc[p].copy \o rest
      BY <1>9 DEF Write
    <3>2. rest = <<>>
      BY <1>0, <2>1, LeftOverIs
    <3>. QED BY <1>0, <3>1, <3>2
  <2>. QED BY <2>1, <2>2, Bare
<1>10. CASE Kill(p)
  BY <1>0, <1>10, Bare DEF Kill, Rest
<1>. QED BY <1>1, <1>2, <1>3, <1>4, <1>5, <1>6, <1>7, <1>8, <1>9, <1>10 DEF Process

LEMMA ChainStep == TypeInv /\ OneAtATime /\ ChainInv /\ [Next]_vars => ChainInv'
<1> SUFFICES ASSUME TypeInv, OneAtATime, ChainInv, [Next]_vars
             PROVE  ChainInv'
  OBVIOUS
<1> USE DEF ChainInv, Chained, LogVerifies, At
<1>1. CASE UNCHANGED vars
  BY <1>1 DEF vars, server
<1>2. CASE RestartServer
  BY <1>2 DEF RestartServer
<1>3. ASSUME NEW e \in Events, Ingest(e)
      PROVE  ChainInv'
  BY <1>3 DEF Ingest
<1>. QED BY <1>1, <1>2, <1>3, ChainProcess DEF Next

\* As long as no two processes log at the same time, bapedge verify-log finds
\* the chain of the local log unbroken, over acknowledgements, removals, kills
\* anywhere and restarts of the control plane (Log, RemoveEntry, VerifyLocalLog).
THEOREM LogStaysChained == Spec /\ []OneAtATime => []LogVerifies
<1>1. Init => ChainInv
  BY Bare DEF Init, ChainInv, Chained, LogVerifies, Verifies, At
<1>2. ChainInv => LogVerifies
  BY DEF ChainInv
<1>. QED BY <1>1, <1>2, ChainStep, TypeHolds, PTL DEF Spec

=============================================================================
