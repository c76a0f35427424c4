------------------------- MODULE TyreStints_proofs -------------------------
(***************************************************************************)
(* TyreStints for any numbers of laps, sets, changes and troubles.          *)
(*                                                                          *)
(* The properties say nothing while a change of tyres is pending, and just  *)
(* then the last stint may hold wear of other tyres.  Exactly therefore     *)
(* follows a change through all its phases, while nothing was lost: the     *)
(* last stint is of the tyres on the car (Settled), or, where the line      *)
(* comes before the garage, the change is not detected or waits for the     *)
(* damage (Normal); where it comes after the garage the car is stopped      *)
(* before the line, over it with the lap change not seen, or the lap change *)
(* is seen and the damage is waited for (Stopped, Crossed, Waits).  In each *)
(* phase it says what the rolling history of the wear begins with: the old  *)
(* tyres' measurement with the most wear, which is what the delayed change  *)
(* mends the last stint with.  Running relates the stints, the lap of the   *)
(* car and the snapshots; Synced says what is known when every packet has   *)
(* come since the last event of the game.                                   *)
(*                                                                          *)
(* Lemmas about the operators come first: sets of numbers and their order,  *)
(* stints and their wear, the rolling history, the books; then the types,   *)
(* one lemma per action, and then Exactly, one or more per action.          *)
(***************************************************************************)
EXTENDS TyreStints, WellFoundedInduction, SequenceTheorems, FiniteSetTheorems, TLAPS

Stint == [start : 1..MaxLap, index : Sets, wear : Seq(Wear)]
Measurement == [of : Sample, lap : 1..MaxLap]
Start == [lap |-> 1, set |-> 1, since |-> 1, over |-> FALSE]
New == [set |-> 1, age |-> 0]

\* TypeOK, with the sequences as such.
Typed ==
  /\ game \in Game /\ saved \in Seq(Game) /\ weird \in BOOLEAN
  /\ due \in SUBSET Kinds /\ pending \in SUBSET {"lap", "damage"}
  /\ cur \in Laps /\ sets \in 0..MaxSet /\ numLaps \in Laps
  /\ damage \in Sample \cup {Missing}
  /\ snaps \in [Laps -> Sample \cup {Missing}]
  /\ stints \in Seq(Stint) /\ recent \in Seq(Measurement) /\ exported \in Seq(Stint)
  /\ changes \in 0..MaxChanges /\ troubles \in Nat /\ exact \in BOOLEAN

\* What the wear, the set and the lap of a stint come from is there before there is one.
KnownIn(b) ==
  /\ b.damage = Missing => b.stints = <<>> /\ b.pending = {} /\ \A l \in Laps : b.snaps[l] = Missing
  /\ b.stints # <<>> \/ b.pending # {} => b.sets # 0
Known == KnownIn(Books) /\ (stints # <<>> \/ pending # {} => cur # 0)

\* What was received since the last event of the game is what the game says.
Synced ==
  /\ "lap" \notin due \/ game.over => cur = game.lap
  /\ "damage" \notin due \/ game.over => damage = Measured
  /\ "sets" \notin due \/ game.over => sets = game.set
  /\ "history" \notin due \/ game.over => numLaps = game.lap
  /\ game.over => game.lap = MaxLap

\* Before the first stint nothing has happened in the game.
Waiting ==
  /\ game = Start /\ cur \in {0, 1} /\ damage \in {Missing, New} /\ sets \in {0, 1}
  /\ pending = {} /\ exported = <<>>
  /\ snaps[0] \in {Missing, New} /\ \A l \in Laps \ {0} : snaps[l] = Missing
  /\ \A i \in DOMAIN recent : recent[i] = [of |-> New, lap |-> 1]
  /\ "damage" \notin due => recent # <<>>

\* The wear of a stint is that of one lap after the other, and the stints follow each other.
Chained(h) ==
  \A i \in DOMAIN h : /\ h[i].wear # <<>>
                      /\ \A j \in DOMAIN h[i].wear : h[i].wear[j].lap = h[i].start + j - 2
                      /\ i > 1 => h[i].start = h[i - 1].start + Len(h[i - 1].wear) - 1

\* The wear of a stint is that of its tyres, but for the last entry of the last one when mixed.
OwnWear(h, mixed) ==
  \A i \in DOMAIN h : \A j \in DOMAIN h[i].wear :
     h[i].wear[j].of.set = h[i].index \/ (mixed /\ i = Len(h) /\ j = Len(h[i].wear))

\* A lap was closed after the garage and before the change is handled.
Mixed == weird /\ (pending = {"damage"} \/ (exported # <<>> /\ "lap" \in pending))

Running ==
  /\ cur \in {game.lap - 1, game.lap} /\ cur >= 1
  /\ exported # <<>> => game.over
  /\ snaps[0] # Missing
  /\ \A l \in Laps : l >= cur /\ ~(l = MaxLap /\ exported # <<>>) => snaps[l] = Missing
  /\ Chained(stints) /\ OwnWear(stints, Mixed)
  /\ Len(LastStint(stints).wear) = cur - LastStint(stints).start + (IF exported = <<>> THEN 1 ELSE 2)

Index == LastStint(stints).index

\* The last stint is of the tyres on the car.
Settled ==
  /\ game.set = Index /\ sets = game.set /\ damage.set = game.set
  /\ pending = {} /\ game.since <= game.lap

\* Or it is not yet, where the line comes before the garage: the change is not detected, or waits
\* for the damage.
Normal ==
  \/ Settled
  \/ /\ game.set # Index /\ ~game.over /\ cur = game.lap /\ game.since <= game.lap
     /\ \/ sets = Index /\ "sets" \in due /\ pending = {}
        \/ sets = game.set /\ pending = {"damage"}

\* The rolling history of the wear is in the order of the laps, and what it has of this lap
\* is what the game measures.
Ordered(r, lap) == /\ \A i, j \in DOMAIN r : i < j => r[i].lap <= r[j].lap
                   /\ \A i \in DOMAIN r : r[i].lap <= lap
History ==
  /\ Ordered(recent, game.lap)
  /\ game.since <= game.lap => \A i \in DOMAIN recent : recent[i].lap = game.lap => recent[i].of = Measured
  /\ "damage" \notin due => \E i \in DOMAIN recent : recent[i].lap = game.lap

\* The first measurement of this lap is of these tyres and has the most wear of the lap.
LedAt(k, r, lap, set) ==
  /\ r[k].lap = lap /\ r[k].of.set = set
  /\ \A j \in 1..(k - 1) : r[j].lap < lap
  /\ \A j \in DOMAIN r : r[j].lap = lap => r[j].of.age <= r[k].of.age
Led(r, lap, set) == \E k \in DOMAIN r : LedAt(k, r, lap, set)

\* The first of all the measurements is, and none is older than the last lap.
Leads(r, lap, set) ==
  /\ r # <<>> /\ r[1].of.set = set
  /\ \A j \in DOMAIN r : r[j].of.age <= r[1].of.age /\ r[j].lap >= lap - 1

\* In the garage before the line: the change is not detected, or waits for the next lap.
Stopped ==
  /\ game.since = game.lap + 1 /\ cur = game.lap
  /\ \/ sets = Index /\ game.set # Index /\ "sets" \in due /\ pending = {} /\ ~game.over
     \/ "lap" \in pending
  /\ Led(recent, game.lap, Index)
  /\ "damage" \notin due => \A i \in DOMAIN recent : recent[i].lap = game.lap

\* Over the line after that, and the lap change is not seen.
Crossed ==
  /\ game.since = game.lap /\ cur = game.lap - 1 /\ ~game.over
  /\ "lap" \in pending /\ ("damage" \in pending => "damage" \in due)
  /\ sets = game.set /\ damage.set = game.set /\ Leads(recent, game.lap, Index)

\* It is seen, and the damage is waited for.
Waits ==
  /\ game.since = game.lap /\ cur = game.lap /\ ~game.over
  /\ pending = {"damage"} /\ "damage" \in due /\ sets = game.set /\ Leads(recent, game.lap, Index)
Weird == History /\ (Settled \/ Stopped \/ Crossed \/ Waits)

Covers(h) == /\ Chained(h) /\ \A i \in DOMAIN h : h[i].start <= EndLap(h, i, MaxLap)
             /\ Len(LastStint(h).wear) = MaxLap - LastStint(h).start + 2

Exactly == exact =>
  /\ Synced
  /\ IF stints = <<>> THEN Waiting ELSE Running /\ IF weird THEN Weird ELSE Normal
  /\ exported # <<>> => Covers(exported)

IInv == Known /\ Exactly

\* A set of natural numbers has a least one.
LEMMA Least ==
  ASSUME NEW B \in SUBSET Nat, B # {}
  PROVE  \E n \in B : \A m \in B : n <= m
<1> DEFINE R == OpToRel(<, Nat)
<1>1. IsWellFoundedOn(R, Nat)
  BY NatLessThanWellFounded
<1>2. \A m, n \in Nat : m < n => <<m, n>> \in R
  BY DEF OpToRel
<1> HIDE DEF R
<1>3. PICK n \in B : \A m \in B : ~ (<<m, n>> \in R)
  BY <1>1, WFMin
<1>4. ASSUME NEW m \in B PROVE n <= m
  <2>1. m \in Nat /\ n \in Nat /\ ~(m < n)
    BY <1>2, <1>3
  <2> QED BY <2>1
<1> QED BY <1>4

\* A bounded set of them has a greatest one: the least upper bound is in it.
LEMMA Greatest ==
  ASSUME NEW n \in Nat, NEW B \in SUBSET (1..n), B # {}
  PROVE  \E m \in B : \A x \in B : x <= m
<1> DEFINE U == {u \in Nat : \A x \in B : x <= u}
<1>1. n \in U
  OBVIOUS
<1>2. PICK u \in U : \A v \in U : u <= v
  <2>1. U \in SUBSET Nat /\ U # {}
    BY <1>1
  <2> HIDE DEF U
  <2> QED BY <2>1, Least
<1>3. u \in B
  <2> SUFFICES ASSUME u \notin B PROVE FALSE
    OBVIOUS
  <2>1. \A x \in B : x \in Nat /\ x >= 1 /\ x <= u /\ x # u
    BY <1>2
  <2>2. PICK x \in B : TRUE
    OBVIOUS
  <2>3. u \in Nat /\ u >= 1
    BY <1>2, <2>1, <2>2
  <2>4. u - 1 \in U
    BY <2>1, <2>3
  <2>5. u <= u - 1
    BY <1>2, <2>4
  <2> QED BY <2>3, <2>5
<1> QED BY <1>2, <1>3

\* What Front leaves out is the last element.
LEMMA FrontOf ==
  ASSUME NEW S, NEW s \in Seq(S), s # <<>>
  PROVE  /\ Front(s) \in Seq(S) /\ Len(Front(s)) = Len(s) - 1
         /\ \A i \in 1..(Len(s) - 1) : Front(s)[i] = s[i]
<1> DEFINE n == Len(s) - 1
<1>1. n \in Nat /\ Len(s) = n + 1
  BY EmptySeq
<1>2. \A i \in 1..n : s[i] \in S
  BY <1>1, ElementOfSeq
<1>3. Front(s) = SubSeq(s, 1, n)
  BY DEF Front
<1> HIDE DEF n
<1>4. /\ SubSeq(s, 1, n) \in Seq(S)
      /\ Len(SubSeq(s, 1, n)) = IF 1 <= n THEN n - 1 + 1 ELSE 0
      /\ \A i \in 1..(n - 1 + 1) : SubSeq(s, 1, n)[i] = s[1 + i - 1]
  BY <1>1, <1>2, SubSeqProperties
<1>5. Len(Front(s)) = n
  BY <1>1, <1>3, <1>4
<1>6. ASSUME NEW i \in 1..n PROVE Front(s)[i] = s[i]
  <2>1. 1 + i - 1 = i /\ i \in 1..(n - 1 + 1)
    BY <1>1
  <2> QED BY <1>3, <1>4, <2>1
<1>7. Len(s) - 1 = n
  BY <1>1
<1> QED BY <1>3, <1>4, <1>5, <1>6, <1>7

\* A new last entry of the wear of the last stint, with or without the one before it.
LEMMA WearSet ==
  ASSUME NEW h \in Seq(Stint), h # <<>>, NEW w \in Seq(Wear)
  PROVE  LET g == [h EXCEPT ![Len(h)].wear = w]
         IN /\ g \in Seq(Stint) /\ Len(g) = Len(h) /\ g # <<>>
            /\ \A i \in 1..(Len(h) - 1) : g[i] = h[i]
            /\ g[Len(h)].start = h[Len(h)].start /\ g[Len(h)].index = h[Len(h)].index
            /\ g[Len(h)].wear = w
<1> DEFINE n == Len(h)
           s == [h[n] EXCEPT !.wear = w]
           g == [h EXCEPT ![n] = s]
<1>1. n \in Nat \ {0} /\ n \in 1..n
  BY EmptySeq
<1>2. h[n] \in Stint
  BY <1>1, ElementOfSeq
<1>3. s \in Stint /\ s.start = h[n].start /\ s.index = h[n].index /\ s.wear = w
  BY <1>2 DEF Stint
<1> HIDE DEF s
<1>4. /\ g \in Seq(Stint) /\ Len(g) = n
      /\ \A j \in 1..n : g[j] = IF j = n THEN s ELSE h[j]
  BY <1>1, <1>3, ExceptSeq
<1>5. [h EXCEPT ![Len(h)].wear = w] = g
  BY DEF s
<1>6. g # <<>>
  BY <1>1, <1>4, EmptySeq
<1> QED BY <1>1, <1>3, <1>4, <1>5, <1>6

\* The last of some stints is one.
LEMMA LastIn ==
  ASSUME NEW h \in Seq(Stint), h # <<>>
  PROVE  LastStint(h) \in Stint /\ LastStint(h) = h[Len(h)] /\ Len(h) \in Nat \ {0}
<1>1. Len(h) \in Nat \ {0}
  BY EmptySeq
<1>2. h[Len(h)] \in Stint
  BY <1>1, ElementOfSeq
<1> QED BY <1>1, <1>2 DEF LastStint

\* A finite set of numbers can be put in order: its greatest number goes behind the others.
LEMMA OrderExists ==
  ASSUME NEW n \in Nat, NEW S \in SUBSET (1..n)
  PROVE  /\ IsFiniteSet(S) /\ Cardinality(S) \in Nat
         /\ \E f \in [1..Cardinality(S) -> S] : \A i, j \in DOMAIN f : i < j => f[i] < f[j]
<1> DEFINE Has(s) == \E f \in [1..Cardinality(s) -> s] : \A i, j \in DOMAIN f : i < j => f[i] < f[j]
           Bad == {c \in Nat : \E s \in SUBSET (1..n) : Cardinality(s) = c /\ ~Has(s)}
<1>1. ASSUME NEW s \in SUBSET (1..n) PROVE IsFiniteSet(s) /\ Cardinality(s) \in Nat
  <2>1. IsFiniteSet(1..n)
    BY FS_Interval
  <2>2. IsFiniteSet(s)
    BY <2>1, FS_Subset
  <2> QED BY <2>2, FS_CardinalityType
<1>2. Bad = {}
  <2> SUFFICES ASSUME Bad # {} PROVE FALSE
    OBVIOUS
  <2>1. PICK c \in Bad : \A m \in Bad : c <= m
    BY Least
  <2>2. PICK s \in SUBSET (1..n) : Cardinality(s) = c /\ ~Has(s)
    OBVIOUS
  <2>3. s # {}
    <3> SUFFICES ASSUME s = {} PROVE Has(s)
      BY <2>2
    <3>1. Cardinality(s) = 0
      BY FS_EmptySet
    <3> DEFINE f == [i \in 1..0 |-> i]
    <3>2. f \in [1..Cardinality(s) -> s] /\ \A i, j \in DOMAIN f : i < j => f[i] < f[j]
      BY <3>1
    <3> QED BY <3>2
  <2>4. PICK m \in s : \A x \in s : x <= m
    BY <2>3, Greatest
  <2> DEFINE t == s \ {m}
  <2>5. t \in SUBSET (1..n) /\ Cardinality(t) = c - 1 /\ c - 1 \in Nat
    <3>1. Cardinality(t) = Cardinality(s) - 1
      BY <1>1, FS_RemoveElement
    <3>2. t \in SUBSET (1..n)
      OBVIOUS
    <3>3. Cardinality(t) \in Nat
      BY <1>1, <3>2
    <3> QED BY <2>2, <3>1, <3>2, <3>3
  <2> HIDE DEF Has
  <2>6. c \in Nat /\ c - 1 \notin Bad
    <3>1. c \in Nat
      OBVIOUS
    <3> HIDE DEF Bad
    <3> QED BY <2>1, <2>5, <3>1
  <2>7. Has(t)
    BY <2>5, <2>6
  <2>8. PICK g \in [1..(c - 1) -> t] : \A i, j \in DOMAIN g : i < j => g[i] < g[j]
    BY <2>5, <2>7 DEF Has
  <2> DEFINE f == [i \in 1..c |-> IF i = c THEN m ELSE g[i]]
  <2>9. ASSUME NEW i \in 1..c, i # c PROVE i \in 1..(c - 1) /\ f[i] = g[i] /\ g[i] \in t
    BY <2>6, <2>9, <2>8
  <2>10. f \in [1..c -> s]
    BY <2>9
  <2>11. ASSUME NEW i \in 1..c, NEW j \in 1..c, i < j PROVE f[i] < f[j]
    <3>1. i # c /\ i \in 1..(c - 1) /\ f[i] = g[i] /\ g[i] \in t
      BY <2>6, <2>9, <2>11
    <3>2. CASE j = c
      <4>1. f[j] = m
        BY <3>2
      <4>2. g[i] # m /\ g[i] \in s /\ \A x \in s : x \in Nat
        BY <3>1
      <4>3. g[i] <= m /\ g[i] \in Nat /\ m \in Nat
        BY <2>4, <4>2
      <4> QED BY <3>1, <4>1, <4>2, <4>3
    <3>3. CASE j # c
      BY <2>8, <2>9, <2>11, <3>1, <3>3
    <3> QED BY <3>2, <3>3
  <2>12. \A i, j \in DOMAIN f : i < j => f[i] < f[j]
    BY <2>11
  <2>13. Has(s)
    <3> HIDE DEF f
    <3> QED BY <2>2, <2>10, <2>12 DEF Has
  <2> QED BY <2>2, <2>13
<1>3. Has(S)
  BY <1>1, <1>2
<1> QED BY <1>1, <1>3

\* InOrder names every number of the set once, the smaller one first.
LEMMA InOrderIs ==
  ASSUME NEW n \in Nat, NEW S \in SUBSET (1..n)
  PROVE  /\ Cardinality(S) \in Nat /\ DOMAIN InOrder(S) = 1..Cardinality(S)
         /\ \A k \in DOMAIN InOrder(S) : InOrder(S)[k] \in S
         /\ \A i, j \in DOMAIN InOrder(S) : i < j => InOrder(S)[i] < InOrder(S)[j]
         /\ \A x \in S : \E k \in DOMAIN InOrder(S) : InOrder(S)[k] = x
<1> DEFINE c == Cardinality(S)
           f == InOrder(S)
<1>1. IsFiniteSet(S) /\ c \in Nat
  BY OrderExists
<1>2. f \in [1..c -> S] /\ \A i, j \in DOMAIN f : i < j => f[i] < f[j]
  BY OrderExists DEF InOrder
<1> HIDE DEF f
<1>3. ASSUME NEW i \in 1..c, NEW j \in 1..c, f[i] = f[j] PROVE i = j
  <2>1. f[i] \in Nat /\ f[j] \in Nat
    <3>1. f[i] \in S /\ f[j] \in S
      BY <1>2
    <3>2. \A x \in S : x \in Nat
      OBVIOUS
    <3> QED BY <3>1, <3>2
  <2>2. i \in Nat /\ j \in Nat /\ ~(f[i] < f[j]) /\ ~(f[j] < f[i])
    BY <1>3, <2>1
  <2>3. ~(i < j) /\ ~(j < i)
    BY <1>2, <2>2
  <2> QED BY <2>2, <2>3
<1>4. f \in Injection(1..c, S)
  BY <1>2, <1>3 DEF Injection, IsInjective
<1>5. Cardinality(1..c) = c
  BY <1>1, FS_Interval
<1>6. f \in Surjection(1..c, S)
  BY <1>1, <1>4, <1>5, FS_Injection
<1>7. \A x \in S : \E k \in 1..c : f[k] = x
  BY <1>6 DEF Surjection
<1>8. DOMAIN f = 1..c /\ \A k \in 1..c : f[k] \in S
  BY <1>2
<1>9. f = InOrder(S)
  BY DEF f
<1> QED BY <1>1, <1>2, <1>7, <1>8, <1>9

\* The stints that have a lap, in their order, are what is left after writing them out.
LEMMA PrunedKeeps ==
  ASSUME NEW h \in Seq(Stint), NEW final \in Nat
  PROVE  LET g == Pruned(h, final)
         IN /\ g \in Seq(Stint)
            /\ \E p \in [1..Len(g) -> 1..Len(h)] :
                 /\ \A k \in 1..Len(g) : g[k] = h[p[k]] /\ h[p[k]].start <= EndLap(h, p[k], final)
                 /\ \A i, j \in 1..Len(g) : i < j => p[i] < p[j]
                 /\ \A x \in 1..Len(h) : h[x].start <= EndLap(h, x, final)
                                         => \E k \in 1..Len(g) : p[k] = x
<1> DEFINE K == {i \in DOMAIN h : h[i].start <= EndLap(h, i, final)}
           p == InOrder(K)
           c == Cardinality(K)
           g == [k \in 1..c |-> h[p[k]]]
<1>1. Len(h) \in Nat /\ DOMAIN h = 1..Len(h) /\ \A i \in 1..Len(h) : h[i] \in Stint
  BY LenProperties, ElementOfSeq
<1>2. K \in SUBSET (1..Len(h))
  BY <1>1
<1>3. /\ c \in Nat /\ DOMAIN p = 1..c
      /\ \A k \in 1..c : p[k] \in K
      /\ \A i, j \in 1..c : i < j => p[i] < p[j]
      /\ \A x \in K : \E k \in 1..c : p[k] = x
  <2> HIDE DEF K
  <2>1. /\ c \in Nat /\ DOMAIN p = 1..c
        /\ \A k \in DOMAIN p : p[k] \in K
        /\ \A i, j \in DOMAIN p : i < j => p[i] < p[j]
        /\ \A x \in K : \E k \in DOMAIN p : p[k] = x
    BY <1>1, <1>2, InOrderIs
  <2> HIDE DEF p, c
  <2> QED BY <2>1
<1>4. Pruned(h, final) = g
  BY <1>3 DEF Pruned
<1>5. \A k \in 1..c : p[k] \in 1..Len(h) /\ h[p[k]] \in Stint /\ h[p[k]].start <= EndLap(h, p[k], final)
  BY <1>1, <1>3
<1> DEFINE q == [k \in 1..c |-> p[k]]
<1>6. q \in [1..c -> 1..Len(h)] /\ \A k \in 1..c : q[k] = p[k]
  BY <1>5
<1> HIDE DEF p, c, q
<1>7. g \in Seq(Stint) /\ Len(g) = c /\ \A k \in 1..c : g[k] = h[p[k]]
  BY <1>3, <1>5
<1>8. \A x \in 1..Len(h) : h[x].start <= EndLap(h, x, final) => x \in K
  BY <1>1
<1> HIDE DEF K, g
<1>9. /\ \A k \in 1..Len(g) : g[k] = h[q[k]] /\ h[q[k]].start <= EndLap(h, q[k], final)
      /\ \A i, j \in 1..Len(g) : i < j => q[i] < q[j]
      /\ \A x \in 1..Len(h) : h[x].start <= EndLap(h, x, final) => \E k \in 1..Len(g) : q[k] = x
  BY <1>3, <1>5, <1>6, <1>7, <1>8
<1>10. q \in [1..Len(g) -> 1..Len(h)]
  BY <1>6, <1>7
<1> QED BY <1>4, <1>7, <1>9, <1>10

\* A stint begins no earlier than the one before it.
LEMMA ChainedStarts ==
  ASSUME NEW h \in Seq(Stint), Chained(h), NEW i \in 1..Len(h), i + 1 <= Len(h)
  PROVE  /\ h[i + 1].start = h[i].start + Len(h[i].wear) - 1
         /\ h[i].start <= h[i + 1].start /\ h[i].start \in Nat /\ h[i + 1].start \in Nat
<1>1. i \in Nat /\ i + 1 \in 1..Len(h) /\ i + 1 > 1 /\ (i + 1) - 1 = i /\ DOMAIN h = 1..Len(h)
  BY LenProperties
<1>2. h[i] \in Stint /\ h[i + 1] \in Stint
  BY <1>1, ElementOfSeq
<1>3. h[i].start \in Nat /\ h[i + 1].start \in Nat /\ h[i].wear \in Seq(Wear)
  BY <1>2, BoundsAssumption DEF Stint
<1>4. h[i].wear # <<>> /\ h[i + 1].start = h[i].start + Len(h[i].wear) - 1
  BY <1>1 DEF Chained
<1>5. Len(h[i].wear) \in Nat \ {0}
  BY <1>3, <1>4, EmptySeq
<1> DEFINE l == Len(h[i].wear)
<1>6. l \in Nat \ {0} /\ h[i + 1].start = h[i].start + l - 1
  BY <1>4, <1>5
<1> HIDE DEF l
<1>7. h[i].start <= h[i + 1].start
  BY <1>3, <1>6
<1> QED BY <1>3, <1>4, <1>7

\* Stints that follow each other still do when those without a lap are taken out, and the last
\* one is still the last.
LEMMA PrunedChained ==
  ASSUME NEW h \in Seq(Stint), h # <<>>, Chained(h), NEW final \in Nat, LastStint(h).start <= final
  PROVE  LET g == Pruned(h, final)
         IN /\ g \in Seq(Stint) /\ g # <<>> /\ Chained(g) /\ LastStint(g) = LastStint(h)
            /\ \A i \in DOMAIN g : g[i].start <= EndLap(g, i, final)
            /\ \A mixed : OwnWear(h, mixed) => OwnWear(g, mixed)
<1> DEFINE n == Len(h)
           g == Pruned(h, final)
           c == Len(g)
<1>1. /\ n \in Nat \ {0} /\ DOMAIN h = 1..n /\ LastStint(h) = h[n]
      /\ \A i \in 1..n : h[i] \in Stint /\ h[i].start \in Nat
  <2>1. \A i \in 1..n : h[i] \in Stint
    BY ElementOfSeq
  <2>2. \A s \in Stint : s.start \in Nat
    BY BoundsAssumption DEF Stint
  <2> QED BY <2>1, <2>2, LastIn, LenProperties
<1>2. g \in Seq(Stint)
  BY PrunedKeeps
<1>3. PICK p \in [1..c -> 1..n] :
         /\ \A k \in 1..c : g[k] = h[p[k]] /\ h[p[k]].start <= EndLap(h, p[k], final)
         /\ \A i, j \in 1..c : i < j => p[i] < p[j]
         /\ \A x \in 1..n : h[x].start <= EndLap(h, x, final) => \E k \in 1..c : p[k] = x
  BY PrunedKeeps
<1>4. c \in Nat /\ DOMAIN g = 1..c
  BY <1>2, LenProperties
<1> HIDE DEF g, c
<1>5. \A k \in 1..c : p[k] \in 1..n /\ p[k] \in Nat
  BY <1>1, <1>3
<1>6. h[n].start <= EndLap(h, n, final)
  BY <1>1 DEF EndLap
<1>7. c >= 1 /\ c \in 1..c /\ p[c] = n
  <2>1. PICK k \in 1..c : p[k] = n
    BY <1>1, <1>3, <1>6
  <2>2. k = c
    <3> SUFFICES ASSUME k < c PROVE FALSE
      BY <1>4
    <3>1. c \in 1..c
      BY <1>4
    <3>2. p[k] < p[c] /\ p[c] \in 1..n
      BY <1>3, <1>5, <3>1
    <3> QED BY <1>1, <2>1, <3>2
  <2> QED BY <1>4, <2>1, <2>2
<1>8. g # <<>> /\ LastStint(g) = h[n]
  <2>1. Len(g) >= 1
    BY <1>7 DEF c
  <2>2. g # <<>>
    BY <2>1
  <2>3. g[c] = h[n]
    BY <1>3, <1>7
  <2> QED BY <2>2, <2>3 DEF LastStint, c
\* The next stint kept begins with the next stint there was.
<1>9. ASSUME NEW k \in 1..c, k + 1 <= c
      PROVE  /\ k + 1 \in 1..c /\ p[k] + 1 \in 1..n
             /\ h[p[k + 1]].start = h[p[k] + 1].start
  <2> DEFINE a == p[k]
             b == p[k + 1]
  <2>1. k \in Nat /\ k + 1 \in 1..c /\ k < k + 1
    BY <1>4, <1>9
  <2>2. a \in 1..n /\ b \in 1..n /\ a < b /\ a \in Nat /\ b \in Nat
    BY <1>3, <1>5, <2>1
  <2>3. a + 1 \in 1..n
    BY <1>1, <2>2
  <2>4. ASSUME NEW x \in 1..n, a < x, x < b PROVE ~(h[x].start <= EndLap(h, x, final))
    <3> SUFFICES ASSUME h[x].start <= EndLap(h, x, final) PROVE FALSE
      OBVIOUS
    <3>1. PICK y \in 1..c : p[y] = x
      BY <1>3
    <3>2. y \in Nat /\ (y < k \/ y = k \/ y = k + 1 \/ k + 1 < y)
      BY <2>1
    <3>3. p[y] < a \/ p[y] = a \/ p[y] = b \/ b < p[y]
      BY <1>3, <2>1, <3>2
    <3> QED BY <1>1, <2>2, <2>4, <3>1, <3>3
  <2> HIDE DEF a, b
  <2>5. ASSUME NEW x \in 1..n, a < x, x < b
        PROVE  x + 1 \in 1..n /\ h[x].start = h[x + 1].start
    <3>1. x \in Nat /\ x + 1 \in 1..n /\ x < n /\ x + 1 <= n
      BY <1>1, <2>2, <2>5
    <3>2. EndLap(h, x, final) = h[x + 1].start - 1
      BY <3>1 DEF EndLap
    <3>3. h[x].start <= h[x + 1].start /\ h[x].start \in Nat /\ h[x + 1].start \in Nat
      BY <3>1, ChainedStarts
    <3>4. ~(h[x].start <= h[x + 1].start - 1)
      BY <2>4, <2>5, <3>2
    <3> QED BY <3>1, <3>3, <3>4
  <2> DEFINE Bad == {x \in Nat : a < x /\ x <= b /\ h[x].start # h[a + 1].start}
  <2>6. Bad = {}
    <3> SUFFICES ASSUME Bad # {} PROVE FALSE
      OBVIOUS
    <3>1. PICK x \in Bad : \A y \in Bad : x <= y
      BY Least
    <3>2. x \in Nat /\ a < x /\ x <= b /\ h[x].start # h[a + 1].start
      OBVIOUS
    <3>3. x # a + 1
      BY <3>2
    <3>4. x - 1 \in Nat /\ a < x - 1 /\ x - 1 < b /\ x - 1 \in 1..n /\ (x - 1) + 1 = x
      BY <1>1, <2>2, <3>2, <3>3
    <3>5. h[x - 1].start = h[x].start
      BY <2>5, <3>4
    <3>6. x - 1 \in Bad
      <4> DEFINE y == x - 1
      <4>1. y \in Nat /\ a < y /\ y <= b /\ h[y].start # h[a + 1].start
        BY <2>2, <3>2, <3>4, <3>5
      <4> HIDE DEF y
      <4>2. y \in Bad
        BY <4>1
      <4> QED BY <4>2 DEF y
    <3>7. x <= x - 1
      BY <3>1, <3>6
    <3> QED BY <3>2, <3>7
  <2>7. h[b].start = h[a + 1].start
    BY <2>2, <2>6
  <2> QED BY <2>1, <2>3, <2>7 DEF a, b
<1>10. ASSUME NEW k \in 1..c, k + 1 <= c
       PROVE  /\ g[k + 1].start = g[k].start + Len(g[k].wear) - 1
              /\ g[k].start <= g[k + 1].start - 1
  <2>1. /\ k + 1 \in 1..c /\ p[k] + 1 \in 1..n /\ h[p[k + 1]].start = h[p[k] + 1].start
        /\ p[k] \in 1..n
    BY <1>5, <1>9, <1>10
  <2>2. g[k] = h[p[k]] /\ g[k + 1] = h[p[k + 1]] /\ h[p[k]].start <= EndLap(h, p[k], final)
    BY <1>3, <2>1
  <2>3. p[k] + 1 <= n /\ p[k] < n
    BY <1>1, <2>1
  <2>4. h[p[k] + 1].start = h[p[k]].start + Len(h[p[k]].wear) - 1
    BY <2>1, <2>3, ChainedStarts
  <2>5. EndLap(h, p[k], final) = h[p[k] + 1].start - 1
    BY <2>3 DEF EndLap
  <2>6. g[k + 1].start = h[p[k] + 1].start
    BY <2>1, <2>2
  <2> QED BY <2>2, <2>4, <2>5, <2>6
<1>11. Chained(g)
  <2>1. ASSUME NEW k \in 1..c
        PROVE  /\ g[k].wear # <<>>
               /\ \A j \in DOMAIN g[k].wear : g[k].wear[j].lap = g[k].start + j - 2
    BY <1>1, <1>3, <1>5 DEF Chained
  <2>2. ASSUME NEW k \in 1..c, k > 1
        PROVE  g[k].start = g[k - 1].start + Len(g[k - 1].wear) - 1
    <3>1. k - 1 \in 1..c /\ (k - 1) + 1 <= c /\ (k - 1) + 1 = k
      BY <1>4, <2>2
    <3> DEFINE m == k - 1
    <3>2. m \in 1..c /\ m + 1 <= c /\ m + 1 = k
      BY <3>1
    <3> HIDE DEF m
    <3>3. g[m + 1].start = g[m].start + Len(g[m].wear) - 1
      BY <1>10, <3>2
    <3>4. g[k].start = g[m].start + Len(g[m].wear) - 1
      BY <3>2, <3>3
    <3> QED BY <3>4 DEF m
  <2> QED BY <1>4, <2>1, <2>2 DEF Chained
<1>12. ASSUME NEW k \in 1..c PROVE g[k].start <= EndLap(g, k, final)
  <2>1. CASE k = c
    <3>1. EndLap(g, k, final) = final
      BY <1>4, <2>1 DEF EndLap, c
    <3>2. g[k] = h[n]
      BY <1>3, <1>7, <2>1
    <3> QED BY <1>1, <3>1, <3>2
  <2>2. CASE k # c
    <3>1. k < c /\ k + 1 <= c
      BY <1>4, <2>2
    <3>2. EndLap(g, k, final) = g[k + 1].start - 1
      BY <3>1 DEF EndLap, c
    <3> QED BY <1>10, <3>1, <3>2
  <2> QED BY <2>1, <2>2
<1>13. ASSUME NEW mixed, OwnWear(h, mixed) PROVE OwnWear(g, mixed)
  <2>1. ASSUME NEW k \in 1..c, NEW j \in DOMAIN g[k].wear
        PROVE  g[k].wear[j].of.set = g[k].index \/ (mixed /\ k = c /\ j = Len(g[k].wear))
    <3>1. p[k] \in 1..n /\ g[k] = h[p[k]]
      BY <1>3, <1>5
    <3>2. h[p[k]].wear[j].of.set = h[p[k]].index \/ (mixed /\ p[k] = n /\ j = Len(h[p[k]].wear))
      BY <1>1, <1>13, <2>1, <3>1 DEF OwnWear
    <3>3. ASSUME p[k] = n PROVE k = c
      <4> SUFFICES ASSUME k # c PROVE FALSE
        OBVIOUS
      <4>1. k < c
        BY <1>4
      <4>2. p[k] < p[c]
        BY <1>3, <1>7, <4>1
      <4> QED BY <1>1, <1>7, <3>3, <4>2
    <3> QED BY <3>1, <3>2, <3>3
  <2> QED BY <1>4, <2>1 DEF OwnWear, c
<1> QED BY <1>1, <1>2, <1>4, <1>8, <1>11, <1>12, <1>13 DEF g

\* Another wear of the last stint.
Rewear(h, w) == [h EXCEPT ![Len(h)].wear = w]

\* The last stint has that wear, and is else what it was.
LEMMA LastWear ==
  ASSUME NEW h \in Seq(Stint), h # <<>>, NEW w \in Seq(Wear),
         NEW g, g = Rewear(h, w)
  PROVE  /\ g \in Seq(Stint) /\ g # <<>>
         /\ LastStint(g).start = LastStint(h).start /\ LastStint(g).index = LastStint(h).index
         /\ LastStint(g).wear = w
<1> DEFINE n == Len(h)
<1>1. /\ g \in Seq(Stint) /\ Len(g) = n /\ g # <<>>
      /\ \A i \in 1..(n - 1) : g[i] = h[i]
      /\ g[n].start = h[n].start /\ g[n].index = h[n].index /\ g[n].wear = w
  BY WearSet DEF Rewear
<1>2. n \in Nat \ {0} /\ DOMAIN h = 1..n /\ LastStint(h) = h[n]
  BY LastIn, LenProperties
<1>3. DOMAIN g = 1..n
  BY <1>1, LenProperties
<1>4. LastStint(g) = g[n]
  BY <1>1 DEF LastStint
<1> QED BY <1>1, <1>2, <1>4

\* It follows the stints before when it is of one lap after the other.
LEMMA LastWearChained ==
  ASSUME NEW h \in Seq(Stint), h # <<>>, NEW w \in Seq(Wear),
         NEW g, g = Rewear(h, w),
         Chained(h), w # <<>>, \A j \in DOMAIN w : w[j].lap = LastStint(h).start + j - 2
  PROVE  Chained(g)
<1> DEFINE n == Len(h)
<1>1. /\ g \in Seq(Stint) /\ Len(g) = n /\ g # <<>>
      /\ \A i \in 1..(n - 1) : g[i] = h[i]
      /\ g[n].start = h[n].start /\ g[n].index = h[n].index /\ g[n].wear = w
  BY WearSet DEF Rewear
<1>2. n \in Nat \ {0} /\ DOMAIN h = 1..n /\ LastStint(h) = h[n]
  BY LastIn, LenProperties
<1>3. DOMAIN g = 1..n
  BY <1>1, LenProperties
<1> HIDE DEF n
<1>4. Chained(g)
  <2>1. ASSUME NEW i \in 1..n
        PROVE  /\ g[i].wear # <<>>
               /\ \A j \in DOMAIN g[i].wear : g[i].wear[j].lap = g[i].start + j - 2
               /\ g[i].start = h[i].start
    <3>1. CASE i = n
      BY <1>1, <1>2, <3>1
    <3>2. CASE i # n
      <4>1. i \in 1..(n - 1)
        BY <1>2, <3>2
      <4> QED BY <1>1, <1>2, <4>1 DEF Chained
    <3> QED BY <3>1, <3>2
  <2>2. ASSUME NEW i \in 1..n, i > 1 PROVE g[i].start = g[i - 1].start + Len(g[i - 1].wear) - 1
    <3> DEFINE j == i - 1
    <3>1. j \in 1..(n - 1)
      BY <1>2, <2>2
    <3>2. h[i].start = h[j].start + Len(h[j].wear) - 1
      BY <1>2, <2>2 DEF Chained
    <3> HIDE DEF j
    <3>3. g[j] = h[j] /\ g[i].start = h[i].start
      BY <1>1, <2>1, <3>1
    <3>4. g[i].start = g[j].start + Len(g[j].wear) - 1
      BY <3>2, <3>3
    <3> QED BY <3>4 DEF j
  <2> QED BY <1>3, <2>1, <2>2 DEF Chained
<1> QED BY <1>4

\* It is of the stint's own tyres, but for its last entry perhaps.
LEMMA LastWearOwn ==
  ASSUME NEW h \in Seq(Stint), h # <<>>, NEW w \in Seq(Wear), NEW g, g = Rewear(h, w),
         OwnWear(h, TRUE)
  PROVE  /\ (\A j \in DOMAIN w : w[j].of.set = LastStint(h).index) => OwnWear(g, FALSE)
         /\ (\A j \in DOMAIN w : w[j].of.set = LastStint(h).index \/ j = Len(w)) => OwnWear(g, TRUE)
<1> DEFINE n == Len(h)
<1>1. /\ g \in Seq(Stint) /\ Len(g) = n
      /\ \A i \in 1..(n - 1) : g[i] = h[i]
      /\ g[n].index = h[n].index /\ g[n].wear = w
  BY WearSet DEF Rewear
<1>2. n \in Nat \ {0} /\ DOMAIN h = 1..n /\ LastStint(h) = h[n]
  BY LastIn, LenProperties
<1>3. DOMAIN g = 1..n
  BY <1>1, LenProperties
<1> HIDE DEF n
<1>4. \A i \in 1..n : i = n \/ i \in 1..(n - 1)
  BY <1>2
<1>5. ASSUME NEW i \in 1..(n - 1), NEW j \in DOMAIN g[i].wear PROVE g[i].wear[j].of.set = g[i].index
  <2>1. i \in 1..n /\ i # n /\ g[i] = h[i]
    BY <1>1, <1>2
  <2>2. n = Len(h)
    BY DEF n
  <2> QED BY <1>2, <1>5, <2>1, <2>2 DEF OwnWear
<1>6. ASSUME \A j \in DOMAIN w : w[j].of.set = LastStint(h).index PROVE OwnWear(g, FALSE)
  <2>1. ASSUME NEW i \in 1..n, NEW j \in DOMAIN g[i].wear PROVE g[i].wear[j].of.set = g[i].index
    BY <1>1, <1>2, <1>4, <1>5, <1>6, <2>1
  <2> QED BY <1>3, <2>1 DEF OwnWear
<1>7. ASSUME \A j \in DOMAIN w : w[j].of.set = LastStint(h).index \/ j = Len(w) PROVE OwnWear(g, TRUE)
  <2>1. ASSUME NEW i \in 1..n, NEW j \in DOMAIN g[i].wear
        PROVE  g[i].wear[j].of.set = g[i].index \/ (i = n /\ j = Len(g[i].wear))
    BY <1>1, <1>2, <1>4, <1>5, <1>7, <2>1
  <2> QED BY <1>1, <1>3, <2>1 DEF OwnWear
<1> QED BY <1>6, <1>7

\* Wear of the own tyres only is fine either way.
LEMMA OwnAny ==
  ASSUME NEW h, NEW mixed, OwnWear(h, mixed), mixed \in BOOLEAN
  PROVE  OwnWear(h, TRUE) /\ (~mixed => OwnWear(h, FALSE))
BY DEF OwnWear

\* One more lap of the last stint, on its tyres or not.
LEMMA MoreWear ==
  ASSUME NEW h \in Seq(Stint), h # <<>>, NEW w \in Wear, NEW g, g = WithWear(h, w)
  PROVE  /\ g \in Seq(Stint) /\ g # <<>>
         /\ LastStint(g).start = LastStint(h).start /\ LastStint(g).index = LastStint(h).index
         /\ Len(LastStint(g).wear) = Len(LastStint(h).wear) + 1
         /\ Len(LastStint(h).wear) \in Nat
         /\ LastStint(g).wear = Append(LastStint(h).wear, w)
         /\ Chained(h) /\ w.lap = LastStint(h).start + Len(LastStint(h).wear) - 1 => Chained(g)
         /\ OwnWear(h, FALSE) => OwnWear(g, TRUE)
         /\ OwnWear(h, FALSE) /\ w.of.set = LastStint(h).index => OwnWear(g, FALSE)
<1> DEFINE n == Len(h)
           v == LastStint(h).wear
           u == Append(v, w)
<1>1. n \in Nat \ {0} /\ LastStint(h) = h[n] /\ LastStint(h) \in Stint /\ DOMAIN h = 1..n
  BY LastIn, LenProperties
<1>2. v \in Seq(Wear) /\ Len(v) \in Nat /\ DOMAIN v = 1..Len(v)
  BY <1>1, LenProperties DEF Stint
<1> HIDE DEF v
<1>3. /\ u \in Seq(Wear) /\ u # <<>> /\ Len(u) = Len(v) + 1
      /\ DOMAIN u = 1..(Len(v) + 1)
      /\ \A j \in 1..Len(v) : u[j] = v[j]
      /\ u[Len(v) + 1] = w
  BY <1>2, AppendProperties, LenProperties
<1> HIDE DEF u
<1>4. g = Rewear(h, u)
  BY <1>1 DEF WithWear, Rewear, u, v
<1>5. /\ g \in Seq(Stint) /\ g # <<>>
      /\ LastStint(g).start = LastStint(h).start /\ LastStint(g).index = LastStint(h).index
      /\ LastStint(g).wear = u
  BY <1>3, <1>4, LastWear
<1>6. ASSUME Chained(h), w.lap = LastStint(h).start + Len(v) - 1 PROVE Chained(g)
  <2>1. \A j \in 1..Len(v) : v[j].lap = LastStint(h).start + j - 2
    BY <1>1, <1>2, <1>6 DEF Chained, v
  <2>2. w.lap = LastStint(h).start + (Len(v) + 1) - 2
    <3>1. LastStint(h).start \in Nat
      BY <1>1, BoundsAssumption DEF Stint
    <3> QED BY <1>2, <1>6, <3>1
  <2>3. ASSUME NEW j \in DOMAIN u PROVE u[j].lap = LastStint(h).start + j - 2
    <3>1. CASE j = Len(v) + 1
      BY <1>3, <2>2, <3>1
    <3>2. CASE j # Len(v) + 1
      <4>1. j \in 1..Len(v)
        BY <1>2, <1>3, <2>3, <3>2
      <4> QED BY <1>3, <2>1, <4>1
    <3> QED BY <3>1, <3>2
  <2> QED BY <1>3, <1>4, <1>6, <2>3, LastWearChained
<1>7. ASSUME OwnWear(h, FALSE)
      PROVE  \A j \in 1..Len(v) : u[j].of.set = LastStint(h).index
  BY <1>1, <1>2, <1>3, <1>7 DEF OwnWear, v
<1>8. ASSUME OwnWear(h, FALSE)
      PROVE  /\ OwnWear(g, TRUE)
             /\ w.of.set = LastStint(h).index => OwnWear(g, FALSE)
  <2>1. \A j \in DOMAIN u : j \in 1..Len(v) \/ j = Len(u)
    BY <1>2, <1>3
  <2>2. \A j \in DOMAIN u : u[j].of.set = LastStint(h).index \/ j = Len(u)
    BY <1>7, <1>8, <2>1
  <2>3. w.of.set = LastStint(h).index => \A j \in DOMAIN u : u[j].of.set = LastStint(h).index
    BY <1>3, <1>7, <1>8, <2>1
  <2>4. OwnWear(h, TRUE)
    BY <1>8, OwnAny
  <2> QED BY <1>3, <1>4, <2>2, <2>3, <2>4, LastWearOwn
<1>9. v = LastStint(h).wear /\ u = Append(v, w)
  BY DEF u, v
<1> QED BY <1>2, <1>3, <1>5, <1>6, <1>8, <1>9

\* The last entry of the last wear, replaced.
Mended(h, w) == [h EXCEPT ![Len(h)].wear = Append(Front(@), w)]

\* The last entry of the wear replaced by one of the same lap and the stint's own tyres.
LEMMA MendedWear ==
  ASSUME NEW h \in Seq(Stint), h # <<>>, LastStint(h).wear # <<>>, NEW w \in Wear,
         NEW g, g = Mended(h, w)
  PROVE  /\ g \in Seq(Stint) /\ g # <<>>
         /\ LastStint(g).start = LastStint(h).start /\ LastStint(g).index = LastStint(h).index
         /\ Len(LastStint(g).wear) = Len(LastStint(h).wear)
         /\ Chained(h) /\ w.lap = LastStint(h).start + Len(LastStint(h).wear) - 2 => Chained(g)
         /\ \A mixed \in BOOLEAN :
              OwnWear(h, mixed) /\ w.of.set = LastStint(h).index => OwnWear(g, FALSE)
<1> DEFINE n == Len(h)
           v == LastStint(h).wear
           c == Len(v)
           u == Append(Front(v), w)
<1>1. n \in Nat \ {0} /\ LastStint(h) = h[n] /\ LastStint(h) \in Stint /\ DOMAIN h = 1..n
  BY LastIn, LenProperties
<1>2. v \in Seq(Wear) /\ c \in Nat \ {0} /\ DOMAIN v = 1..c /\ v # <<>>
  BY <1>1, LenProperties, EmptySeq DEF Stint
<1> HIDE DEF v
<1>3. /\ Front(v) \in Seq(Wear) /\ Len(Front(v)) = c - 1
      /\ \A i \in 1..(c - 1) : Front(v)[i] = v[i]
  BY <1>2, FrontOf
<1>4. /\ u \in Seq(Wear) /\ u # <<>> /\ Len(u) = c - 1 + 1 /\ DOMAIN u = 1..(c - 1 + 1)
      /\ \A j \in 1..(c - 1) : u[j] = Front(v)[j]
      /\ u[c - 1 + 1] = w
  BY <1>3, AppendProperties, LenProperties
<1> HIDE DEF u, c
<1>5. Len(u) = c /\ DOMAIN u = 1..c /\ u[c] = w /\ \A j \in 1..(c - 1) : u[j] = v[j]
  <2>1. c - 1 + 1 = c
    BY <1>2
  <2> QED BY <1>3, <1>4, <2>1
<1>6. g = Rewear(h, u)
  BY <1>1 DEF Rewear, Mended, u, v
<1>7. /\ g \in Seq(Stint) /\ g # <<>>
      /\ LastStint(g).start = LastStint(h).start /\ LastStint(g).index = LastStint(h).index
      /\ LastStint(g).wear = u
  BY <1>4, <1>6, LastWear
<1>8. \A j \in 1..c : j = c \/ j \in 1..(c - 1)
  BY <1>2
<1>9. ASSUME Chained(h), w.lap = LastStint(h).start + c - 2 PROVE Chained(g)
  <2>1. \A j \in 1..c : v[j].lap = LastStint(h).start + j - 2
    <3>1. n \in DOMAIN h
      BY <1>1
    <3>2. \A j \in DOMAIN h[n].wear : h[n].wear[j].lap = h[n].start + j - 2
      BY <1>9, <3>1 DEF Chained
    <3>3. h[n].wear = v
      BY <1>1 DEF v
    <3> QED BY <1>1, <1>2, <3>2, <3>3
  <2>2. \A j \in 1..(c - 1) : j \in 1..c
    BY <1>2
  <2>3. ASSUME NEW j \in 1..c PROVE u[j].lap = LastStint(h).start + j - 2
    BY <1>5, <1>8, <1>9, <2>1, <2>2
  <2> QED BY <1>4, <1>5, <1>6, <1>9, <2>3, LastWearChained
<1>10. ASSUME NEW mixed \in BOOLEAN, OwnWear(h, mixed), w.of.set = LastStint(h).index
       PROVE  OwnWear(g, FALSE)
  <2>1. ASSUME NEW j \in 1..(c - 1) PROVE v[j].of.set = LastStint(h).index
    <3>1. j \in DOMAIN v /\ j # c
      BY <1>2, <2>1
    <3>2. j \in DOMAIN LastStint(h).wear /\ j # Len(LastStint(h).wear) /\ v = LastStint(h).wear
      BY <3>1 DEF v, c
    <3> QED BY <1>1, <1>10, <3>2 DEF OwnWear
  <2>2. ASSUME NEW j \in 1..c PROVE u[j].of.set = LastStint(h).index
    BY <1>5, <1>8, <1>10, <2>1
  <2>3. OwnWear(h, TRUE)
    BY <1>10, OwnAny
  <2> QED BY <1>4, <1>5, <1>6, <2>2, <2>3, LastWearOwn
<1> QED BY <1>5, <1>7, <1>9, <1>10 DEF c, v

\* A stint more, where the last one ends and on its own tyres.
LEMMA MoreStints ==
  ASSUME NEW h \in Seq(Stint), Chained(h), OwnWear(h, FALSE), NEW s \in Stint, NEW v \in Wear,
         s.wear = <<v>>, v.lap = s.start - 1, v.of.set = s.index,
         h # <<>> => s.start = LastStint(h).start + Len(LastStint(h).wear) - 1
  PROVE  LET g == Append(h, s)
         IN /\ g \in Seq(Stint) /\ g # <<>> /\ Chained(g) /\ OwnWear(g, FALSE) /\ LastStint(g) = s
<1> DEFINE n == Len(h)
           g == Append(h, s)
<1>1. n \in Nat /\ DOMAIN h = 1..n
  BY LenProperties
<1>2. /\ g \in Seq(Stint) /\ g # <<>> /\ Len(g) = n + 1 /\ DOMAIN g = 1..(n + 1)
      /\ \A i \in 1..n : g[i] = h[i]
      /\ g[n + 1] = s
  BY AppendProperties, LenProperties
<1> HIDE DEF g
<1>3. \A i \in 1..(n + 1) : i \in 1..n \/ i = n + 1
  BY <1>1
<1>4. DOMAIN s.wear = {1} /\ s.wear[1] = v /\ s.wear # <<>>
  OBVIOUS
<1>5. LastStint(g) = s
  BY <1>2 DEF LastStint
<1>6. ASSUME n # 0 PROVE h # <<>> /\ LastStint(h) = h[n] /\ n \in 1..n
  BY <1>1, <1>6 DEF LastStint
<1> HIDE DEF n
<1>7. ASSUME NEW i \in 1..(n + 1)
      PROVE  /\ g[i].wear # <<>>
             /\ \A j \in DOMAIN g[i].wear : g[i].wear[j].lap = g[i].start + j - 2
  <2>1. CASE i \in 1..n
    BY <1>1, <1>2, <2>1 DEF Chained
  <2>2. CASE i = n + 1
    <3>1. s.start \in Nat
      BY BoundsAssumption DEF Stint
    <3>2. v.lap = s.start + 1 - 2
      BY <3>1
    <3> QED BY <1>2, <1>4, <2>2, <3>2
  <2> QED BY <1>3, <2>1, <2>2
<1>8. ASSUME NEW i \in 1..(n + 1), i > 1
      PROVE  g[i].start = g[i - 1].start + Len(g[i - 1].wear) - 1
  <2>1. CASE i \in 1..n
    <3> DEFINE j == i - 1
    <3>1. j \in 1..n
      BY <1>1, <1>8, <2>1
    <3>2. h[i].start = h[j].start + Len(h[j].wear) - 1
      BY <1>1, <1>8, <2>1 DEF Chained
    <3> HIDE DEF j
    <3>3. g[i].start = g[j].start + Len(g[j].wear) - 1
      BY <1>2, <2>1, <3>1, <3>2
    <3> QED BY <3>3 DEF j
  <2>2. CASE i = n + 1
    <3>1. i - 1 = n /\ n # 0
      BY <1>1, <1>8, <2>2
    <3>2. s.start = h[n].start + Len(h[n].wear) - 1 /\ g[n] = h[n] /\ g[i] = s
      BY <1>2, <1>6, <2>2, <3>1
    <3> QED BY <3>1, <3>2
  <2> QED BY <1>3, <2>1, <2>2
<1>9. ASSUME NEW i \in 1..(n + 1), NEW j \in DOMAIN g[i].wear
      PROVE  g[i].wear[j].of.set = g[i].index
  <2>1. CASE i \in 1..n
    BY <1>1, <1>2, <1>9, <2>1 DEF OwnWear
  <2>2. CASE i = n + 1
    BY <1>2, <1>4, <1>9, <2>2
  <2> QED BY <1>3, <2>1, <2>2
<1>10. Chained(g)
  BY <1>2, <1>7, <1>8 DEF Chained
<1>11. OwnWear(g, FALSE)
  BY <1>2, <1>9 DEF OwnWear
<1> QED BY <1>2, <1>5, <1>10, <1>11 DEF g

\* The laps of the rolling history and the oldest one it keeps are numbers.
LEMMA OldestIs ==
  ASSUME game \in Game
  PROVE  /\ Oldest \in Nat /\ game.lap \in 1..MaxLap /\ game.lap \in Nat
         /\ game.since \in Nat
         /\ game.since > game.lap => Oldest = game.lap
         /\ game.since <= game.lap => Oldest = game.lap - 1
<1>1. game.lap \in 1..MaxLap /\ game.since \in 1..MaxLap + 1 /\ MaxLap \in Nat
  BY BoundsAssumption DEF Game
<1> QED BY <1>1 DEF Oldest

\* All before the first one kept are too old, and it is not.
LEMMA FirstKeptIs ==
  ASSUME game \in Game, NEW r \in Seq(Measurement)
  PROVE  /\ FirstKept(r) \in 1..(Len(r) + 1)
         /\ \A j \in 1..(FirstKept(r) - 1) : r[j].lap < Oldest
         /\ FirstKept(r) <= Len(r) => r[FirstKept(r)].lap >= Oldest
<1> DEFINE n == Len(r)
           B == {i \in 1..n : r[i].lap >= Oldest}
           Fits(i) == /\ \A j \in 1..(i - 1) : r[j].lap < Oldest
                      /\ i <= n => r[i].lap >= Oldest
<1>1. n \in Nat /\ \A i \in 1..n : r[i].lap \in Nat
  <2>1. n \in Nat /\ \A i \in 1..n : r[i] \in Measurement
    BY LenProperties, ElementOfSeq
  <2>2. \A m \in Measurement : m.lap \in Nat
    BY BoundsAssumption DEF Measurement
  <2> QED BY <2>1, <2>2
<1>2. Oldest \in Nat
  BY OldestIs
<1>3. \E i \in 1..(n + 1) : Fits(i)
  <2>1. CASE B = {}
    <3>1. \A i \in 1..n : r[i].lap < Oldest
      BY <1>1, <1>2, <2>1
    <3>2. n + 1 \in 1..(n + 1) /\ ~(n + 1 <= n) /\ (n + 1) - 1 = n
      BY <1>1
    <3> DEFINE m == n + 1
    <3>3. m \in 1..(n + 1) /\ ~(m <= n) /\ m - 1 = n
      BY <3>2
    <3> HIDE DEF m, n
    <3>4. Fits(m)
      BY <3>1, <3>3
    <3> QED BY <3>3, <3>4
  <2>2. CASE B # {}
    <3>1. B \in SUBSET Nat
      BY <1>1
    <3>2. PICK i \in B : \A m \in B : i <= m
      BY <2>2, <3>1, Least
    <3>3. ASSUME NEW j \in 1..(i - 1) PROVE r[j].lap < Oldest
      <4>1. i \in 1..n /\ j \in 1..n /\ j < i
        BY <1>1, <3>2
      <4>2. j \notin B
        BY <3>2, <4>1
      <4> QED BY <1>1, <1>2, <4>1, <4>2
    <3>4. i \in 1..(n + 1) /\ r[i].lap >= Oldest
      BY <1>1
    <3> QED BY <3>3, <3>4
  <2> QED BY <2>1, <2>2
<1>4. FirstKept(r) = CHOOSE i \in 1..(n + 1) : Fits(i)
  BY DEF FirstKept
<1> HIDE DEF Fits
<1>5. FirstKept(r) \in 1..(n + 1) /\ Fits(FirstKept(r))
  BY <1>3, <1>4
<1> QED BY <1>5 DEF Fits

\* p is r from its k-th measurement on, and m, at the end unless it was there.
Pushes(r, p, m, k, c) ==
  /\ k \in Nat \ {0} /\ k = FirstKept(r) /\ c \in Nat /\ c = Len(r) - k + 1
  /\ DOMAIN p = 1..Len(p) /\ DOMAIN r = 1..Len(r) /\ Len(r) \in Nat
  /\ \A i \in 1..c : i \in DOMAIN p /\ k + i - 1 \in DOMAIN r /\ p[i] = r[k + i - 1]
  /\ \A i \in DOMAIN p : i \in 1..c \/ (i = c + 1 /\ p[i] = m)
  /\ \E i \in DOMAIN p : p[i] = m

\* What is pushed comes behind those that are young enough, unless it is one of them.
LEMMA PushedIs ==
  ASSUME game \in Game, NEW r \in Seq(Measurement), NEW m \in Measurement
  PROVE  /\ Pushed(r, m) \in Seq(Measurement)
         /\ \E k, c : Pushes(r, Pushed(r, m), m, k, c)
<1> DEFINE n == Len(r)
           k == FirstKept(r)
           c == n - k + 1
           y == SubSeq(r, k, n)
           p == Pushed(r, m)
<1>1. n \in Nat /\ DOMAIN r = 1..n /\ \A i \in 1..n : r[i] \in Measurement
  BY LenProperties, ElementOfSeq
<1>2. k \in 1..(n + 1)
  BY FirstKeptIs
<1>3. p = IF Contains(y, m) THEN y ELSE Append(y, m)
  BY DEF Pushed
<1> HIDE DEF k, n, p
<1>4. k \in Nat \ {0} /\ n \in Int /\ k \in Int /\ c \in Nat
  BY <1>1, <1>2
<1>5. \A i \in k..n : r[i] \in Measurement
  BY <1>1, <1>2
<1>6. /\ y \in Seq(Measurement) /\ Len(y) = (IF k <= n THEN n - k + 1 ELSE 0)
      /\ \A i \in 1..(n - k + 1) : y[i] = r[k + i - 1]
  BY <1>4, <1>5, SubSeqProperties
<1>7. Len(y) = c /\ \A i \in 1..c : y[i] = r[k + i - 1]
  BY <1>2, <1>4, <1>6
<1>8. \A i \in 1..c : k + i - 1 \in 1..n
  BY <1>1, <1>2
<1>9. c = n - k + 1
  OBVIOUS
<1> HIDE DEF y, c
<1>10. /\ p \in Seq(Measurement)
       /\ \A i \in 1..c : i \in DOMAIN p /\ p[i] = y[i]
       /\ \A i \in DOMAIN p : i \in 1..c \/ (i = c + 1 /\ p[i] = m)
       /\ \E i \in DOMAIN p : p[i] = m
  <2>1. CASE Contains(y, m)
    <3>1. p = y /\ DOMAIN y = 1..c /\ \E i \in 1..c : y[i] = m
      BY <1>3, <1>6, <1>7, <2>1, LenProperties DEF Contains
    <3> QED BY <1>6, <3>1
  <2>2. CASE ~Contains(y, m)
    <3>1. p = Append(y, m)
      BY <1>3, <2>2
    <3>2. /\ p \in Seq(Measurement) /\ Len(p) = c + 1 /\ p[c + 1] = m
          /\ \A i \in 1..c : p[i] = y[i]
      BY <1>6, <1>7, <3>1, AppendProperties
    <3>3. DOMAIN p = 1..(c + 1)
      BY <3>2, LenProperties
    <3>4. \A i \in 1..(c + 1) : i \in 1..c \/ i = c + 1
      BY <1>4
    <3>5. c + 1 \in 1..(c + 1) /\ \A i \in 1..c : i \in 1..(c + 1)
      BY <1>4
    <3> QED BY <3>2, <3>3, <3>4, <3>5
  <2> QED BY <2>1, <2>2
<1>11. DOMAIN p = 1..Len(p)
  BY <1>10, LenProperties
<1>12. Pushes(r, p, m, k, c)
  BY <1>1, <1>4, <1>7, <1>8, <1>9, <1>10, <1>11 DEF Pushes, k, n
<1> QED BY <1>10, <1>12 DEF p

\* So what is there afterwards was there before or is new, and the new one is there.
LEMMA PushedHas ==
  ASSUME game \in Game, NEW r \in Seq(Measurement), NEW m \in Measurement, NEW p, p = Pushed(r, m)
  PROVE  /\ p \in Seq(Measurement) /\ p # <<>>
         /\ \A i \in DOMAIN p : p[i] = m \/ \E j \in DOMAIN r : p[i] = r[j]
         /\ \E i \in DOMAIN p : p[i] = m
<1>1. p \in Seq(Measurement) /\ \E k, c : Pushes(r, p, m, k, c)
  BY PushedIs
<1>2. PICK k, c : Pushes(r, p, m, k, c)
  BY <1>1
<1>3. \A i \in 1..c : \E j \in DOMAIN r : p[i] = r[j]
  BY <1>2 DEF Pushes
<1>4. \E i \in DOMAIN p : p[i] = m
  BY <1>2 DEF Pushes
<1>5. \A i \in DOMAIN p : i \in 1..c \/ p[i] = m
  BY <1>2 DEF Pushes
<1> QED BY <1>1, <1>3, <1>4, <1>5

\* The order of the laps is kept.
LEMMA PushedOrdered ==
  ASSUME game \in Game, NEW r \in Seq(Measurement), NEW m \in Measurement, NEW p, p = Pushed(r, m),
         NEW lap \in Nat, Ordered(r, lap), m.lap = lap
  PROVE  Ordered(p, lap)
<1>1. PICK k, c : Pushes(r, p, m, k, c)
  BY PushedIs
<1>2. /\ k \in Nat \ {0} /\ c \in Nat /\ DOMAIN p = 1..Len(p)
      /\ \A i \in 1..c : k + i - 1 \in DOMAIN r /\ p[i] = r[k + i - 1]
  BY <1>1 DEF Pushes
<1>3. \A i, j \in 1..c : i < j => p[i].lap <= p[j].lap
  <2> SUFFICES ASSUME NEW i \in 1..c, NEW j \in 1..c, i < j PROVE p[i].lap <= p[j].lap
    OBVIOUS
  <2>1. k + i - 1 < k + j - 1
    BY <1>2
  <2>2. k + i - 1 \in DOMAIN r /\ k + j - 1 \in DOMAIN r
    BY <1>2
  <2>3. r[k + i - 1].lap <= r[k + j - 1].lap
    BY <2>1, <2>2 DEF Ordered
  <2> QED BY <1>2, <2>3
<1>4. \A i \in 1..c : p[i].lap <= lap
  BY <1>2 DEF Ordered
<1>5. \A i \in DOMAIN p : i \in 1..c \/ (i = c + 1 /\ p[i] = m)
  BY <1>1 DEF Pushes
<1>6. ASSUME NEW i \in DOMAIN p PROVE p[i].lap <= lap
  BY <1>4, <1>5
<1>7. ASSUME NEW i \in DOMAIN p, NEW j \in DOMAIN p, i < j PROVE p[i].lap <= p[j].lap
  <2>1. CASE j \in 1..c
    <3>1. i \in 1..c
      BY <1>2, <1>5, <1>7, <2>1
    <3> QED BY <1>3, <1>7, <2>1, <3>1
  <2>2. CASE p[j] = m
    BY <1>6, <2>2
  <2> QED BY <1>5, <2>1, <2>2
<1> QED BY <1>6, <1>7 DEF Ordered

\* In the garage before the line only this lap's measurements are left, and the first of them
\* is still the first.
LEMMA PushedLed ==
  ASSUME game \in Game, NEW r \in Seq(Measurement), NEW m \in Measurement, NEW p, p = Pushed(r, m),
         NEW set, Led(r, game.lap, set), Ordered(r, game.lap), game.since > game.lap,
         m.lap = game.lap, m.of.age = 0
  PROVE  Led(p, game.lap, set) /\ \A i \in DOMAIN p : p[i].lap = game.lap
<1> DEFINE lap == game.lap
<1>1. p # <<>> /\ \E k, c : Pushes(r, p, m, k, c)
  BY PushedIs, PushedHas
<1>2. PICK k, c : Pushes(r, p, m, k, c)
  BY <1>1
<1> HIDE DEF lap
<1>3. k \in Nat \ {0} /\ c \in Nat /\ c = Len(r) - k + 1 /\ k = FirstKept(r)
  BY <1>2 DEF Pushes
<1>4. DOMAIN p = 1..Len(p) /\ DOMAIN r = 1..Len(r) /\ Len(r) \in Nat
  BY <1>2 DEF Pushes
<1>5. \A i \in 1..c : i \in DOMAIN p /\ k + i - 1 \in DOMAIN r /\ p[i] = r[k + i - 1]
  BY <1>2 DEF Pushes
<1>6. Oldest = lap /\ lap \in Nat
  BY OldestIs DEF lap
<1>7. /\ k \in 1..(Len(r) + 1)
      /\ \A j \in 1..(k - 1) : r[j].lap < lap
      /\ k <= Len(r) => r[k].lap >= lap
  BY <1>6, <1>3, FirstKeptIs
<1>8. PICK f \in DOMAIN r : LedAt(f, r, lap, set)
  BY DEF Led, lap
<1>9. r[f].lap = lap /\ r[f].of.set = set /\ \A j \in 1..(f - 1) : r[j].lap < lap
  BY <1>8 DEF LedAt
<1>10. \A j \in DOMAIN r : r[j].lap = lap => r[j].of.age <= r[f].of.age
  BY <1>8 DEF LedAt
<1>11. \A j \in DOMAIN r : r[j].lap \in Nat /\ r[j].of.age \in Nat
  <2>1. \A x \in Measurement : x.lap \in Nat /\ x.of.age \in Nat
    BY BoundsAssumption DEF Measurement, Sample, Laps
  <2> QED BY <1>3, <1>4, <2>1, ElementOfSeq
<1>12. f = k
  <2>1. ~(f < k)
    <3> SUFFICES ASSUME f < k PROVE FALSE
      OBVIOUS
    <3>1. f \in 1..(k - 1)
      BY <1>3, <1>4, <1>5
    <3> QED BY <1>6, <1>7, <1>9, <3>1
  <2>2. ~(k < f)
    <3> SUFFICES ASSUME k < f PROVE FALSE
      OBVIOUS
    <3>1. k \in 1..(f - 1) /\ k <= Len(r) /\ k \in DOMAIN r
      BY <1>3, <1>4, <1>5
    <3>2. r[k].lap < lap /\ r[k].lap >= lap /\ r[k].lap \in Nat
      BY <1>7, <1>9, <1>11, <3>1
    <3> QED BY <1>6, <3>2
  <2> QED BY <1>3, <1>4, <1>5, <2>1, <2>2
<1>13. c >= 1 /\ p[1] = r[k] /\ 1 \in DOMAIN p
  <2>1. c >= 1
    BY <1>3, <1>4, <1>5, <1>12
  <2>2. 1 \in 1..c /\ k + 1 - 1 = k
    BY <1>3, <2>1
  <2>3. p[1] = r[k + 1 - 1]
    BY <1>5, <2>2
  <2> QED BY <1>5, <2>1, <2>2, <2>3
<1>14. ASSUME NEW i \in 1..c PROVE p[i].lap = lap /\ p[i].of.age <= r[k].of.age
  <2>1. k + i - 1 \in DOMAIN r /\ p[i] = r[k + i - 1]
    BY <1>3, <1>4, <1>5
  <2>2. k + i - 1 = k \/ k < k + i - 1
    BY <1>3
  <2>3. r[k + i - 1].lap <= lap
    BY <2>1 DEF Ordered, lap
  <2>4. r[k].lap = lap /\ k \in DOMAIN r
    BY <1>9, <1>12
  <2>5. r[k].lap <= r[k + i - 1].lap
    <3>1. CASE k < k + i - 1
      BY <2>1, <2>4, <3>1 DEF Ordered
    <3>2. CASE k + i - 1 = k
      BY <1>6, <2>4, <3>2
    <3> QED BY <2>2, <3>1, <3>2
  <2>6. r[k + i - 1].lap \in Nat
    BY <1>11, <2>1
  <2>7. r[k + i - 1].lap = lap
    BY <1>6, <2>3, <2>4, <2>5, <2>6
  <2>8. r[k + i - 1].of.age <= r[k].of.age
    BY <1>10, <1>12, <2>1, <2>7
  <2> QED BY <2>1, <2>7, <2>8
<1>15. \A i \in DOMAIN p : i \in 1..c \/ p[i] = m
  BY <1>2 DEF Pushes
<1>16. \A i \in DOMAIN p : p[i].lap = lap /\ p[i].of.age <= r[k].of.age
  <2>1. m.lap = lap /\ m.of.age <= r[k].of.age
    BY <1>8, <1>11, <1>12 DEF lap
  <2> QED BY <1>14, <1>15, <2>1
<1>17. LedAt(1, p, lap, set)
  <2>1. p[1].lap = lap /\ p[1].of.set = set /\ \A j \in DOMAIN p : p[j].of.age <= p[1].of.age
    BY <1>9, <1>12, <1>13, <1>16
  <2>2. \A j \in 1..(1 - 1) : p[j].lap < lap
    OBVIOUS
  <2> QED BY <2>1, <2>2 DEF LedAt
<1> QED BY <1>13, <1>16, <1>17 DEF Led, lap

\* After the line nothing of the old tyres is too old yet, and new tyres have less wear.
LEMMA PushedLeads ==
  ASSUME game \in Game, NEW r \in Seq(Measurement), NEW m \in Measurement, NEW p, p = Pushed(r, m),
         NEW set, Leads(r, game.lap, set), game.since <= game.lap,
         m.lap = game.lap, m.of.age = 0
  PROVE  Leads(p, game.lap, set)
<1> DEFINE lap == game.lap
<1>1. p # <<>> /\ \E k, c : Pushes(r, p, m, k, c)
  BY PushedIs, PushedHas
<1>2. PICK k, c : Pushes(r, p, m, k, c)
  BY <1>1
<1> HIDE DEF lap
<1>3. k \in Nat \ {0} /\ c \in Nat /\ c = Len(r) - k + 1 /\ k = FirstKept(r)
  BY <1>2 DEF Pushes
<1>4. DOMAIN p = 1..Len(p) /\ DOMAIN r = 1..Len(r) /\ Len(r) \in Nat
  BY <1>2 DEF Pushes
<1>5. \A i \in 1..c : i \in DOMAIN p /\ k + i - 1 \in DOMAIN r /\ p[i] = r[k + i - 1]
  BY <1>2 DEF Pushes
<1>6. Oldest = lap - 1 /\ lap \in Nat
  BY OldestIs DEF lap
<1>7. /\ k \in 1..(Len(r) + 1)
      /\ \A j \in 1..(k - 1) : r[j].lap < lap - 1
  BY <1>6, <1>3, FirstKeptIs
<1>8. r # <<>> /\ r[1].of.set = set /\ Len(r) >= 1
  BY <1>3, <1>4, EmptySeq DEF Leads
<1>9. \A j \in DOMAIN r : r[j].of.age <= r[1].of.age /\ r[j].lap >= lap - 1
  BY DEF Leads, lap
<1>10. \A j \in DOMAIN r : r[j].lap \in Nat /\ r[j].of.age \in Nat
  <2>1. \A x \in Measurement : x.lap \in Nat /\ x.of.age \in Nat
    BY BoundsAssumption DEF Measurement, Sample, Laps
  <2> QED BY <1>3, <1>4, <2>1, ElementOfSeq
<1>11. 1 \in DOMAIN r
  BY <1>3, <1>4, <1>8
<1>12. k = 1
  <2> SUFFICES ASSUME k # 1 PROVE FALSE
    OBVIOUS
  <2>1. 1 \in 1..(k - 1)
    BY <1>3
  <2>2. r[1].lap < lap - 1 /\ r[1].lap >= lap - 1 /\ r[1].lap \in Nat
    BY <1>7, <1>9, <1>10, <1>11, <2>1
  <2> QED BY <1>6, <2>2
<1>13. c = Len(r)
  BY <1>3, <1>4, <1>12
<1>14. \A i \in 1..c : i \in DOMAIN r /\ p[i] = r[i]
  <2>1. \A i \in 1..c : k + i - 1 = i
    BY <1>12
  <2> QED BY <1>3, <1>4, <1>5, <1>13, <2>1
<1>15. \A i \in DOMAIN p : i \in 1..c \/ p[i] = m
  BY <1>2 DEF Pushes
<1>16. p[1] = r[1]
  BY <1>8, <1>11, <1>4, <1>13, <1>14
<1>17. \A i \in DOMAIN p : p[i].of.age <= p[1].of.age /\ p[i].lap >= lap - 1
  <2>1. m.lap >= lap - 1 /\ m.of.age <= r[1].of.age
    BY <1>6, <1>10, <1>11 DEF lap
  <2> QED BY <1>9, <1>14, <1>15, <1>16, <2>1
<1> QED BY <1>1, <1>8, <1>16, <1>17 DEF Leads, lap

\* There is an earliest one among the measurements with the most wear.
LEMMA MaxAverageIs ==
  ASSUME NEW r \in Seq(Measurement), r # <<>>
  PROVE  \E i \in DOMAIN r : /\ MaxAverage(r) = r[i].of
                             /\ \A j \in DOMAIN r : r[j].of.age <= r[i].of.age
                             /\ \A j \in 1..(i - 1) : r[j].of.age < r[i].of.age
<1> DEFINE n == Len(r)
           A == {r[i].of.age + 1 : i \in 1..n}
           Top(i) == \A j \in DOMAIN r : r[j].of.age <= r[i].of.age
           First(i) == \A j \in 1..(i - 1) : r[j].of.age < r[i].of.age
           T == {i \in 1..n : Top(i)}
<1>1. n \in Nat \ {0} /\ DOMAIN r = 1..n
  BY LenProperties, EmptySeq
<1>2. MaxLap \in Nat /\ \A i \in 1..n : r[i].of.age \in Nat /\ r[i].of.age <= MaxLap
  <2>1. \A x \in Measurement : x.of.age \in Nat /\ x.of.age <= MaxLap
    BY BoundsAssumption DEF Measurement, Sample, Laps
  <2> QED BY <1>1, <2>1, ElementOfSeq, BoundsAssumption
<1>3. T # {}
  <2>1. A \in SUBSET (1..(MaxLap + 1)) /\ MaxLap + 1 \in Nat
    BY <1>2
  <2>2. A # {}
    <3>1. 1 \in 1..n
      BY <1>1
    <3> QED BY <3>1
  <2>3. PICK a \in A : \A x \in A : x <= a
    <3> HIDE DEF A
    <3> QED BY <2>1, <2>2, Greatest
  <2>4. PICK i \in 1..n : a = r[i].of.age + 1
    OBVIOUS
  <2>5. ASSUME NEW j \in 1..n PROVE r[j].of.age <= r[i].of.age
    <3>1. r[j].of.age + 1 \in A
      OBVIOUS
    <3>2. r[j].of.age + 1 <= r[i].of.age + 1
      BY <2>3, <2>4, <3>1
    <3> QED BY <1>2, <3>2
  <2> QED BY <1>1, <2>5
<1>4. PICK i \in T : \A m \in T : i <= m
  <2>1. T \in SUBSET Nat
    OBVIOUS
  <2> HIDE DEF T
  <2> QED BY <1>3, <2>1, Least
<1>5. i \in DOMAIN r /\ Top(i)
  BY <1>1
<1>6. First(i)
  <2> SUFFICES ASSUME NEW j \in 1..(i - 1), ~(r[j].of.age < r[i].of.age) PROVE FALSE
    OBVIOUS
  <2>1. j \in 1..n /\ i \in 1..n /\ j < i /\ j \in DOMAIN r
    BY <1>1, <1>5
  <2>2. r[j].of.age = r[i].of.age
    BY <1>2, <1>5, <2>1
  <2>3. Top(j)
    BY <1>5, <2>2
  <2>4. j \in T
    BY <2>1, <2>3
  <2> QED BY <1>4, <2>1, <2>4
<1> DEFINE best == CHOOSE x \in DOMAIN r : Top(x) /\ First(x)
<1>7. MaxAverage(r) = r[best].of
  BY DEF MaxAverage
<1> HIDE DEF Top, First
<1>8. best \in DOMAIN r /\ Top(best) /\ First(best)
  BY <1>5, <1>6
<1> QED BY <1>7, <1>8 DEF Top, First

\* It is a measurement of tyres.
LEMMA MaxAverageIn ==
  ASSUME NEW r \in Seq(Measurement), r # <<>>
  PROVE  MaxAverage(r) \in Sample
<1>1. PICK i \in DOMAIN r : MaxAverage(r) = r[i].of
  BY MaxAverageIs
<1>2. r[i] \in Measurement
  BY <1>1, LenProperties, ElementOfSeq
<1> QED BY <1>1, <1>2 DEF Measurement

\* When the first of them leads, it is that one.
LEMMA MaxAverageLeads ==
  ASSUME NEW r \in Seq(Measurement), NEW lap, NEW set, Leads(r, lap, set)
  PROVE  MaxAverage(r).set = set
<1>1. r # <<>> /\ r[1].of.set = set /\ \A j \in DOMAIN r : r[j].of.age <= r[1].of.age
  BY DEF Leads
<1>2. PICK i \in DOMAIN r : /\ MaxAverage(r) = r[i].of
                            /\ \A j \in 1..(i - 1) : r[j].of.age < r[i].of.age
  BY <1>1, MaxAverageIs
<1>3. i \in Nat \ {0} /\ 1 \in DOMAIN r
  BY <1>1, LenProperties, EmptySeq
<1>4. i = 1
  <2> SUFFICES ASSUME i # 1 PROVE FALSE
    OBVIOUS
  <2>1. 1 \in 1..(i - 1)
    BY <1>3
  <2>2. r[1].of.age < r[i].of.age /\ r[i].of.age <= r[1].of.age
    BY <1>1, <1>2, <2>1
  <2>3. r[1].of.age \in Nat /\ r[i].of.age \in Nat
    <3>1. \A x \in Measurement : x.of.age \in Nat
      BY BoundsAssumption DEF Measurement, Sample, Laps
    <3> QED BY <1>2, <1>3, <3>1, LenProperties, ElementOfSeq
  <2> QED BY <2>2, <2>3
<1> QED BY <1>1, <1>2, <1>4

BookType == [damage : Sample \cup {Missing}, sets : 0..MaxSet,
             snaps : [Laps -> Sample \cup {Missing}], stints : Seq(Stint),
             pending : SUBSET {"lap", "damage"}, recent : Seq(Measurement)]
GoodBooks(b) == b \in BookType /\ KnownIn(b)

\* There is something that needs a lap, a set and a measurement.
Begun(b) == b.stints # <<>> \/ b.pending # {}

\* The bounds are numbers, and the wear of a lap is one.
LEMMA Bounds ==
  /\ MaxLap \in Nat \ {0} /\ MaxSet \in Nat \ {0} /\ 0 \in Laps /\ MaxLap \in Laps
  /\ \A l \in 1..MaxLap : l \in Laps /\ l - 1 \in Laps
  /\ Missing \notin Sample
  /\ \A l \in Laps, s \in Sample : WearOf(l, s) \in Wear /\ WearOf(l, s).lap = l /\ WearOf(l, s).of = s
<1>1. MaxLap \in Nat \ {0} /\ MaxSet \in Nat \ {0}
  BY BoundsAssumption
<1>2. Missing \notin Sample
  BY <1>1 DEF Missing, Sample, Sets
<1>3. \A l \in 1..MaxLap : l \in Laps /\ l - 1 \in Laps
  BY <1>1 DEF Laps
<1>4. 0 \in Laps /\ MaxLap \in Laps
  BY <1>1 DEF Laps
<1>5. \A l \in Laps, s \in Sample : WearOf(l, s) \in Wear /\ WearOf(l, s).lap = l /\ WearOf(l, s).of = s
  BY DEF WearOf, Wear
<1> QED BY <1>1, <1>2, <1>3, <1>4, <1>5

\* TyreSetHistoryManager.remove leaves stints.
LEMMA RemovedIn ==
  ASSUME NEW h \in Seq(Stint), NEW laps
  PROVE  Removed(h, laps) \in Seq(Stint) /\ (h = <<>> => Removed(h, laps) = <<>>)
<1>1. CASE h = <<>>
  BY <1>1 DEF Removed
<1>2. CASE h # <<>>
  <2> DEFINE w == LastStint(h).wear
             g == Rewear(h, Front(w))
             h1 == IF w # <<>> /\ w[Len(w)].lap \in laps THEN g ELSE h
  <2>1. LastStint(h) = h[Len(h)] /\ LastStint(h) \in Stint
    BY <1>2, LastIn
  <2>2. w \in Seq(Wear)
    BY <2>1 DEF Stint
  <2>3. [h EXCEPT ![Len(h)].wear = Front(@)] = g
    BY <2>1 DEF Rewear
  <2>4. Removed(h, laps) = IF LastStint(h).start \in laps THEN Front(h1) ELSE h1
    BY <1>2, <2>3 DEF Removed
  <2>5. w # <<>> => g \in Seq(Stint) /\ g # <<>>
    <3> HIDE DEF w, g
    <3>1. ASSUME w # <<>> PROVE Front(w) \in Seq(Wear)
      BY <2>2, <3>1, FrontOf
    <3> QED BY <1>2, <3>1, LastWear DEF g
  <2> HIDE DEF w, g
  <2>6. h1 \in Seq(Stint) /\ h1 # <<>>
    BY <1>2, <2>5
  <2> HIDE DEF h1
  <2>7. Front(h1) \in Seq(Stint)
    BY <2>6, FrontOf
  <2> QED BY <1>2, <2>4, <2>6, <2>7
<1> QED BY <1>1, <1>2

\* A flashback leaves what there is in order.
LEMMA FlashedBackGood ==
  ASSUME NEW b, GoodBooks(b), NEW old, NEW c, c = FlashedBack(b, old)
  PROVE  /\ GoodBooks(c) /\ (Begun(c) => Begun(b))
         /\ c.damage = b.damage /\ c.pending = b.pending /\ c.sets = b.sets
<1> DEFINE outdated == {l \in old..MaxLap : b.snaps[l] # Missing}
           s == [l \in Laps |-> IF l \in outdated THEN Missing ELSE b.snaps[l]]
           h == Removed(b.stints, outdated)
<1>1. b \in BookType /\ KnownIn(b)
  BY DEF GoodBooks
<1>2. c = [b EXCEPT !.snaps = s, !.stints = h, !.recent = <<>>]
  BY <1>1 DEF FlashedBack, BookType
<1>3. s \in [Laps -> Sample \cup {Missing}] /\ \A l \in Laps : s[l] = b.snaps[l] \/ s[l] = Missing
  BY <1>1 DEF BookType
<1>4. h \in Seq(Stint) /\ (b.stints = <<>> => h = <<>>)
  BY <1>1, RemovedIn DEF BookType
<1> DEFINE none == <<>>
<1>5. none \in Seq(Measurement)
  OBVIOUS
<1> HIDE DEF s, h, none, outdated
<1>6. c = [b EXCEPT !.snaps = s, !.stints = h, !.recent = none]
  BY <1>2 DEF none
<1>7. /\ c.damage = b.damage /\ c.sets = b.sets /\ c.pending = b.pending /\ c.stints = h
      /\ c.snaps = s /\ c \in BookType
  BY <1>1, <1>6, <1>3, <1>4, <1>5 DEF BookType
<1>8. KnownIn(c)
  BY <1>1, <1>3, <1>4, <1>7 DEF KnownIn
<1> QED BY <1>4, <1>7, <1>8 DEF GoodBooks, Begun

\* A lap change does.
LEMMA LapChangedGood ==
  ASSUME NEW b, GoodBooks(b), NEW old \in Laps, NEW flashback \in BOOLEAN,
         NEW d, d = LapChanged(b, old, flashback)
  PROVE  /\ GoodBooks(d) /\ (Begun(d) => Begun(b))
         /\ d.damage = b.damage /\ d.pending = b.pending /\ d.sets = b.sets
<1> DEFINE c == IF flashback THEN FlashedBack(b, old) ELSE b
<1>1. /\ GoodBooks(c) /\ (Begun(c) => Begun(b))
      /\ c.damage = b.damage /\ c.pending = b.pending /\ c.sets = b.sets
  BY FlashedBackGood
<1> DEFINE w == WearOf(old, b.damage)
           h == IF old # 0 /\ c.stints # <<>> THEN WithWear(c.stints, w) ELSE c.stints
           s == [c.snaps EXCEPT ![old] = b.damage]
<1>2. d = IF c.snaps[old] # Missing THEN c ELSE [c EXCEPT !.snaps = s, !.stints = h]
  BY <1>1 DEF LapChanged, GoodBooks, BookType
<1> HIDE DEF c
<1>3. c \in BookType /\ KnownIn(c) /\ b.damage \in Sample \cup {Missing}
  BY <1>1 DEF GoodBooks, BookType
<1>4. s \in [Laps -> Sample \cup {Missing}] /\ \A l \in Laps : s[l] = b.damage \/ s[l] = c.snaps[l]
  BY <1>3 DEF BookType
<1>5. h \in Seq(Stint) /\ (c.stints = <<>> => h = <<>>)
  <2>1. c.stints \in Seq(Stint)
    BY <1>3 DEF BookType
  <2>2. CASE old # 0 /\ c.stints # <<>>
    <3>1. b.damage # Missing
      BY <1>1, <1>3, <2>2 DEF KnownIn
    <3>2. w \in Wear
      BY <1>3, <3>1, Bounds
    <3> HIDE DEF w
    <3>3. WithWear(c.stints, w) \in Seq(Stint)
      BY <2>1, <2>2, <3>2, MoreWear
    <3> QED BY <2>2, <3>3
  <2>3. CASE ~(old # 0 /\ c.stints # <<>>)
    BY <2>1, <2>3
  <2> QED BY <2>2, <2>3
<1> HIDE DEF s, h
<1>6. CASE c.snaps[old] # Missing
  BY <1>1, <1>2, <1>6
<1>7. CASE c.snaps[old] = Missing
  <2>1. d = [c EXCEPT !.snaps = s, !.stints = h]
    BY <1>2, <1>7
  <2>2. /\ d.damage = c.damage /\ d.sets = c.sets /\ d.pending = c.pending /\ d.stints = h
        /\ d.snaps = s /\ d.recent = c.recent /\ d \in BookType
    BY <1>3, <1>4, <1>5, <2>1 DEF BookType
  <2>3. KnownIn(d)
    BY <1>1, <1>3, <1>4, <1>5, <2>2 DEF KnownIn
  <2> QED BY <1>1, <1>5, <2>2, <2>3 DEF GoodBooks, Begun
<1> QED BY <1>6, <1>7

\* The stint of a change begins with the wear of the lap before.
LEMMA NewStintIn ==
  ASSUME NEW b \in BookType, b.damage # Missing, b.sets # 0, NEW lap \in 1..MaxLap
  PROVE  /\ NewStint(b, lap) \in Stint /\ NewStint(b, lap).start = lap
         /\ NewStint(b, lap).index = b.sets
         /\ NewStint(b, lap).wear = <<WearOf(lap - 1, b.damage)>>
<1>1. WearOf(lap - 1, b.damage) \in Wear
  BY Bounds DEF BookType
<1> DEFINE w == WearOf(lap - 1, b.damage)
<1>2. <<w>> \in Seq(Wear)
  BY <1>1
<1> HIDE DEF w
<1>3. b.sets \in Sets
  BY Bounds DEF BookType, Sets
<1>4. NewStint(b, lap) = [start |-> lap, index |-> b.sets, wear |-> <<w>>]
  BY DEF NewStint, w
<1> QED BY <1>2, <1>3, <1>4 DEF Stint, w

\* What handling a change of tyres does to the stints: nothing, or the end of the last one is
\* mended, and a stint more in any case.
Mending(b, lap) == Mended(b.stints, WearOf(lap - 1, MaxAverage(b.recent)))
ChangedStints(b, lap) ==
  IF ~weird THEN Append(b.stints, NewStint(b, lap))
  ELSE IF b.recent = <<>> \/ b.stints = <<>> THEN b.stints
  ELSE IF LastStint(b.stints).wear = <<>> THEN b.stints
  ELSE Append(Mending(b, lap), NewStint(b, lap))

\* Nothing else is touched by it.
LEMMA TyresChangedIs ==
  ASSUME NEW b \in BookType, NEW lap
  PROVE  TyresChanged(b, lap) = [b EXCEPT !.stints = ChangedStints(b, lap)]
<1>1. [b EXCEPT !.stints = b.stints] = b
  BY DEF BookType
<1>2. CASE ~weird
  BY <1>2 DEF TyresChanged, ChangedStints
<1>3. CASE weird /\ (b.recent = <<>> \/ b.stints = <<>>)
  BY <1>1, <1>3 DEF TyresChanged, ChangedStints
<1>4. CASE weird /\ ~(b.recent = <<>> \/ b.stints = <<>>) /\ LastStint(b.stints).wear = <<>>
  BY <1>1, <1>4 DEF TyresChanged, ChangedStints
<1>5. CASE weird /\ ~(b.recent = <<>> \/ b.stints = <<>>) /\ LastStint(b.stints).wear # <<>>
  BY <1>5 DEF TyresChanged, ChangedStints, Mending, Mended
<1> QED BY <1>2, <1>3, <1>4, <1>5

\* They are stints.
LEMMA ChangedStintsIn ==
  ASSUME NEW b \in BookType, b.damage # Missing, b.sets # 0, NEW lap \in 1..MaxLap
  PROVE  ChangedStints(b, lap) \in Seq(Stint)
<1>1. NewStint(b, lap) \in Stint
  BY NewStintIn
<1>2. b.stints \in Seq(Stint) /\ b.recent \in Seq(Measurement)
  BY DEF BookType
<1>3. CASE weird /\ ~(b.recent = <<>> \/ b.stints = <<>>) /\ LastStint(b.stints).wear # <<>>
  <2>1. WearOf(lap - 1, MaxAverage(b.recent)) \in Wear
    BY <1>2, <1>3, MaxAverageIn, Bounds
  <2>2. Mending(b, lap) \in Seq(Stint)
    BY <1>2, <1>3, <2>1, MendedWear DEF Mending
  <2> QED BY <1>1, <1>3, <2>2, AppendProperties DEF ChangedStints
<1> QED BY <1>1, <1>2, <1>3, AppendProperties DEF ChangedStints

\* An event that a change waits for leaves the books in order.
LEMMA OnEventGood ==
  ASSUME NEW b, GoodBooks(b), NEW event, NEW lap, b.pending # {} => lap \in 1..MaxLap,
         NEW d, d = OnEvent(b, event, lap)
  PROVE  GoodBooks(d) /\ (Begun(d) => Begun(b)) /\ d.damage = b.damage /\ d.sets = b.sets
<1> DEFINE b1 == [b EXCEPT !.pending = @ \ {event}]
<1>1. b \in BookType /\ KnownIn(b)
  BY DEF GoodBooks
<1>2. CASE event \notin b.pending
  BY <1>2 DEF OnEvent
<1>3. CASE event \in b.pending
  <2>1. lap \in 1..MaxLap /\ b.damage # Missing /\ b.sets # 0 /\ Begun(b)
    BY <1>1, <1>3 DEF KnownIn, Begun
  <2>2. /\ b1 \in BookType /\ b1.damage = b.damage /\ b1.sets = b.sets /\ b1.stints = b.stints
        /\ b1.snaps = b.snaps /\ b1.recent = b.recent
    BY <1>1 DEF BookType
  <2>3. d = IF b1.pending = {} THEN TyresChanged(b1, lap) ELSE b1
    BY <1>3 DEF OnEvent
  <2> HIDE DEF b1
  <2> DEFINE h == ChangedStints(b1, lap)
  <2>4. h \in Seq(Stint)
    BY <2>1, <2>2, ChangedStintsIn
  <2>5. TyresChanged(b1, lap) = [b1 EXCEPT !.stints = h]
    BY <2>2, TyresChangedIs
  <2> HIDE DEF h
  <2>6. d = b1 \/ d = [b1 EXCEPT !.stints = h]
    BY <2>3, <2>5
  <2>7. d \in BookType /\ d.damage = b.damage /\ d.sets = b.sets
    BY <2>2, <2>4, <2>6 DEF BookType
  <2>8. KnownIn(d)
    BY <2>1, <2>7 DEF KnownIn
  <2> QED BY <2>1, <2>7, <2>8 DEF GoodBooks
<1> QED BY <1>2, <1>3

\* So does a tyre set.
LEMMA UpdatedGood ==
  ASSUME Typed, NEW b, GoodBooks(b), b.sets # 0, NEW d, d = Updated(b)
  PROVE  GoodBooks(d) /\ (Begun(d) => Begun(b) \/ cur # 0)
<1>1. b \in BookType /\ KnownIn(b)
  BY DEF GoodBooks
<1>2. CASE d = b
  BY <1>2
<1>3. CASE cur # 0 /\ b.stints = <<>> /\ b.snaps[0] # Missing /\ d = [b EXCEPT !.stints = <<FirstStint(b)>>]
  <2>1. b.snaps[0] \in Sample /\ b.damage # Missing
    BY <1>1, <1>3, Bounds DEF BookType, KnownIn
  <2> DEFINE w == WearOf(0, b.snaps[0])
             s == FirstStint(b)
  <2>2. w \in Wear /\ <<w>> \in Seq(Wear)
    BY <2>1, Bounds
  <2>3. s = [start |-> cur, index |-> b.sets, wear |-> <<w>>]
    BY DEF FirstStint
  <2> HIDE DEF w, s
  <2>4. cur \in 1..MaxLap
    BY <1>3, Bounds DEF Typed, Laps
  <2>5. b.sets \in Sets
    BY <1>1, Bounds DEF BookType, Sets
  <2>6. s \in Stint
    BY <2>2, <2>3, <2>4, <2>5 DEF Stint
  <2>7. <<s>> \in Seq(Stint)
    BY <2>6
  <2>8. d = [b EXCEPT !.stints = <<s>>]
    BY <1>3 DEF s
  <2>9. d \in BookType /\ d.damage = b.damage /\ d.sets = b.sets
    BY <1>1, <2>7, <2>8 DEF BookType
  <2>10. KnownIn(d)
    BY <2>1, <2>9 DEF KnownIn
  <2> QED BY <1>3, <2>9, <2>10 DEF GoodBooks
<1>4. CASE cur # 0 /\ b.stints # <<>> /\ d = [b EXCEPT !.pending = Awaited]
  <2>1. d \in BookType /\ d.damage = b.damage /\ d.sets = b.sets /\ b.damage # Missing
    BY <1>1, <1>4 DEF BookType, Awaited, KnownIn
  <2>2. KnownIn(d)
    BY <2>1 DEF KnownIn
  <2> QED BY <1>4, <2>1, <2>2 DEF GoodBooks
<1> QED BY <1>2, <1>3, <1>4 DEF Updated

\* The books are in order when the variables are.
LEMMA BooksGood ==
  ASSUME Typed, Known
  PROVE  /\ GoodBooks(Books) /\ (Begun(Books) => cur # 0)
         /\ Books.damage = damage /\ Books.sets = sets /\ Books.snaps = snaps
         /\ Books.stints = stints /\ Books.pending = pending /\ Books.recent = recent
BY DEF Typed, Known, GoodBooks, BookType, Books, Begun

-----------------------------------------------------------------------------
(* The types.                                                               *)

\* Where the books have a type, they are what an operation leaves behind.
LEMMA KeepIs ==
  ASSUME NEW b \in BookType, Keep(b)
  PROVE  /\ damage' = b.damage /\ sets' = b.sets /\ snaps' = b.snaps
         /\ stints' = b.stints /\ pending' = b.pending /\ recent' = b.recent
         /\ Books' = b
BY DEF Keep, Books, BookType

\* And so are the variables then.
LEMMA KeepTyped ==
  ASSUME NEW b, GoodBooks(b), Keep(b)
  PROVE  /\ pending' \in SUBSET {"lap", "damage"} /\ sets' \in 0..MaxSet
         /\ damage' \in Sample \cup {Missing} /\ snaps' \in [Laps -> Sample \cup {Missing}]
         /\ stints' \in Seq(Stint) /\ recent' \in Seq(Measurement)
         /\ KnownIn(Books)' /\ (stints' # <<>> \/ pending' # {} => Begun(b))
<1>1. b \in BookType /\ KnownIn(b)
  BY DEF GoodBooks
<1>2. KnownIn(b) => KnownIn(Books')
  BY <1>1, KeepIs
<1>3. KnownIn(Books)' <=> KnownIn(Books')
  BY DEF KnownIn, Books
<1> QED BY <1>1, <1>2, <1>3, KeepIs DEF BookType, Begun

\* A sequence of stints has stints in it.
LEMMA TypedImplies ==
  ASSUME Typed
  PROVE  TypeOK
<1>1. Range(saved) \subseteq Game
  BY RangeOfSeq DEF Typed, Range
<1>2. ASSUME NEW h \in Seq(Stint), NEW i \in DOMAIN h PROVE IsStint(h[i])
  <2>1. h[i] \in Stint
    BY <1>2, LenProperties, ElementOfSeq
  <2>2. h[i].start \in 1..MaxLap /\ h[i].index \in Sets /\ h[i].wear \in Seq(Wear)
    BY <2>1 DEF Stint
  <2>3. \A j \in DOMAIN h[i].wear : h[i].wear[j] \in Wear
    BY <2>2, LenProperties, ElementOfSeq
  <2> QED BY <2>2, <2>3 DEF IsStint
<1>3. \A i \in DOMAIN recent : recent[i] \in [of : Sample, lap : 1..MaxLap]
  BY LenProperties, ElementOfSeq DEF Typed, Measurement
<1>4. (\A i \in DOMAIN stints : IsStint(stints[i])) /\ \A i \in DOMAIN exported : IsStint(exported[i])
  BY <1>2 DEF Typed
<1> QED BY <1>1, <1>3, <1>4 DEF Typed, TypeOK

\* What the game measures, of a lap of the race.
LEMMA MeasuredIs ==
  ASSUME game \in Game
  PROVE  /\ Measured \in Sample /\ Measured # Missing /\ Measured.set = game.set
         /\ [of |-> Measured, lap |-> game.lap] \in Measurement
         /\ game.since >= game.lap => Measured.age = 0
<1>1. /\ game.lap \in 1..MaxLap /\ game.since \in 1..MaxLap + 1 /\ game.set \in Sets
      /\ MaxLap \in Nat
  BY Bounds DEF Game
<1>2. (IF game.lap < game.since THEN 0 ELSE game.lap - game.since) \in Laps
  BY <1>1 DEF Laps
<1>3. Measured \in Sample
  BY <1>1, <1>2 DEF Measured, Sample
<1> QED BY <1>1, <1>3, Bounds DEF Measured, Measurement

\* At first nothing is known.
LEMMA InitTyped ==
  ASSUME Init
  PROVE  Typed /\ Known
<1>1. game \in Game
  BY Bounds DEF Init, Game, Sets
<1>2. snaps \in [Laps -> Sample \cup {Missing}]
  BY DEF Init
<1>3. /\ saved \in Seq(Game) /\ stints \in Seq(Stint) /\ recent \in Seq(Measurement)
      /\ exported \in Seq(Stint)
  BY DEF Init
<1>4. /\ weird \in BOOLEAN /\ due \in SUBSET Kinds /\ pending \in SUBSET {"lap", "damage"}
      /\ cur \in Laps /\ numLaps \in Laps /\ sets \in 0..MaxSet /\ changes \in 0..MaxChanges
      /\ troubles \in Nat /\ exact \in BOOLEAN /\ damage \in Sample \cup {Missing}
  BY Bounds, BoundsAssumption DEF Init
<1>5. Known
  BY DEF Init, Known, KnownIn, Books
<1> QED BY <1>1, <1>2, <1>3, <1>4, <1>5 DEF Typed

\* The game changes nothing of the books.
LEMMA AdvancesTyped ==
  ASSUME Typed, Known, NEW n \in Nat, Advances(n), game' \in Game, saved' \in Seq(Game),
         changes' \in 0..MaxChanges
  PROVE  Typed' /\ Known'
<1>1. /\ UNCHANGED <<weird, cur, numLaps, books, exported>> /\ due' = Kinds
      /\ troubles' \in Nat /\ exact' \in BOOLEAN
  BY DEF Advances, Typed
<1>2. Typed'
  BY <1>1 DEF Typed, books
<1>3. Known'
  BY <1>1 DEF Known, KnownIn, Books, books
<1> QED BY <1>2, <1>3

\* A saved moment is one of the game.
LEMMA SavesTyped ==
  ASSUME Typed, Saves
  PROVE  saved' \in Seq(Game)
<1>1. game \in Game /\ saved \in Seq(Game)
  BY DEF Typed
<1>2. CASE Len(saved) = 2
  <2>1. saved[2] \in Game
    BY <1>1, <1>2, ElementOfSeq
  <2> QED BY <1>1, <1>2, <2>1 DEF Saves
<1>3. CASE Len(saved) # 2
  BY <1>1, <1>3, AppendProperties DEF Saves
<1> QED BY <1>2, <1>3

\* A packet changes the books and its own part.
LEMMA PacketTyped ==
  ASSUME Typed, NEW kind, Received(kind), NEW b, GoodBooks(b), Keep(b), Begun(b) => cur' # 0,
         cur' \in Laps, numLaps' \in Laps, exported' \in Seq(Stint), exact' \in BOOLEAN
  PROVE  Typed' /\ Known'
<1>1. /\ pending' \in SUBSET {"lap", "damage"} /\ sets' \in 0..MaxSet
      /\ damage' \in Sample \cup {Missing} /\ snaps' \in [Laps -> Sample \cup {Missing}]
      /\ stints' \in Seq(Stint) /\ recent' \in Seq(Measurement)
      /\ KnownIn(Books)' /\ (stints' # <<>> \/ pending' # {} => cur' # 0)
  BY KeepTyped
<1>2. due' \in SUBSET Kinds /\ UNCHANGED <<world, changes, troubles>>
  BY DEF Received, Typed
<1>3. Typed'
  BY <1>1, <1>2 DEF Typed, world
<1> QED BY <1>1, <1>3 DEF Known

\* Lap data leave everything of its type,
LEMMA LapDataTyped ==
  ASSUME Typed, Known, LapData
  PROVE  Typed' /\ Known'
<1> DEFINE Zeroth(c) == IF CapturesZerothLap(c) THEN LapChanged(Books, 0, FALSE) ELSE Books
           Moved(b) == IF cur < game.lap THEN LapChanged(b, cur, FALSE) ELSE LapChanged(b, game.lap, TRUE)
           After(b) == IF cur \in {0, game.lap} THEN b ELSE OnEvent(Moved(b), "lap", game.lap)
<1>1. PICK c \in BOOLEAN : Keep(After(Zeroth(c)))
  BY DEF LapData
<1>2. Received("lap") /\ cur' = game.lap /\ UNCHANGED <<numLaps, exported, exact>>
  BY DEF LapData
<1>3. game.lap \in 1..MaxLap /\ game.lap \in Laps /\ cur \in Laps /\ game.lap # 0
  BY Bounds DEF Typed, Game
<1>4. GoodBooks(Zeroth(c))
  <2>1. GoodBooks(Books) /\ 0 \in Laps /\ FALSE \in BOOLEAN
    BY BooksGood, Bounds
  <2> QED BY <2>1, LapChangedGood
<1> DEFINE b == Zeroth(c)
<1> HIDE DEF Zeroth
<1>5. GoodBooks(Moved(b))
  <2>1. FALSE \in BOOLEAN /\ TRUE \in BOOLEAN
    OBVIOUS
  <2> QED BY <1>3, <1>4, <2>1, LapChangedGood
<1> HIDE DEF Moved
<1>6. GoodBooks(After(b))
  BY <1>3, <1>4, <1>5, OnEventGood
<1> HIDE DEF After
<1>7. cur' \in Laps /\ cur' # 0 /\ numLaps' \in Laps /\ exported' \in Seq(Stint) /\ exact' \in BOOLEAN
  BY <1>2, <1>3 DEF Typed
<1> QED BY <1>1, <1>2, <1>6, <1>7, PacketTyped

\* What a damage packet makes of the books before the events.
WithDamage(b) == [b EXCEPT !.damage = Measured,
                           !.recent = Pushed(b.recent, [of |-> Measured, lap |-> game.lap])]

\* The measurement and the copy of the packet are damage.
LEMMA WithDamageGood ==
  ASSUME game \in Game, NEW b, GoodBooks(b), NEW d, d = WithDamage(b)
  PROVE  /\ GoodBooks(d) /\ d.stints = b.stints /\ d.pending = b.pending /\ d.sets = b.sets
         /\ d.snaps = b.snaps /\ d.damage = Measured
         /\ d.recent = Pushed(b.recent, [of |-> Measured, lap |-> game.lap])
<1> DEFINE m == [of |-> Measured, lap |-> game.lap]
           r == Pushed(b.recent, m)
<1>1. b \in BookType /\ KnownIn(b) /\ b.recent \in Seq(Measurement)
  BY DEF GoodBooks, BookType
<1>2. Measured \in Sample /\ Measured # Missing /\ m \in Measurement
  BY MeasuredIs
<1>3. r \in Seq(Measurement)
  <2> HIDE DEF m
  <2> QED BY <1>1, <1>2, PushedIs
<1>4. d = [b EXCEPT !.damage = Measured, !.recent = r]
  BY DEF WithDamage
<1> HIDE DEF m, r
<1>5. /\ d.stints = b.stints /\ d.pending = b.pending /\ d.sets = b.sets
      /\ d.snaps = b.snaps /\ d.damage = Measured /\ d.recent = r /\ d \in BookType
  BY <1>1, <1>2, <1>3, <1>4 DEF BookType
<1>6. KnownIn(d)
  BY <1>1, <1>2, <1>5 DEF KnownIn
<1> QED BY <1>5, <1>6 DEF GoodBooks, r, m

\* and so do a damage packet,
LEMMA CarDamageTyped ==
  ASSUME Typed, Known, CarDamage
  PROVE  Typed' /\ Known'
<1> DEFINE d == WithDamage(Books)
           e == OnEvent(d, "damage", cur)
<1>1. /\ GoodBooks(Books) /\ (Begun(Books) => cur # 0) /\ Books.recent = recent
      /\ Books \in BookType
  BY BooksGood DEF GoodBooks
<1>2. [Books EXCEPT !.damage = Measured, !.recent = Pushed(@, [of |-> Measured, lap |-> game.lap])] = d
  BY <1>1 DEF WithDamage, BookType
<1>3. Keep(e) /\ Received("damage") /\ UNCHANGED <<cur, numLaps, exported, exact>>
  BY <1>2 DEF CarDamage
<1>4. game \in Game /\ cur \in Laps
  BY DEF Typed
<1> HIDE DEF d
<1>5. GoodBooks(d) /\ (Begun(d) => Begun(Books)) /\ d.pending = Books.pending
  BY <1>1, <1>4, WithDamageGood DEF d, Begun
<1>6. d.pending # {} => cur \in 1..MaxLap
  BY <1>1, <1>4, <1>5, Bounds DEF Begun, Laps
<1>7. GoodBooks(e) /\ (Begun(e) => Begun(d))
  BY <1>5, <1>6, OnEventGood
<1> HIDE DEF e
<1>8. /\ cur' \in Laps /\ numLaps' \in Laps /\ exported' \in Seq(Stint) /\ exact' \in BOOLEAN
      /\ (Begun(e) => cur' # 0)
  BY <1>1, <1>3, <1>5, <1>7 DEF Typed
<1> QED BY <1>3, <1>7, <1>8, PacketTyped

WithSets(b) == [b EXCEPT !.sets = game.set]

\* The fitted set is one.
LEMMA WithSetsGood ==
  ASSUME game \in Game, NEW b, GoodBooks(b), NEW d, d = WithSets(b)
  PROVE  /\ GoodBooks(d) /\ d.stints = b.stints /\ d.pending = b.pending /\ d.sets = game.set
         /\ d.snaps = b.snaps /\ d.damage = b.damage /\ d.recent = b.recent /\ d.sets # 0
<1>1. b \in BookType /\ KnownIn(b) /\ d = [b EXCEPT !.sets = game.set]
  BY DEF GoodBooks, WithSets
<1>2. game.set \in 0..MaxSet /\ game.set # 0
  BY Bounds DEF Game, Sets
<1>3. /\ d.stints = b.stints /\ d.pending = b.pending /\ d.sets = game.set
      /\ d.snaps = b.snaps /\ d.damage = b.damage /\ d.recent = b.recent /\ d \in BookType
  BY <1>1, <1>2 DEF BookType
<1>4. KnownIn(d)
  BY <1>1, <1>2, <1>3 DEF KnownIn
<1> QED BY <1>2, <1>3, <1>4 DEF GoodBooks

\* the tyre sets,
LEMMA TyreSetsTyped ==
  ASSUME Typed, Known, TyreSets
  PROVE  Typed' /\ Known'
<1> DEFINE d == WithSets(Books)
           e == Updated(d)
<1>1. GoodBooks(Books) /\ (Begun(Books) => cur # 0)
  BY BooksGood
<1>2. Keep(e) /\ Received("sets") /\ UNCHANGED <<cur, numLaps, exported, exact>>
  BY DEF TyreSets, WithSets
<1>3. game \in Game
  BY DEF Typed
<1> HIDE DEF d
<1>4. GoodBooks(d) /\ (Begun(d) => Begun(Books)) /\ d.sets # 0
  BY <1>1, <1>3, WithSetsGood DEF d, Begun
<1>5. GoodBooks(e) /\ (Begun(e) => Begun(d) \/ cur # 0)
  BY <1>4, UpdatedGood
<1> HIDE DEF e
<1>6. /\ cur' \in Laps /\ numLaps' \in Laps /\ exported' \in Seq(Stint) /\ exact' \in BOOLEAN
      /\ (Begun(e) => cur' # 0)
  BY <1>1, <1>2, <1>4, <1>5 DEF Typed
<1> QED BY <1>2, <1>5, <1>6, PacketTyped

\* a page that is read
LEMMA ReadTyped ==
  ASSUME Typed, Known, Read
  PROVE  Typed' /\ Known'
<1> DEFINE h == Pruned(stints, numLaps)
<1>1. stints \in Seq(Stint) /\ numLaps \in Nat
  BY DEF Typed, Laps
<1>2. h \in Seq(Stint) /\ (stints = <<>> => h = <<>>)
  <2>1. /\ h \in Seq(Stint)
        /\ \E p \in [1..Len(h) -> 1..Len(stints)] : \A k \in 1..Len(h) : h[k] = stints[p[k]]
    BY <1>1, PrunedKeeps
  <2>2. ASSUME stints = <<>>, h # <<>> PROVE FALSE
    <3>1. PICK p : p \in [1..Len(h) -> 1..Len(stints)]
      BY <2>1
    <3>2. Len(stints) = 0 /\ 1 \in 1..Len(h)
      BY <2>1, <2>2, EmptySeq
    <3>3. p[1] \in 1..0
      BY <3>1, <3>2
    <3> QED BY <3>3
  <2> QED BY <2>1, <2>2
<1> HIDE DEF h
<1>3. /\ stints' = h /\ troubles' = troubles + 1 /\ exact' \in BOOLEAN
      /\ UNCHANGED <<game, saved, weird, due, cur, numLaps, damage, sets, snaps, pending, recent,
                     exported, changes>>
  BY DEF Read, world, h, Typed
<1>4. Typed'
  BY <1>2, <1>3 DEF Typed
<1>5. Known'
  BY <1>2, <1>3 DEF Known, KnownIn, Books
<1> QED BY <1>4, <1>5

\* and the final classification.
LEMMA FinalClassificationTyped ==
  ASSUME Typed, Known, FinalClassification
  PROVE  Typed' /\ Known'
<1> DEFINE b == LapChanged(Books, MaxLap, FALSE)
           h == Pruned(b.stints, numLaps)
           c == [b EXCEPT !.stints = h]
<1>1. GoodBooks(Books) /\ (Begun(Books) => cur # 0)
  BY BooksGood
<1>2. GoodBooks(b) /\ (Begun(b) => Begun(Books)) /\ b.damage = damage
  <2>1. MaxLap \in Laps /\ FALSE \in BOOLEAN
    BY Bounds
  <2> QED BY <1>1, <2>1, LapChangedGood, BooksGood
<1>3. damage # Missing /\ numLaps \in Nat
  BY DEF FinalClassification, Typed, Laps
<1>4. numLaps # 0 /\ game.over /\ cur \in Laps
  BY DEF FinalClassification, Typed
<1>5. /\ Keep(c) /\ exported' = h /\ exact' \in BOOLEAN
      /\ UNCHANGED <<world, due, cur, numLaps, changes, troubles>>
  BY DEF FinalClassification, Typed
<1> HIDE DEF b
<1>6. b \in BookType /\ KnownIn(b) /\ b.stints \in Seq(Stint)
  BY <1>2 DEF GoodBooks, BookType
<1>7. h \in Seq(Stint)
  BY <1>3, <1>6, PrunedKeeps
<1>8. b.stints = <<>> => h = <<>>
  <2>1. \E p \in [1..Len(h) -> 1..Len(b.stints)] : \A k \in 1..Len(h) : h[k] = b.stints[p[k]]
    BY <1>3, <1>6, PrunedKeeps
  <2>2. ASSUME b.stints = <<>>, h # <<>> PROVE FALSE
    <3>1. PICK p : p \in [1..Len(h) -> 1..Len(b.stints)]
      BY <2>1
    <3>2. Len(b.stints) = 0 /\ 1 \in 1..Len(h)
      BY <1>7, <2>2, EmptySeq
    <3>3. p[1] \in 1..0
      BY <3>1, <3>2
    <3> QED BY <3>3
  <2> QED BY <2>2
<1> HIDE DEF h
<1>9. /\ c \in BookType /\ c.damage = b.damage /\ c.sets = b.sets /\ c.pending = b.pending
      /\ c.stints = h /\ c.snaps = b.snaps
  BY <1>6, <1>7 DEF BookType
<1>10. GoodBooks(c) /\ (Begun(c) => Begun(b))
  BY <1>2, <1>3, <1>6, <1>8, <1>9 DEF GoodBooks, KnownIn, Begun
<1> HIDE DEF c
<1>11. /\ pending' \in SUBSET {"lap", "damage"} /\ sets' \in 0..MaxSet
       /\ damage' \in Sample \cup {Missing} /\ snaps' \in [Laps -> Sample \cup {Missing}]
       /\ stints' \in Seq(Stint) /\ recent' \in Seq(Measurement)
       /\ KnownIn(Books)' /\ (stints' # <<>> \/ pending' # {} => Begun(c))
  BY <1>5, <1>10, KeepTyped
<1>12. Typed'
  BY <1>5, <1>7, <1>11 DEF Typed, world
<1>13. Known'
  BY <1>1, <1>2, <1>5, <1>10, <1>11 DEF Known
<1> QED BY <1>12, <1>13

\* So every step does.
LEMMA NextTyped ==
  ASSUME Typed, Known, [Next]_vars
  PROVE  Typed' /\ Known'
<1>1. game \in Game /\ saved \in Seq(Game) /\ changes \in 0..MaxChanges /\ 0 \in Nat /\ 1 \in Nat
  BY DEF Typed
<1>2. CASE CompletesLap
  <2>1. game' \in Game
    <3>1. CASE game.lap < MaxLap
      <4>1. game' = [game EXCEPT !.lap = game.lap + 1]
        BY <1>2, <3>1 DEF CompletesLap
      <4>2. game.lap + 1 \in 1..MaxLap
        BY <1>1, <3>1, Bounds DEF Game
      <4> QED BY <1>1, <4>1, <4>2 DEF Game
    <3>2. CASE ~(game.lap < MaxLap)
      <4>1. game' = [game EXCEPT !.over = TRUE]
        BY <1>2, <3>2 DEF CompletesLap
      <4> QED BY <1>1, <4>1 DEF Game
    <3> QED BY <3>1, <3>2
  <2> QED BY <1>1, <1>2, <2>1, SavesTyped, AdvancesTyped DEF CompletesLap
<1>3. CASE ChangesTyres
  <2>1. PICK s \in Sets : game' = [game EXCEPT !.set = s, !.since = IF weird THEN game.lap + 1 ELSE game.lap]
    BY <1>3 DEF ChangesTyres
  <2>2. (IF weird THEN game.lap + 1 ELSE game.lap) \in 1..MaxLap + 1
    BY <1>1, Bounds DEF Game
  <2>3. game' \in Game
    BY <1>1, <2>1, <2>2 DEF Game
  <2>4. changes' \in 0..MaxChanges
    BY <1>1, <1>3, BoundsAssumption DEF ChangesTyres
  <2> QED BY <1>1, <1>3, <2>3, <2>4, SavesTyped, AdvancesTyped DEF ChangesTyres
<1>4. CASE GoesBack
  <2>1. PICK i \in DOMAIN saved : game' = saved[i] /\ saved' = SubSeq(saved, 1, i - 1)
    BY <1>4 DEF GoesBack
  <2>2. i \in 1..Len(saved) /\ Len(saved) \in Nat
    BY <1>1, LenProperties
  <2>3. game' \in Game
    BY <1>1, <2>1, <2>2, ElementOfSeq
  <2>4. saved' \in Seq(Game)
    <3>1. \A j \in 1..(i - 1) : saved[j] \in Game
      BY <1>1, <2>2, ElementOfSeq
    <3>2. 1 \in Int /\ i - 1 \in Int
      BY <2>2
    <3> QED BY <2>1, <3>1, <3>2, SubSeqProperties
  <2> QED BY <1>1, <1>4, <2>3, <2>4, AdvancesTyped DEF GoesBack
<1>5. CASE SessionHistory
  <2>1. /\ UNCHANGED <<game, saved, weird, changes, troubles, cur, damage, sets, snaps, stints, pending,
                       recent, exported, exact>>
        /\ due' \in SUBSET Kinds /\ numLaps' \in Laps
    BY <1>5, Bounds DEF SessionHistory, Received, world, books, Typed, Game
  <2>2. Typed'
    BY <2>1 DEF Typed
  <2>3. Known'
    BY <2>1 DEF Known, KnownIn, Books
  <2> QED BY <2>2, <2>3
<1>6. CASE UNCHANGED vars
  <2>1. Typed'
    BY <1>6 DEF Typed, vars, world, books
  <2>2. Known'
    BY <1>6 DEF Known, KnownIn, Books, vars, books
  <2> QED BY <2>1, <2>2
<1> QED BY <1>2, <1>3, <1>4, <1>5, <1>6, LapDataTyped, CarDamageTyped, TyreSetsTyped, ReadTyped,
           FinalClassificationTyped DEF Next, Packet

\* Everything keeps its type, and no stint or awaited change comes before what it is made of.
THEOREM Types == Spec => [](Typed /\ Known)
<1>1. Init => Typed /\ Known
  BY InitTyped
<1>2. (Typed /\ Known) /\ [Next]_vars => (Typed /\ Known)'
  BY NextTyped
<1> QED BY <1>1, <1>2, PTL DEF Spec

\* Every variable keeps its type, for any numbers of laps, sets, changes and troubles: no
\* stint begins outside the race, none is of no set and none has the wear of no packet.
THEOREM TypeCorrect == Spec => []TypeOK
<1>1. Typed /\ Known => TypeOK
  BY TypedImplies
<1> QED BY <1>1, Types, PTL

-----------------------------------------------------------------------------
(* The books are exact: one lemma per action.                               *)

\* The parts of it.
LEMMA ExactParts ==
  ASSUME Exactly, exact
  PROVE  /\ Synced /\ (stints = <<>> => Waiting)
         /\ (stints # <<>> => Running /\ (weird => Weird) /\ (~weird => Normal))
         /\ (exported # <<>> => Covers(exported))
BY DEF Exactly

\* Nothing has happened at first.
LEMMA InitExact ==
  ASSUME Init
  PROVE  Exactly
<1>1. Synced
  BY DEF Init, Synced, Kinds
<1>2. Waiting
  <2>1. game = Start /\ cur = 0 /\ damage = Missing /\ sets = 0 /\ pending = {} /\ exported = <<>>
    BY DEF Init, Start
  <2>2. \A l \in Laps : snaps[l] = Missing
    BY DEF Init
  <2>3. recent = <<>> /\ "damage" \in due
    BY DEF Init, Kinds
  <2> QED BY <2>1, <2>2, <2>3, Bounds DEF Waiting
<1> QED BY <1>1, <1>2 DEF Init, Exactly

\* What the game does is exact only with all packets received and the stints begun.
LEMMA AdvancesExact ==
  ASSUME Typed, Exactly, NEW n \in Nat, Advances(n), exact'
  PROVE  /\ n = 0 /\ due = {} /\ due' = Kinds /\ stints # <<>> /\ (weird \/ pending = {})
         /\ ~game.over /\ Running /\ (weird => Weird) /\ (~weird => Normal) /\ exported = <<>>
         /\ cur = game.lap /\ damage = Measured /\ sets = game.set
         /\ UNCHANGED <<weird, cur, damage, sets, snaps, stints, pending, recent, exported>>
         /\ numLaps = game.lap /\ numLaps' = numLaps
<1>1. /\ ~game.over /\ exact /\ n + (IF due = {} THEN 0 ELSE 1) = 0
      /\ stints # <<>> /\ (weird \/ pending = {}) /\ due' = Kinds
      /\ UNCHANGED <<weird, cur, numLaps, damage, sets, snaps, stints, pending, recent, exported>>
  BY DEF Advances, books
<1>2. n = 0 /\ due = {}
  BY <1>1
<1>3. Synced /\ Running /\ (weird => Weird) /\ (~weird => Normal)
  BY <1>1, ExactParts
<1>4. cur = game.lap /\ damage = Measured /\ sets = game.set /\ numLaps = game.lap
  BY <1>2, <1>3 DEF Synced
<1>5. exported = <<>>
  BY <1>1, <1>3 DEF Running
<1> QED BY <1>1, <1>2, <1>3, <1>4, <1>5

\* While nothing of the car changes and the game is at the lap of the car or the next, it is as it was.
LEMMA RunningAgain ==
  ASSUME Typed, Running, cur = game.lap, exported = <<>>,
         UNCHANGED <<weird, cur, snaps, stints, pending, exported>>,
         game'.lap = game.lap \/ game'.lap = game.lap + 1
  PROVE  Running'
<1>1. cur \in Nat /\ game.lap \in Nat
  BY Bounds DEF Typed, Laps
<1>2. cur' \in {game'.lap - 1, game'.lap} /\ cur' >= 1
  BY <1>1 DEF Running
<1>3. exported' = <<>> /\ snaps'[0] # Missing
  BY DEF Running
<1>4. \A l \in Laps : l >= cur' => snaps'[l] = Missing
  BY DEF Running
<1>5. Chained(stints')
  BY DEF Running
<1>6. OwnWear(stints', Mixed')
  BY DEF Running, OwnWear, Mixed
<1>7. Len(LastStint(stints').wear) = cur' - LastStint(stints').start + 1
  BY DEF Running
<1> QED BY <1>2, <1>3, <1>4, <1>5, <1>6, <1>7 DEF Running

\* Over the line, the car has the laps of before; at the last line the race is over.
LEMMA CompletesLapExact ==
  ASSUME Typed, Exactly, CompletesLap, exact'
  PROVE  Exactly'
<1>1. /\ due = {} /\ due' = Kinds /\ stints # <<>> /\ (weird \/ pending = {})
      /\ ~game.over /\ Running /\ (weird => Weird) /\ (~weird => Normal) /\ exported = <<>>
      /\ cur = game.lap /\ damage = Measured /\ sets = game.set
      /\ UNCHANGED <<weird, cur, damage, sets, snaps, stints, pending, recent, exported>>
      /\ numLaps = game.lap /\ numLaps' = numLaps
  <2>1. 0 \in Nat /\ Advances(0)
    BY DEF CompletesLap
  <2> QED BY <2>1, AdvancesExact
<1>2. game \in Game /\ game.lap \in Nat /\ game.lap <= MaxLap /\ game.since \in Nat /\ MaxLap \in Nat
  BY Bounds DEF Typed, Game
<1>3. Index' = Index /\ stints' # <<>> /\ (Mixed' <=> Mixed)
  BY <1>1 DEF Index, Mixed
<1>4. CASE game.lap < MaxLap
  <2>1. game' = [game EXCEPT !.lap = game.lap + 1]
    BY <1>4 DEF CompletesLap
  <2>2. /\ game'.lap = game.lap + 1 /\ game'.set = game.set /\ game'.since = game.since
        /\ game'.over = game.over
    BY <1>2, <2>1 DEF Game
  <2>3. Synced'
    BY <1>1, <2>2 DEF Synced, Kinds
  <2>4. Running'
    BY <1>1, <2>2, RunningAgain
  <2>5. ASSUME Settled PROVE Settled'
    BY <1>1, <1>2, <1>3, <2>2, <2>5 DEF Settled
  <2>6. ASSUME ~weird PROVE Normal'
    BY <1>1, <2>5, <2>6 DEF Normal
  <2>7. ASSUME weird PROVE Weird'
    <3>1. History'
      <4>1. Ordered(recent, game.lap)
        BY <1>1, <2>7 DEF Weird, History
      <4>2. Ordered(recent', game'.lap)
        <5>1. \A i \in DOMAIN recent : recent[i].lap \in Nat
          <6>1. \A x \in Measurement : x.lap \in Nat
            BY Bounds DEF Measurement
          <6> QED BY <6>1, LenProperties, ElementOfSeq DEF Typed
        <5> QED BY <1>1, <1>2, <2>2, <4>1, <5>1 DEF Ordered
      <4>3. \A i \in DOMAIN recent : recent[i].lap # game'.lap
        BY <1>1, <1>2, <2>2, <4>1 DEF Ordered
      <4> QED BY <1>1, <4>2, <4>3 DEF History, Kinds
    <3>2. ASSUME Stopped PROVE Crossed'
      <4>1. /\ game.since = game.lap + 1 /\ "lap" \in pending /\ Led(recent, game.lap, Index)
            /\ \A i \in DOMAIN recent : recent[i].lap = game.lap
        BY <1>1, <3>2 DEF Stopped
      <4>2. damage.set = game.set
        BY <1>1, MeasuredIs DEF Typed
      <4>3. Leads(recent', game'.lap, Index')
        <5>1. PICK k \in DOMAIN recent : LedAt(k, recent, game.lap, Index)
          BY <4>1 DEF Led
        <5>2. DOMAIN recent = 1..Len(recent) /\ Len(recent) \in Nat
          BY LenProperties DEF Typed
        <5>3. k = 1
          <6> SUFFICES ASSUME k # 1 PROVE FALSE
            OBVIOUS
          <6>1. 1 \in 1..(k - 1) /\ 1 \in DOMAIN recent
            BY <5>2
          <6>2. recent[1].lap < game.lap /\ recent[1].lap = game.lap
            BY <4>1, <5>1, <6>1 DEF LedAt
          <6> QED BY <1>2, <6>2
        <5>4. /\ recent[1].of.set = Index /\ recent # <<>>
              /\ \A j \in DOMAIN recent : recent[j].of.age <= recent[1].of.age
          BY <4>1, <5>1, <5>2, <5>3 DEF LedAt
        <5>5. \A j \in DOMAIN recent : recent[j].lap >= game'.lap - 1
          BY <1>2, <2>2, <4>1
        <5> QED BY <1>1, <1>3, <5>4, <5>5 DEF Leads
      <4> QED BY <1>1, <1>2, <2>2, <4>1, <4>2, <4>3 DEF Crossed, Kinds
    <3>3. ~Crossed /\ ~Waits
      BY <1>1, <1>2 DEF Crossed, Waits
    <3> QED BY <1>1, <2>5, <2>7, <3>1, <3>2, <3>3 DEF Weird
  <2> QED BY <1>1, <1>3, <2>3, <2>4, <2>6, <2>7 DEF Exactly
<1>5. CASE ~(game.lap < MaxLap)
  <2>1. game' = [game EXCEPT !.over = TRUE]
    BY <1>5 DEF CompletesLap
  <2>2. /\ game'.lap = game.lap /\ game'.set = game.set /\ game'.since = game.since
        /\ game.lap = MaxLap
    BY <1>2, <1>5, <2>1 DEF Game
  <2>3. Measured' = Measured
    BY <2>2 DEF Measured
  <2>4. Synced'
    BY <1>1, <2>2, <2>3 DEF Synced
  <2>5. Running'
    BY <1>1, <2>2, RunningAgain
  <2>6. ASSUME Settled PROVE Settled'
    BY <1>1, <1>3, <2>2, <2>6 DEF Settled
  <2>7. ASSUME ~weird PROVE Normal'
    BY <1>1, <2>6, <2>7 DEF Normal
  <2>8. ASSUME weird PROVE Weird'
    <3>1. History'
      BY <1>1, <2>2, <2>3, <2>8 DEF Weird, History, Kinds
    <3>2. ASSUME Stopped PROVE Stopped'
      BY <1>1, <1>3, <2>2, <3>2 DEF Stopped, Kinds
    <3>3. ~Crossed /\ ~Waits
      BY <1>1, <1>2 DEF Crossed, Waits
    <3> QED BY <1>1, <2>6, <2>8, <3>1, <3>2, <3>3 DEF Weird
  <2> QED BY <1>1, <1>3, <2>4, <2>5, <2>7, <2>8 DEF Exactly
<1> QED BY <1>4, <1>5

\* A change of tyres is not detected yet.
LEMMA ChangesTyresExact ==
  ASSUME Typed, Exactly, ChangesTyres, exact'
  PROVE  Exactly'
<1>1. /\ due = {} /\ due' = Kinds /\ stints # <<>> /\ (weird \/ pending = {})
      /\ ~game.over /\ Running /\ (weird => Weird) /\ (~weird => Normal) /\ exported = <<>>
      /\ cur = game.lap /\ damage = Measured /\ sets = game.set
      /\ UNCHANGED <<weird, cur, damage, sets, snaps, stints, pending, recent, exported>>
      /\ numLaps = game.lap /\ numLaps' = numLaps
  <2>1. 0 \in Nat /\ Advances(0)
    BY DEF ChangesTyres
  <2> QED BY <2>1, AdvancesExact
<1>2. game \in Game /\ game.lap \in Nat /\ game.since \in Nat
  BY Bounds DEF Typed, Game
<1>3. Index' = Index /\ stints' # <<>> /\ (Mixed' <=> Mixed)
  BY <1>1 DEF Index, Mixed
<1>4. /\ game'.lap = game.lap /\ game'.over = game.over /\ game'.set # game.set
      /\ game'.since = IF weird THEN game.lap + 1 ELSE game.lap
  BY <1>2 DEF ChangesTyres, Game
<1>5. Synced'
  BY <1>1, <1>4 DEF Synced, Kinds
<1>6. Running'
  BY <1>1, <1>4, RunningAgain
<1>7. ASSUME ~weird PROVE Normal'
  <2>1. Settled
    BY <1>1, <1>7 DEF Normal
  <2> QED BY <1>1, <1>2, <1>3, <1>4, <1>7, <2>1 DEF Normal, Settled, Kinds
<1>8. ASSUME weird PROVE Weird'
  <2>1. History /\ (Settled \/ Stopped \/ Crossed \/ Waits)
    BY <1>1, <1>8 DEF Weird
  <2>2. ~Crossed /\ ~Waits
    BY <1>1, <1>2 DEF Crossed, Waits
  <2>3. game'.since = game'.lap + 1 /\ ~(game'.since <= game'.lap)
    BY <1>2, <1>4, <1>8
  <2>4. History'
    BY <1>1, <1>4, <2>1, <2>3 DEF History, Kinds
  <2>5. Led(recent, game.lap, Index)
    <3>1. CASE Stopped
      BY <3>1 DEF Stopped
    <3>2. CASE Settled
      <4> DEFINE B == {i \in DOMAIN recent : recent[i].lap = game.lap}
      <4>1. DOMAIN recent = 1..Len(recent) /\ Len(recent) \in Nat
        BY LenProperties DEF Typed
      <4>2. B \in SUBSET Nat /\ B # {}
        BY <1>1, <2>1, <4>1 DEF History
      <4>3. PICK k \in B : \A j \in B : k <= j
        <5> HIDE DEF B
        <5> QED BY <4>2, Least
      <4>4. \A i \in B : recent[i].of = Measured
        BY <2>1, <3>2 DEF History, Settled
      <4>5. Measured.set = Index /\ Measured.age \in Nat
        <5>1. Measured.set = game.set /\ Measured \in Sample
          BY <1>2, MeasuredIs
        <5> QED BY <3>2, <5>1 DEF Settled, Sample, Laps
      <4>6. \A j \in 1..(k - 1) : recent[j].lap < game.lap
        <5>1. ASSUME NEW j \in 1..(k - 1) PROVE recent[j].lap < game.lap
          <6>1. k \in 1..Len(recent) /\ j \in DOMAIN recent /\ j < k
            BY <4>1
          <6>2. recent[j].lap # game.lap
            BY <4>3, <6>1
          <6>3. recent[j].lap <= game.lap
            BY <2>1, <6>1 DEF History, Ordered
          <6>4. recent[j].lap \in Nat
            <7>1. \A x \in Measurement : x.lap \in Nat
              BY Bounds DEF Measurement
            <7> QED BY <6>1, <7>1, LenProperties, ElementOfSeq DEF Typed
          <6> QED BY <1>2, <6>2, <6>3, <6>4
        <5> QED BY <5>1
      <4>7. LedAt(k, recent, game.lap, Index)
        <5>1. \A j \in DOMAIN recent : recent[j].lap = game.lap => recent[j].of.age <= recent[k].of.age
          BY <4>4, <4>5
        <5>2. recent[k].lap = game.lap /\ recent[k].of.set = Index
          BY <4>4, <4>5
        <5> QED BY <4>6, <5>1, <5>2 DEF LedAt
      <4> QED BY <4>7 DEF Led
    <3> QED BY <2>1, <2>2, <3>1, <3>2
  <2>6. Stopped'
    <3>1. Led(recent', game'.lap, Index')
      BY <1>1, <1>3, <1>4, <2>5
    <3>2. CASE Settled
      BY <1>1, <1>3, <1>4, <2>3, <3>1, <3>2 DEF Stopped, Settled, Kinds
    <3>3. CASE Stopped
      BY <1>1, <1>3, <1>4, <2>3, <3>1, <3>3 DEF Stopped, Kinds
    <3> QED BY <2>1, <2>2, <3>2, <3>3
  <2> QED BY <2>4, <2>6 DEF Weird
<1> QED BY <1>1, <1>3, <1>5, <1>6, <1>7, <1>8 DEF Exactly

\* Nothing is said after a flashback.
LEMMA GoesBackInexact ==
  ASSUME Typed, GoesBack
  PROVE  ~exact'
<1>1. Advances(1)
  BY DEF GoesBack
<1>2. 1 + (IF due = {} THEN 0 ELSE 1) # 0
  OBVIOUS
<1> QED BY <1>1, <1>2 DEF Advances

\* The session history changes no stint.
LEMMA SessionHistoryExact ==
  ASSUME Typed, Exactly, SessionHistory, exact'
  PROVE  Exactly'
<1>1. /\ UNCHANGED <<game, weird, cur, damage, sets, snaps, stints, pending, recent, exported, exact>>
      /\ numLaps' = game.lap /\ due' = due \ {"history"}
  BY DEF SessionHistory, Received, world, books
<1>2. exact
  BY <1>1
<1>3. Synced' /\ (stints = <<>> => Waiting')
  BY <1>1, <1>2, ExactParts DEF Synced, Waiting, Measured
<1>4. stints # <<>> => Running'
  BY <1>1, <1>2, ExactParts DEF Running, Mixed
<1>5. Settled' <=> Settled
  BY <1>1 DEF Settled, Index
<1>6. ASSUME stints # <<>>, ~weird PROVE Normal'
  BY <1>1, <1>2, <1>5, <1>6, ExactParts DEF Normal, Index
<1>7. ASSUME stints # <<>>, weird PROVE Weird'
  <2>1. Weird
    BY <1>2, <1>7, ExactParts
  <2>2. (Stopped => Stopped') /\ (Crossed => Crossed') /\ (Waits => Waits')
    BY <1>1 DEF Stopped, Crossed, Waits, Index
  <2>3. History'
    BY <1>1, <2>1 DEF Weird, History, Measured
  <2> QED BY <1>5, <2>1, <2>2, <2>3 DEF Weird
<1>8. exported' # <<>> => Covers(exported)
  BY <1>1, <1>2, ExactParts
<1> QED BY <1>1, <1>3, <1>4, <1>6, <1>7, <1>8 DEF Exactly

\* The books when the change of tyres of a lap can be handled, and what it leaves.
Ready(b, lap) ==
  /\ b \in BookType /\ b.damage # Missing /\ b.sets # 0 /\ lap \in 1..MaxLap
  /\ b.stints # <<>> /\ Chained(b.stints) /\ b.damage.set = b.sets
  /\ Len(LastStint(b.stints).wear) = lap - LastStint(b.stints).start + 1
  /\ OwnWear(b.stints, TRUE) /\ (~weird => OwnWear(b.stints, FALSE))
  /\ weird => Leads(b.recent, lap, LastStint(b.stints).index)
Handled(b, lap, d) ==
  /\ d.stints \in Seq(Stint) /\ d.stints # <<>> /\ Chained(d.stints) /\ OwnWear(d.stints, FALSE)
  /\ LastStint(d.stints).index = b.sets /\ LastStint(d.stints).start = lap
  /\ Len(LastStint(d.stints).wear) = 1
  /\ d.damage = b.damage /\ d.sets = b.sets /\ d.snaps = b.snaps
  /\ d.pending = b.pending /\ d.recent = b.recent

\* A handled change of tyres: the last stint ends with its own tyres, the new one begins.
LEMMA ChangeSettles ==
  ASSUME NEW b, NEW lap, Ready(b, lap), NEW d, d = TyresChanged(b, lap)
  PROVE  Handled(b, lap, d)
<1>1. /\ b \in BookType /\ b.damage # Missing /\ b.sets # 0 /\ lap \in 1..MaxLap
      /\ b.stints # <<>> /\ Chained(b.stints) /\ b.damage.set = b.sets
      /\ Len(LastStint(b.stints).wear) = lap - LastStint(b.stints).start + 1
      /\ OwnWear(b.stints, TRUE) /\ (~weird => OwnWear(b.stints, FALSE))
      /\ weird => Leads(b.recent, lap, LastStint(b.stints).index)
  BY DEF Ready
<1> USE <1>1
<1> DEFINE s == NewStint(b, lap)
           v == WearOf(lap - 1, b.damage)
<1>2. s \in Stint /\ s.start = lap /\ s.index = b.sets /\ s.wear = <<v>>
  BY NewStintIn
<1>3. v \in Wear /\ v.lap = lap - 1 /\ v.of = b.damage
  <2>1. lap - 1 \in Laps /\ b.damage \in Sample
    BY Bounds DEF BookType
  <2> QED BY <2>1, Bounds
<1>4. b.stints \in Seq(Stint) /\ b.recent \in Seq(Measurement)
  BY DEF BookType
<1>5. LastStint(b.stints) \in Stint /\ LastStint(b.stints).start \in Nat /\ LastStint(b.stints).wear \in Seq(Wear)
  <2>1. \A x \in Stint : x.start \in Nat /\ x.wear \in Seq(Wear)
    BY Bounds DEF Stint
  <2>2. LastStint(b.stints) \in Stint
    BY <1>4, LastIn
  <2> QED BY <2>1, <2>2
<1>6. \E g \in Seq(Stint) :
         /\ ChangedStints(b, lap) = Append(g, s) /\ g # <<>> /\ Chained(g) /\ OwnWear(g, FALSE)
         /\ LastStint(g).start = LastStint(b.stints).start
         /\ Len(LastStint(g).wear) = Len(LastStint(b.stints).wear)
  <2>1. CASE ~weird
    BY <1>4, <2>1 DEF ChangedStints
  <2>2. CASE weird
    <3> DEFINE x == MaxAverage(b.recent)
               w == WearOf(lap - 1, x)
               g == Mended(b.stints, w)
    <3>1. b.recent # <<>> /\ x \in Sample /\ x.set = LastStint(b.stints).index
      BY <1>4, <2>2, MaxAverageIn, MaxAverageLeads DEF Leads
    <3>2. w \in Wear /\ w.lap = lap - 1 /\ w.of = x
      <4> HIDE DEF x
      <4> QED BY <3>1, Bounds
    <3>3. LastStint(b.stints).wear # <<>>
      <4>1. Len(b.stints) \in DOMAIN b.stints
        BY <1>4, LastIn, LenProperties
      <4> QED BY <4>1 DEF Chained, LastStint
    <3>4. ChangedStints(b, lap) = Append(g, s)
      BY <2>2, <3>1, <3>3 DEF ChangedStints, Mending
    <3> HIDE DEF w
    <3>5. w.lap = LastStint(b.stints).start + Len(LastStint(b.stints).wear) - 2
      BY <1>5, <3>2
    <3>6. /\ g \in Seq(Stint) /\ g # <<>> /\ Chained(g) /\ OwnWear(g, FALSE)
          /\ LastStint(g).start = LastStint(b.stints).start
          /\ Len(LastStint(g).wear) = Len(LastStint(b.stints).wear)
      <4> HIDE DEF g
      <4>1. g = Mended(b.stints, w)
        BY DEF g
      <4>2. /\ g \in Seq(Stint) /\ g # <<>> /\ LastStint(g).start = LastStint(b.stints).start
            /\ Len(LastStint(g).wear) = Len(LastStint(b.stints).wear)
            /\ Chained(g)
        BY <1>4, <3>2, <3>3, <3>5, <4>1, MendedWear
      <4>3. OwnWear(g, FALSE)
        <5>1. TRUE \in BOOLEAN /\ w.of.set = LastStint(b.stints).index
          BY <3>1, <3>2
        <5>2. \A mixed \in BOOLEAN :
                OwnWear(b.stints, mixed) /\ w.of.set = LastStint(b.stints).index => OwnWear(g, FALSE)
          BY <1>4, <3>2, <3>3, <4>1, MendedWear
        <5> QED BY <5>1, <5>2
      <4> QED BY <4>2, <4>3
    <3> QED BY <3>4, <3>6
  <2> QED BY <2>1, <2>2
<1> HIDE DEF s, v
<1>7. d = [b EXCEPT !.stints = ChangedStints(b, lap)]
  BY TyresChangedIs
<1>8. /\ d.stints = ChangedStints(b, lap) /\ d.damage = b.damage /\ d.sets = b.sets /\ d.snaps = b.snaps
      /\ d.pending = b.pending /\ d.recent = b.recent
  <2> DEFINE c == ChangedStints(b, lap)
  <2>1. d = [b EXCEPT !.stints = c]
    BY <1>7
  <2> HIDE DEF c
  <2>2. d.stints = c /\ d.damage = b.damage /\ d.sets = b.sets /\ d.snaps = b.snaps
      /\ d.pending = b.pending /\ d.recent = b.recent
    BY <2>1 DEF BookType
  <2> QED BY <2>2 DEF c
<1>9. PICK g \in Seq(Stint) :
         /\ ChangedStints(b, lap) = Append(g, s) /\ g # <<>> /\ Chained(g) /\ OwnWear(g, FALSE)
         /\ LastStint(g).start = LastStint(b.stints).start
         /\ Len(LastStint(g).wear) = Len(LastStint(b.stints).wear)
  BY <1>6
<1>10. s.start = LastStint(g).start + Len(LastStint(g).wear) - 1
  BY <1>2, <1>5, <1>9
<1>11. v.lap = s.start - 1 /\ v.of.set = s.index
  BY <1>2, <1>3
<1> DEFINE e == Append(g, s)
<1>12. /\ e \in Seq(Stint) /\ e # <<>> /\ Chained(e) /\ OwnWear(e, FALSE) /\ LastStint(e) = s
  BY <1>2, <1>3, <1>9, <1>10, <1>11, MoreStints
<1>13. Len(s.wear) = 1
  BY <1>2
<1> QED BY <1>2, <1>8, <1>9, <1>12, <1>13 DEF Handled

\* A packet that brings nothing new leaves the books exact.
LEMMA SameBooksExact ==
  ASSUME Typed, Exactly, exact, NEW kind \in Kinds \ {"damage"}, due' = due \ {kind}, Synced',
         UNCHANGED <<game, weird, cur, damage, sets, snaps, stints, pending, recent, exported>>
  PROVE  Exactly'
<1>1. stints = <<>> => Waiting'
  BY ExactParts DEF Waiting
<1>2. stints # <<>> => Running'
  BY ExactParts DEF Running, Mixed
<1>3. Settled' <=> Settled
  BY DEF Settled, Index
<1>4. game.set = sets \/ "sets" \notin due \ {kind} => sets = game.set
  BY DEF Synced
<1>5. ASSUME stints # <<>>, ~weird PROVE Normal'
  BY <1>3, <1>4, <1>5, ExactParts DEF Normal, Index
<1>6. ASSUME stints # <<>>, weird PROVE Weird'
  <2>1. Weird
    BY <1>6, ExactParts
  <2>2. (Stopped => Stopped') /\ (Crossed => Crossed') /\ (Waits => Waits')
    BY <1>4 DEF Stopped, Crossed, Waits, Index
  <2>3. History'
    BY <2>1 DEF Weird, History, Measured
  <2> QED BY <1>3, <2>1, <2>2, <2>3 DEF Weird
<1>7. exported' # <<>> => Covers(exported)
  BY ExactParts
<1> QED BY <1>1, <1>2, <1>5, <1>6, <1>7 DEF Exactly

\* The snapshots with one more, of the lap old.
Snapped(b, old) == [b.snaps EXCEPT ![old] = b.damage]

\* The lap change of a lap without a snapshot writes one, and wear if there is a stint.
LEMMA Closes ==
  ASSUME NEW b \in BookType, b.damage # Missing, NEW old \in Laps, b.snaps[old] = Missing,
         NEW d, d = LapChanged(b, old, FALSE)
  PROVE  /\ d \in BookType /\ d.damage = b.damage /\ d.sets = b.sets /\ d.pending = b.pending
         /\ d.recent = b.recent /\ d.snaps = Snapped(b, old)
         /\ old # 0 /\ b.stints # <<>> => d.stints = WithWear(b.stints, WearOf(old, b.damage))
         /\ old = 0 \/ b.stints = <<>> => d.stints = b.stints
<1> DEFINE w == WearOf(old, b.damage)
           h == IF old # 0 /\ b.stints # <<>> THEN WithWear(b.stints, w) ELSE b.stints
           s == Snapped(b, old)
<1>1. d = [b EXCEPT !.snaps = s, !.stints = h]
  BY DEF LapChanged, BookType, Snapped
<1>2. b.damage \in Sample /\ b.stints \in Seq(Stint)
  BY DEF BookType
<1>3. h \in Seq(Stint)
  <2>1. w \in Wear
    BY <1>2, Bounds
  <2> HIDE DEF w
  <2> QED BY <1>2, <2>1, MoreWear
<1>4. s \in [Laps -> Sample \cup {Missing}]
  BY <1>2 DEF BookType, Snapped
<1> HIDE DEF s, h
<1>5. /\ d \in BookType /\ d.damage = b.damage /\ d.sets = b.sets /\ d.pending = b.pending
      /\ d.recent = b.recent /\ d.snaps = s /\ d.stints = h
  BY <1>1, <1>3, <1>4 DEF BookType
<1> QED BY <1>5 DEF s, h

\* An awaited event is waited for no more, and the last of them handles the change.
LEMMA OnEventIs ==
  ASSUME NEW b \in BookType, NEW event, NEW lap, NEW d, d = OnEvent(b, event, lap)
  PROVE  /\ event \notin b.pending => d = b
         /\ event \in b.pending =>
              \E c \in BookType :
                 /\ c.damage = b.damage /\ c.sets = b.sets /\ c.snaps = b.snaps
                 /\ c.stints = b.stints /\ c.recent = b.recent /\ c.pending = b.pending \ {event}
                 /\ c.pending = {} => d = TyresChanged(c, lap)
                 /\ c.pending # {} => d = c
<1> DEFINE c == [b EXCEPT !.pending = @ \ {event}]
<1>1. /\ c \in BookType /\ c.damage = b.damage /\ c.sets = b.sets /\ c.snaps = b.snaps
      /\ c.stints = b.stints /\ c.recent = b.recent /\ c.pending = b.pending \ {event}
  BY DEF BookType
<1>2. /\ event \notin b.pending => d = b
      /\ event \in b.pending => /\ c.pending = {} => d = TyresChanged(c, lap)
                                /\ c.pending # {} => d = c
  BY DEF OnEvent
<1> HIDE DEF c
<1> QED BY <1>1, <1>2

\* The books change as the car goes on: what it takes to be running afterwards.
LEMMA RunningThen ==
  ASSUME cur' \in {game'.lap - 1, game'.lap}, cur' >= 1, exported' # <<>> => game'.over,
         snaps'[0] # Missing,
         \A l \in Laps : l >= cur' /\ ~(l = MaxLap /\ exported' # <<>>) => snaps'[l] = Missing,
         NEW h, stints' = h, Chained(h), ~Mixed' => OwnWear(h, FALSE), Mixed' => OwnWear(h, TRUE),
         Len(LastStint(h).wear) = cur' - LastStint(h).start + (IF exported' = <<>> THEN 1 ELSE 2)
  PROVE  Running'
<1>1. OwnWear(h, Mixed')
  BY DEF OwnWear
<1>2. Chained(stints') /\ OwnWear(stints', Mixed')
      /\ Len(LastStint(stints').wear) = cur' - LastStint(stints').start + (IF exported' = <<>> THEN 1 ELSE 2)
  BY <1>1
<1> QED BY <1>2 DEF Running

\* What the last stint of a running car has.
LEMMA RunningHas ==
  ASSUME Typed, Running, stints # <<>>
  PROVE  /\ stints \in Seq(Stint) /\ LastStint(stints) \in Stint /\ LastStint(stints).start \in Nat
         /\ Chained(stints) /\ OwnWear(stints, TRUE) /\ (~Mixed => OwnWear(stints, FALSE))
         /\ cur \in Laps /\ cur \in Nat /\ game.lap \in Nat /\ game.lap \in 1..MaxLap /\ cur >= 1
<1>1. stints \in Seq(Stint) /\ LastStint(stints) \in Stint
  BY LastIn DEF Typed
<1>2. LastStint(stints).start \in Nat
  BY <1>1, Bounds DEF Stint
<1>3. Chained(stints) /\ cur >= 1
  BY DEF Running
<1>4. OwnWear(stints, TRUE) /\ (~Mixed => OwnWear(stints, FALSE))
  BY DEF Running, OwnWear
<1>5. cur \in Laps /\ cur \in Nat /\ game.lap \in Nat /\ game.lap \in 1..MaxLap
  BY Bounds DEF Typed, Game, Laps
<1> QED BY <1>1, <1>2, <1>3, <1>4, <1>5

\* Before the first stint, lap data let the zeroth lap's snapshot be taken.
LEMMA LapDataWaiting ==
  ASSUME Typed, Known, Exactly, LapData, exact', stints = <<>>
  PROVE  Exactly'
<1>1. /\ due' = due \ {"lap"} /\ cur' = game.lap
      /\ UNCHANGED <<game, weird, numLaps, exported, exact>>
  BY DEF LapData, Received, world
<1>2. Synced /\ Waiting /\ exact
  BY <1>1, ExactParts
<1>3. /\ game = Start /\ game.lap = 1 /\ cur \in {0, 1} /\ snaps[0] \in {Missing, New}
      /\ \A l \in Laps \ {0} : snaps[l] = Missing
  BY <1>2 DEF Waiting, Start
<1>4. Books \in BookType /\ Books.damage = damage /\ Books.sets = sets /\ Books.snaps = snaps
      /\ Books.stints = stints /\ Books.pending = pending /\ Books.recent = recent
  BY BooksGood DEF GoodBooks
<1>5. \E b \in BookType :
         /\ Keep(b) /\ b.damage = damage /\ b.sets = sets /\ b.stints = stints /\ b.pending = pending
         /\ b.recent = recent
         /\ b.snaps[0] = snaps[0] \/ (damage # Missing /\ b.snaps[0] = damage)
         /\ \A l \in Laps \ {0} : b.snaps[l] = snaps[l]
  <2>1. PICK c \in BOOLEAN : Keep(IF CapturesZerothLap(c) THEN LapChanged(Books, 0, FALSE) ELSE Books)
    BY <1>3 DEF LapData
  <2>2. CASE CapturesZerothLap(c)
    <3> DEFINE b == LapChanged(Books, 0, FALSE)
    <3>1. damage # Missing /\ snaps[0] = Missing /\ 0 \in Laps
      BY <2>2, Bounds DEF CapturesZerothLap
    <3> HIDE DEF b
    <3>2. /\ b \in BookType /\ b.damage = damage /\ b.sets = sets /\ b.pending = pending
          /\ b.recent = recent /\ b.stints = stints
          /\ b.snaps[0] = damage /\ \A l \in Laps \ {0} : b.snaps[l] = snaps[l]
      <4>1. /\ b \in BookType /\ b.damage = Books.damage /\ b.sets = Books.sets
            /\ b.pending = Books.pending /\ b.recent = Books.recent
            /\ b.snaps = Snapped(Books, 0) /\ b.stints = Books.stints
        <5>1. b = LapChanged(Books, 0, FALSE) /\ Books.snaps[0] = Missing /\ Books.damage # Missing
          BY <1>4, <3>1 DEF b
        <5> QED BY <1>4, <3>1, <5>1, Closes
      <4>2. b.snaps[0] = damage /\ \A l \in Laps \ {0} : b.snaps[l] = snaps[l]
        BY <1>4, <3>1, <4>1 DEF Snapped, BookType
      <4> QED BY <1>4, <4>1, <4>2
    <3> QED BY <2>1, <2>2, <3>1, <3>2 DEF b
  <2>3. CASE ~CapturesZerothLap(c)
    BY <1>4, <2>1, <2>3
  <2> QED BY <2>2, <2>3
<1>6. /\ UNCHANGED <<damage, sets, stints, pending, recent>>
      /\ snaps'[0] = snaps[0] \/ (damage # Missing /\ snaps'[0] = damage)
      /\ \A l \in Laps \ {0} : snaps'[l] = snaps[l]
  BY <1>5, KeepIs
<1>7. Synced'
  BY <1>1, <1>2, <1>3, <1>6 DEF Synced, Measured
<1>8. Waiting'
  <2>1. snaps'[0] \in {Missing, New} /\ \A l \in Laps \ {0} : snaps'[l] = Missing
    BY <1>2, <1>3, <1>6, Bounds DEF Waiting, Typed
  <2> QED BY <1>1, <1>2, <1>3, <1>6, <2>1 DEF Waiting
<1>9. exported' = <<>>
  BY <1>1, <1>2 DEF Waiting
<1> QED BY <1>6, <1>7, <1>8, <1>9 DEF Exactly

\* A new lap of a running car: what the lap change alone makes of it.
LEMMA LapDataCloses ==
  ASSUME Typed, Known, Exactly, LapData, exact', stints # <<>>, cur # game.lap
  PROVE  /\ cur = game.lap - 1 /\ exported = <<>> /\ ~game.over /\ ~Mixed
         /\ due' = due \ {"lap"} /\ cur' = game.lap
         /\ UNCHANGED <<game, weird, numLaps, exported, exact>>
         /\ damage # Missing /\ sets # 0
         /\ \E b \in BookType, g \in Seq(Stint) :
              /\ Keep(OnEvent(b, "lap", game.lap))
              /\ b.damage = damage /\ b.sets = sets /\ b.recent = recent /\ b.pending = pending
              /\ b.stints = g /\ g # <<>> /\ Chained(g) /\ OwnWear(g, TRUE)
              /\ damage.set = Index => OwnWear(g, FALSE)
              /\ LastStint(g).index = Index /\ LastStint(g).start \in Nat
              /\ Len(LastStint(g).wear) = game.lap - LastStint(g).start + 1
              /\ b.snaps[0] # Missing /\ \A l \in Laps : l >= game.lap => b.snaps[l] = Missing
<1>1. /\ due' = due \ {"lap"} /\ cur' = game.lap
      /\ UNCHANGED <<game, weird, numLaps, exported, exact>>
  BY DEF LapData, Received, world
<1>2. exact /\ Synced /\ Running /\ (weird => Weird) /\ (~weird => Normal)
  BY <1>1, ExactParts
<1>3. /\ stints \in Seq(Stint) /\ LastStint(stints) \in Stint /\ LastStint(stints).start \in Nat
      /\ Chained(stints) /\ OwnWear(stints, TRUE) /\ (~Mixed => OwnWear(stints, FALSE))
      /\ cur \in Laps /\ cur \in Nat /\ game.lap \in Nat /\ game.lap \in 1..MaxLap /\ cur >= 1
  BY <1>2, RunningHas
<1>4. cur = game.lap - 1 /\ ~game.over /\ exported = <<>>
  BY <1>2 DEF Running, Synced
<1>5. ~Mixed
  <2>1. weird => Settled \/ Stopped \/ Crossed \/ Waits
    BY <1>2 DEF Weird
  <2>2. ~Stopped /\ ~Waits
    BY <1>3, <1>4 DEF Stopped, Waits
  <2>3. weird => pending = {} \/ "lap" \in pending
    BY <2>1, <2>2 DEF Settled, Crossed
  <2> QED BY <1>4, <2>3 DEF Mixed
<1>6. /\ snaps[0] # Missing /\ \A l \in Laps : l >= cur => snaps[l] = Missing
      /\ Len(LastStint(stints).wear) = cur - LastStint(stints).start + 1
  BY <1>2, <1>4 DEF Running
<1>7. /\ damage # Missing /\ sets # 0
  BY DEF Known, KnownIn, Books
<1>8. Books \in BookType /\ Books.damage = damage /\ Books.sets = sets /\ Books.snaps = snaps
      /\ Books.stints = stints /\ Books.pending = pending /\ Books.recent = recent
  BY BooksGood DEF GoodBooks
<1> DEFINE b == LapChanged(Books, cur, FALSE)
           w == WearOf(cur, damage)
           g == WithWear(stints, w)
<1>9. Keep(OnEvent(b, "lap", game.lap))
  <2>1. PICK c \in BOOLEAN :
          LET b0 == IF CapturesZerothLap(c) THEN LapChanged(Books, 0, FALSE) ELSE Books
              b1 == IF cur < game.lap THEN LapChanged(b0, cur, FALSE) ELSE LapChanged(b0, game.lap, TRUE)
          IN Keep(IF cur \in {0, game.lap} THEN b0 ELSE OnEvent(b1, "lap", game.lap))
    BY DEF LapData
  <2>2. ~CapturesZerothLap(c)
    BY <1>6 DEF CapturesZerothLap
  <2>3. cur < game.lap /\ cur \notin {0, game.lap}
    BY <1>3, <1>4
  <2> QED BY <2>1, <2>2, <2>3
<1> HIDE DEF b
<1>10. /\ b \in BookType /\ b.damage = damage /\ b.sets = sets /\ b.pending = pending
       /\ b.recent = recent /\ b.stints = g
       /\ \A l \in Laps \ {cur} : b.snaps[l] = snaps[l]
  <2>1. snaps[cur] = Missing
    BY <1>3, <1>6
  <2>2. /\ b \in BookType /\ b.damage = Books.damage /\ b.sets = Books.sets
        /\ b.pending = Books.pending /\ b.recent = Books.recent
        /\ b.snaps = Snapped(Books, cur)
        /\ b.stints = WithWear(Books.stints, WearOf(cur, Books.damage))
    <3>1. /\ b = LapChanged(Books, cur, FALSE) /\ Books.snaps[cur] = Missing
          /\ Books.damage # Missing /\ cur # 0 /\ Books.stints # <<>>
      BY <1>3, <1>7, <1>8, <2>1 DEF b
    <3> QED BY <1>3, <1>8, <3>1, Closes
  <2>3. \A l \in Laps \ {cur} : b.snaps[l] = snaps[l]
    BY <1>3, <1>8, <2>2 DEF Snapped, BookType
  <2> QED BY <1>8, <2>2, <2>3 DEF g, w
<1>11. w \in Wear /\ w.lap = cur /\ w.of = damage
  <2>1. damage \in Sample
    BY <1>7 DEF Typed
  <2> QED BY <1>3, <2>1, Bounds
<1> HIDE DEF w
<1>12. w.lap = LastStint(stints).start + Len(LastStint(stints).wear) - 1
  BY <1>3, <1>6, <1>11
<1> HIDE DEF g
<1>13. g = WithWear(stints, w)
  BY DEF g
<1>14. /\ g \in Seq(Stint) /\ g # <<>> /\ Chained(g)
       /\ LastStint(g).start = LastStint(stints).start /\ LastStint(g).index = LastStint(stints).index
       /\ Len(LastStint(g).wear) = Len(LastStint(stints).wear) + 1
  BY <1>3, <1>11, <1>12, <1>13, MoreWear
<1>15. OwnWear(g, TRUE) /\ (damage.set = Index => OwnWear(g, FALSE))
  BY <1>3, <1>5, <1>11, <1>13, MoreWear DEF Index
<1>16. Len(LastStint(g).wear) = game.lap - LastStint(g).start + 1
  BY <1>3, <1>4, <1>6, <1>14
<1>17. b.snaps[0] # Missing /\ \A l \in Laps : l >= game.lap => b.snaps[l] = Missing
  <2>1. 0 \in Laps \ {cur} /\ b.snaps[0] = snaps[0]
    BY <1>3, <1>10, Bounds
  <2>2. ASSUME NEW l \in Laps, l >= game.lap PROVE b.snaps[l] = Missing
    <3>1. l \in Nat
      BY Bounds DEF Laps
    <3>2. l # cur /\ l >= cur
      BY <1>3, <1>4, <2>2, <3>1
    <3>3. b.snaps[l] = snaps[l]
      BY <1>10, <3>2
    <3> QED BY <1>6, <3>2, <3>3
  <2> QED BY <1>6, <2>1, <2>2
<1> QED BY <1>1, <1>3, <1>4, <1>5, <1>7, <1>9, <1>10, <1>14, <1>15, <1>16, <1>17 DEF Index

\* Lap data close the lap of a running car, and a change that waits for the next lap is handled
\* unless it waits for the damage as well.
LEMMA LapDataRunning ==
  ASSUME Typed, Known, Exactly, LapData, exact', stints # <<>>, cur # game.lap
  PROVE  Exactly'
<1>1. /\ cur = game.lap - 1 /\ exported = <<>> /\ ~game.over /\ ~Mixed
      /\ due' = due \ {"lap"} /\ cur' = game.lap
      /\ UNCHANGED <<game, weird, numLaps, exported, exact>>
      /\ damage # Missing /\ sets # 0
  BY LapDataCloses
<1>2. PICK b \in BookType, g \in Seq(Stint) :
        /\ Keep(OnEvent(b, "lap", game.lap))
        /\ b.damage = damage /\ b.sets = sets /\ b.recent = recent /\ b.pending = pending
        /\ b.stints = g /\ g # <<>> /\ Chained(g) /\ OwnWear(g, TRUE)
        /\ damage.set = Index => OwnWear(g, FALSE)
        /\ LastStint(g).index = Index /\ LastStint(g).start \in Nat
        /\ Len(LastStint(g).wear) = game.lap - LastStint(g).start + 1
        /\ b.snaps[0] # Missing /\ \A l \in Laps : l >= game.lap => b.snaps[l] = Missing
  BY LapDataCloses
<1>3. exact /\ Synced /\ Running /\ (weird => Weird) /\ (~weird => Normal)
  BY <1>1, ExactParts
<1>4. game.lap \in Nat /\ game.lap \in 1..MaxLap /\ cur \in Nat /\ cur >= 1 /\ game.since \in Nat
  <2>1. game.since \in Nat
    BY Bounds DEF Typed, Game
  <2> QED BY <1>3, <2>1, RunningHas
<1>5. PICK d : d = OnEvent(b, "lap", game.lap)
  OBVIOUS
\* What changes is the snapshots, the stints and the pending events.
<1>6. ASSUME NEW s, Len(LastStint(s).wear) = game.lap - LastStint(s).start + 1, Chained(s), s # <<>>,
             stints' = s, snaps' = b.snaps, damage' = damage, sets' = sets, recent' = recent,
             ~Mixed' => OwnWear(s, FALSE), Mixed' => OwnWear(s, TRUE),
             weird => Settled' \/ Waits', ~weird => Settled'
      PROVE  Exactly'
  <2>1. Synced'
    BY <1>1, <1>3, <1>6 DEF Synced, Measured
  <2>2. Running'
    <3>1. cur' \in {game'.lap - 1, game'.lap} /\ cur' >= 1 /\ exported' = <<>> /\ snaps'[0] # Missing
      BY <1>1, <1>2, <1>4, <1>6
    <3>2. \A l \in Laps : l >= cur' => snaps'[l] = Missing
      BY <1>1, <1>2, <1>6
    <3>3. Len(LastStint(s).wear) = cur' - LastStint(s).start + (IF exported' = <<>> THEN 1 ELSE 2)
      BY <1>1, <1>6, <3>1
    <3> QED BY <1>6, <3>1, <3>2, <3>3, RunningThen
  <2>3. ~weird' => Normal'
    BY <1>1, <1>6 DEF Normal
  <2>4. weird' => Weird'
    <3>1. weird => History'
      BY <1>1, <1>3, <1>6 DEF Weird, History, Measured
    <3> QED BY <1>1, <1>6, <3>1 DEF Weird
  <2>5. stints' # <<>> /\ exported' = <<>>
    BY <1>1, <1>6
  <2> QED BY <2>1, <2>2, <2>3, <2>4, <2>5 DEF Exactly
<1>7. CASE Settled
  <2>1. "lap" \notin b.pending /\ damage.set = Index /\ pending = {}
    BY <1>2, <1>7 DEF Settled
  <2>2. d = b
    BY <1>5, <2>1, OnEventIs
  <2>3. /\ damage' = damage /\ sets' = sets /\ snaps' = b.snaps /\ stints' = g
        /\ pending' = pending /\ recent' = recent
    BY <1>2, <1>5, <2>2, KeepIs
  <2>4. ~Mixed'
    BY <1>1, <2>1, <2>3 DEF Mixed
  <2>5. Settled'
    BY <1>1, <1>2, <1>7, <2>3 DEF Settled, Index
  <2> QED BY <1>2, <1>6, <2>1, <2>3, <2>4, <2>5
<1>8. CASE weird /\ Crossed
  <2>1. /\ "lap" \in b.pending /\ sets = game.set /\ damage.set = game.set /\ game.since = game.lap
        /\ Leads(recent, game.lap, Index) /\ ("damage" \in pending => "damage" \in due)
    BY <1>2, <1>8 DEF Crossed
  <2>2. PICK c \in BookType :
          /\ c.damage = damage /\ c.sets = sets /\ c.snaps = b.snaps
          /\ c.stints = g /\ c.recent = recent /\ c.pending = pending \ {"lap"}
          /\ c.pending = {} => d = TyresChanged(c, game.lap)
          /\ c.pending # {} => d = c
    <3>1. \E c \in BookType :
             /\ c.damage = b.damage /\ c.sets = b.sets /\ c.snaps = b.snaps
             /\ c.stints = b.stints /\ c.recent = b.recent /\ c.pending = b.pending \ {"lap"}
             /\ c.pending = {} => d = TyresChanged(c, game.lap)
             /\ c.pending # {} => d = c
      BY <1>5, <2>1, OnEventIs
    <3> QED BY <1>2, <3>1
  <2>3. CASE c.pending = {}
    <3>1. Keep(d) /\ d = TyresChanged(c, game.lap)
      BY <1>2, <1>5, <2>2, <2>3
    <3>2. /\ d.stints \in Seq(Stint) /\ d.stints # <<>> /\ Chained(d.stints) /\ OwnWear(d.stints, FALSE)
          /\ LastStint(d.stints).index = sets /\ LastStint(d.stints).start = game.lap
          /\ Len(LastStint(d.stints).wear) = 1
          /\ d.damage = damage /\ d.sets = sets /\ d.snaps = b.snaps
          /\ d.pending = {} /\ d.recent = recent
      <4>1. Ready(c, game.lap)
        BY <1>1, <1>2, <1>4, <1>8, <2>1, <2>2 DEF Ready
      <4>2. Handled(c, game.lap, d)
        BY <3>1, <4>1, ChangeSettles
      <4> QED BY <2>2, <2>3, <4>2 DEF Handled
    <3>3. d \in BookType
      <4>1. d \in BookType
        <5>1. GoodBooks(b)
          BY <1>1, <1>2 DEF GoodBooks, KnownIn
        <5> QED BY <1>4, <1>5, <5>1, OnEventGood DEF GoodBooks
      <4> QED BY <4>1
    <3>4. /\ damage' = damage /\ sets' = sets /\ snaps' = b.snaps /\ stints' = d.stints
          /\ pending' = {} /\ recent' = recent
      BY <3>1, <3>2, <3>3, KeepIs
    <3>5. ~Mixed'
      BY <1>1, <3>4 DEF Mixed
    <3>6. Settled'
      BY <1>1, <1>4, <2>1, <3>2, <3>4 DEF Settled, Index
    <3>7. Len(LastStint(d.stints).wear) = game.lap - LastStint(d.stints).start + 1
      BY <1>4, <3>2
    <3> QED BY <1>6, <3>2, <3>4, <3>5, <3>6, <3>7
  <2>4. CASE c.pending # {}
    <3>1. pending \in SUBSET {"lap", "damage"}
      BY DEF Typed
    <3>2. pending \ {"lap"} = {"damage"} /\ "damage" \in due
      BY <2>1, <2>2, <2>4, <3>1
    <3>3. /\ damage' = damage /\ sets' = sets /\ snaps' = b.snaps /\ stints' = g
          /\ pending' = {"damage"} /\ recent' = recent
      <4>1. Keep(c)
        BY <1>2, <1>5, <2>2, <2>4
      <4> QED BY <2>2, <3>2, <4>1, KeepIs
    <3>4. Mixed'
      BY <1>1, <1>8, <3>3 DEF Mixed
    <3>5. Index' = Index
      BY <1>2, <3>3 DEF Index
    <3>6. Waits'
      BY <1>1, <2>1, <3>2, <3>3, <3>5 DEF Waits
    <3> QED BY <1>2, <1>6, <1>8, <3>3, <3>4, <3>6
  <2> QED BY <2>3, <2>4
<1>9. Settled \/ (weird /\ Crossed)
  <2>1. ~Stopped /\ ~Waits
    BY <1>1, <1>4 DEF Stopped, Waits
  <2>2. ~weird => Settled
    BY <1>1, <1>3, <1>4 DEF Normal
  <2> QED BY <1>3, <2>1, <2>2 DEF Weird
<1> QED BY <1>7, <1>8, <1>9

\* All that lap data may do.
LEMMA LapDataExact ==
  ASSUME Typed, Known, Exactly, LapData, exact'
  PROVE  Exactly'
<1>1. CASE stints # <<>> /\ cur = game.lap
  <2>1. /\ due' = due \ {"lap"} /\ cur' = game.lap
        /\ UNCHANGED <<game, weird, numLaps, exported, exact>>
    BY DEF LapData, Received, world
  <2>2. Synced /\ Running /\ exact
    BY <1>1, <2>1, ExactParts
  <2>3. Books \in BookType /\ Books.damage = damage /\ Books.sets = sets /\ Books.snaps = snaps
        /\ Books.stints = stints /\ Books.pending = pending /\ Books.recent = recent
    BY BooksGood DEF GoodBooks
  <2>4. Keep(Books)
    <3>1. PICK c \in BOOLEAN : Keep(IF CapturesZerothLap(c) THEN LapChanged(Books, 0, FALSE) ELSE Books)
      BY <1>1 DEF LapData
    <3>2. ~CapturesZerothLap(c)
      BY <2>2 DEF CapturesZerothLap, Running
    <3> QED BY <3>1, <3>2
  <2>5. UNCHANGED <<damage, sets, snaps, stints, pending, recent>>
    BY <2>3, <2>4, KeepIs
  <2>6. Synced'
    BY <1>1, <2>1, <2>2, <2>5 DEF Synced, Measured
  <2>7. "lap" \in Kinds \ {"damage"} /\ cur' = cur
    BY <1>1, <2>1 DEF Kinds
  <2> QED BY <2>1, <2>2, <2>5, <2>6, <2>7, SameBooksExact
<1> QED BY <1>1, LapDataWaiting, LapDataRunning

\* What a tyre set makes of the books when there is a stint: a detected change is waited for.
LEMMA UpdatedIs ==
  ASSUME NEW b \in BookType, b.stints # <<>>, cur # 0, NEW d, d = Updated(b)
  PROVE  /\ d \in BookType /\ d.damage = b.damage /\ d.sets = b.sets /\ d.snaps = b.snaps
         /\ d.stints = b.stints /\ d.recent = b.recent
         /\ b.sets # LastStint(b.stints).index /\ b.pending = {} => d.pending = Awaited
         /\ b.sets = LastStint(b.stints).index \/ b.pending # {} => d.pending = b.pending
<1>1. Awaited \in SUBSET {"lap", "damage"}
  BY DEF Awaited
<1>2. CASE b.sets # LastStint(b.stints).index /\ b.pending = {}
  <2>1. d = [b EXCEPT !.pending = Awaited]
    BY <1>2 DEF Updated
  <2> QED BY <1>1, <1>2, <2>1 DEF BookType
<1>3. CASE ~(b.sets # LastStint(b.stints).index /\ b.pending = {})
  <2>1. d = b
    BY <1>3 DEF Updated
  <2> QED BY <1>3, <2>1
<1> QED BY <1>2, <1>3

\* The first stint begins with the zeroth lap's snapshot.
LEMMA TyreSetsWaiting ==
  ASSUME Typed, Known, Exactly, TyreSets, exact', stints = <<>>
  PROVE  Exactly'
<1>1. /\ due' = due \ {"sets"} /\ UNCHANGED <<game, weird, cur, numLaps, exported, exact>>
      /\ Keep(Updated(WithSets(Books)))
  BY DEF TyreSets, Received, world, WithSets
<1>2. Synced /\ Waiting /\ exact
  BY <1>1, ExactParts
<1>3. /\ game = Start /\ cur \in {0, 1} /\ damage \in {Missing, New} /\ snaps[0] \in {Missing, New}
      /\ \A l \in Laps \ {0} : snaps[l] = Missing
      /\ pending = {} /\ exported = <<>>
      /\ \A i \in DOMAIN recent : recent[i] = [of |-> New, lap |-> 1]
      /\ ("damage" \notin due => recent # <<>>)
  BY <1>2 DEF Waiting
<1>4. game.lap = 1 /\ game.set = 1 /\ game.since = 1 /\ ~game.over /\ game \in Game
  BY <1>3 DEF Start, Typed
<1> DEFINE d == WithSets(Books)
           e == Updated(d)
<1>5. /\ GoodBooks(d) /\ d.stints = <<>> /\ d.pending = {} /\ d.sets = 1
      /\ d.snaps = snaps /\ d.damage = damage /\ d.recent = recent /\ d.sets # 0
  <2>1. /\ GoodBooks(Books) /\ Books.damage = damage /\ Books.snaps = snaps
        /\ Books.stints = <<>> /\ Books.pending = {} /\ Books.recent = recent
    BY <1>3, BooksGood
  <2> QED BY <1>4, <2>1, WithSetsGood
<1> HIDE DEF d
<1>6. GoodBooks(e)
  BY <1>5, UpdatedGood
<1>7. CASE cur = 0 \/ snaps[0] = Missing
  <2>1. e = d
    BY <1>5, <1>7 DEF Updated
  <2>2. /\ damage' = damage /\ sets' = 1 /\ snaps' = snaps /\ stints' = <<>> /\ pending' = {}
        /\ recent' = recent
    BY <1>1, <1>5, <2>1, KeepIs DEF d, GoodBooks
  <2>3. Synced'
    BY <1>1, <1>2, <1>4, <2>2 DEF Synced, Measured
  <2>4. Waiting'
    BY <1>1, <1>3, <2>2 DEF Waiting
  <2> QED BY <1>1, <1>3, <2>2, <2>3, <2>4 DEF Exactly
<1>8. CASE cur = 1 /\ snaps[0] = New /\ snaps[0] # Missing
  <2> DEFINE v == WearOf(0, New)
             s == [start |-> 1, index |-> 1, wear |-> <<v>>]
             h == <<s>>
  <2>1. FirstStint(d) = s
    BY <1>5, <1>8 DEF FirstStint
  <2>2. New \in Sample /\ v \in Wear /\ v.lap = 0 /\ v.of = New /\ New.set = 1
    <3>1. New \in Sample /\ New.set = 1
      BY Bounds DEF New, Sample, Sets
    <3> QED BY <3>1, Bounds
  <2> HIDE DEF v
  <2>3. s \in Stint /\ s.start = 1 /\ s.index = 1 /\ s.wear = <<v>>
    BY <2>2, Bounds DEF Stint, Sets
  <2> HIDE DEF s
  <2>4. e = [d EXCEPT !.stints = h]
    BY <1>5, <1>8, <2>1 DEF Updated
  <2>5. h \in Seq(Stint) /\ h # <<>> /\ Len(h) = 1 /\ h[1] = s /\ LastStint(h) = s
    BY <2>3 DEF LastStint
  <2> HIDE DEF h
  <2>6. /\ e.damage = damage /\ e.sets = 1 /\ e.snaps = snaps /\ e.stints = h /\ e.pending = {}
        /\ e.recent = recent /\ e \in BookType
    BY <1>5, <2>4, <2>5 DEF GoodBooks, BookType
  <2> HIDE DEF e
  <2>7. /\ damage' = damage /\ sets' = 1 /\ snaps' = snaps /\ stints' = h /\ pending' = {}
        /\ recent' = recent
    BY <1>1, <2>6, KeepIs DEF d, e
  <2>8. damage = New
    <3>1. damage # Missing
      BY <1>8, Bounds DEF Known, KnownIn, Books
    <3> QED BY <1>3, <3>1
  <2>9. Synced'
    BY <1>1, <1>2, <1>4, <2>7 DEF Synced, Measured
  <2>10. Chained(h) /\ OwnWear(h, FALSE)
    <3>1. DOMAIN h = {1} /\ DOMAIN s.wear = {1} /\ s.wear[1] = v /\ s.wear # <<>>
      BY <2>3, <2>5
    <3>2. Chained(h)
      BY <2>2, <2>3, <2>5, <3>1 DEF Chained
    <3>3. OwnWear(h, FALSE)
      BY <2>2, <2>3, <2>5, <3>1 DEF OwnWear
    <3> QED BY <3>2, <3>3
  <2>11. ~Mixed'
    BY <1>1, <1>3, <2>7 DEF Mixed
  <2>12. Running'
    <3>1. cur' \in {game'.lap - 1, game'.lap} /\ cur' >= 1 /\ exported' = <<>> /\ snaps'[0] # Missing
      BY <1>1, <1>3, <1>4, <1>8, <2>7
    <3>2. \A l \in Laps : l >= cur' => snaps'[l] = Missing
      BY <1>1, <1>3, <1>8, <2>7
    <3>3. Len(LastStint(h).wear) = cur' - LastStint(h).start + (IF exported' = <<>> THEN 1 ELSE 2)
      <4>1. Len(s.wear) = 1
        BY <2>3
      <4>2. cur' = 1
        BY <1>1, <1>8
      <4>3. LastStint(h).start = 1 /\ Len(LastStint(h).wear) = 1
        BY <2>3, <2>5, <4>1
      <4>4. 1 = cur' - LastStint(h).start + 1
        BY <4>2, <4>3
      <4> QED BY <3>1, <4>3, <4>4
    <3> QED BY <2>7, <2>10, <2>11, <3>1, <3>2, <3>3, RunningThen
  <2>13. Settled'
    BY <1>1, <1>4, <2>2, <2>3, <2>5, <2>7, <2>8 DEF Settled, Index
  <2>14. History'
    <3>1. Measured' = New
      BY <1>1, <1>4 DEF Measured, New
    <3>2. \A i \in DOMAIN recent : recent[i].lap = 1 /\ recent[i].of = New
      BY <1>3
    <3>3. "damage" \notin due => \E i \in DOMAIN recent : recent[i].lap = 1
      <4>1. recent \in Seq(Measurement)
        BY DEF Typed
      <4>2. recent # <<>> => 1 \in DOMAIN recent
        BY <4>1
      <4> QED BY <1>3, <3>2, <4>2
    <3> QED BY <1>1, <1>4, <2>7, <3>1, <3>2, <3>3 DEF History, Ordered
  <2>15. stints' # <<>> /\ exported' = <<>>
    BY <1>1, <1>3, <2>5, <2>7
  <2> QED BY <2>9, <2>12, <2>13, <2>14, <2>15 DEF Exactly, Normal, Weird
<1> QED BY <1>3, <1>7, <1>8

\* A change of tyres is detected, unless one is waited for.
LEMMA TyreSetsRunning ==
  ASSUME Typed, Known, Exactly, TyreSets, exact', stints # <<>>
  PROVE  Exactly'
<1>1. /\ due' = due \ {"sets"} /\ UNCHANGED <<game, weird, cur, numLaps, exported, exact>>
      /\ Keep(Updated(WithSets(Books)))
  BY DEF TyreSets, Received, world, WithSets
<1>2. Synced /\ Running /\ exact /\ (weird => Weird) /\ (~weird => Normal)
  BY <1>1, ExactParts
<1>3. game \in Game /\ cur # 0
  BY DEF Typed, Known
<1> DEFINE d == WithSets(Books)
           e == Updated(d)
<1>4. /\ d \in BookType /\ d.stints = stints /\ d.pending = pending /\ d.sets = game.set
      /\ d.snaps = snaps /\ d.damage = damage /\ d.recent = recent
  <2>1. /\ GoodBooks(Books) /\ Books.damage = damage /\ Books.snaps = snaps
        /\ Books.stints = stints /\ Books.pending = pending /\ Books.recent = recent
    BY BooksGood
  <2> QED BY <1>3, <2>1, WithSetsGood DEF GoodBooks
<1> HIDE DEF d
<1>5. /\ e \in BookType /\ e.damage = damage /\ e.sets = game.set /\ e.snaps = snaps
      /\ e.stints = stints /\ e.recent = recent
      /\ game.set # Index /\ pending = {} => e.pending = Awaited
      /\ game.set = Index \/ pending # {} => e.pending = pending
  BY <1>3, <1>4, UpdatedIs DEF Index
<1> HIDE DEF e
<1>6. /\ damage' = damage /\ sets' = game.set /\ snaps' = snaps /\ stints' = stints
      /\ recent' = recent
      /\ game.set # Index /\ pending = {} => pending' = Awaited
      /\ game.set = Index \/ pending # {} => pending' = pending
  BY <1>1, <1>5, KeepIs DEF d, e
<1>7. Synced'
  BY <1>1, <1>2, <1>6 DEF Synced, Measured
<1>8. Index' = Index /\ stints' # <<>>
  BY <1>6 DEF Index
<1>9. Mixed' <=> Mixed
  <2>1. CASE game.set # Index /\ pending = {}
    <3>1. exported = <<>> \/ pending' = {"damage"} \/ ~weird
      BY <1>2, <2>1 DEF Running, Synced, Weird, Settled, Stopped, Crossed, Waits
    <3>2. weird => pending' = {"lap", "damage"}
      BY <1>6, <2>1 DEF Awaited
    <3> QED BY <1>1, <2>1, <3>1, <3>2 DEF Mixed
  <2>2. CASE ~(game.set # Index /\ pending = {})
    BY <1>1, <1>6, <2>2 DEF Mixed
  <2> QED BY <2>1, <2>2
<1>10. Running'
  BY <1>1, <1>2, <1>6, <1>9 DEF Running, OwnWear
<1>11. Settled => Settled'
  BY <1>1, <1>6, <1>8 DEF Settled
<1>12. ASSUME ~weird PROVE Normal'
  <2>1. CASE Settled
    BY <1>11, <2>1 DEF Normal
  <2>2. CASE ~Settled
    <3>1. game.set # Index /\ ~game.over /\ cur = game.lap /\ game.since <= game.lap
      BY <1>2, <1>12, <2>2 DEF Normal
    <3>2. pending' = {"damage"}
      BY <1>2, <1>6, <1>12, <2>2, <3>1 DEF Normal, Awaited
    <3> QED BY <1>1, <1>6, <1>8, <3>1, <3>2 DEF Normal
  <2> QED BY <2>1, <2>2
<1>13. ASSUME weird PROVE Weird'
  <2>1. History'
    BY <1>1, <1>2, <1>6, <1>13 DEF Weird, History, Measured
  <2>2. ASSUME Stopped PROVE Stopped'
    <3>1. "lap" \in pending'
      BY <1>6, <1>13, <2>2 DEF Stopped, Awaited
    <3> QED BY <1>1, <1>6, <1>8, <2>2, <3>1 DEF Stopped
  <2>3. (Crossed => Crossed') /\ (Waits => Waits')
    BY <1>1, <1>6, <1>8 DEF Crossed, Waits
  <2> QED BY <1>2, <1>11, <1>13, <2>1, <2>2, <2>3 DEF Weird
<1>14. exported' # <<>> => Covers(exported)
  BY <1>1, <1>2, ExactParts
<1> QED BY <1>1, <1>7, <1>8, <1>10, <1>12, <1>13, <1>14 DEF Exactly

\* All that the tyre sets may do.
LEMMA TyreSetsExact ==
  ASSUME Typed, Known, Exactly, TyreSets, exact'
  PROVE  Exactly'
BY TyreSetsWaiting, TyreSetsRunning

\* What a damage packet changes, before and after the event.
LEMMA CarDamageHas ==
  ASSUME Typed, Known, Exactly, CarDamage, exact'
  PROVE  /\ due' = due \ {"damage"} /\ UNCHANGED <<game, weird, cur, numLaps, exported, exact>>
         /\ Measured.set = game.set /\ Measured # Missing /\ (game.since >= game.lap => Measured.age = 0)
         /\ exact /\ Synced
         /\ recent' = Pushed(recent, [of |-> Measured, lap |-> game.lap]) /\ damage' = Measured
         /\ sets' = sets /\ snaps' = snaps
         /\ "damage" \notin pending => stints' = stints /\ pending' = pending
         /\ "damage" \in pending =>
              \E c \in BookType, d \in BookType :
                /\ c.damage = Measured /\ c.sets = sets /\ c.snaps = snaps /\ c.stints = stints
                /\ c.recent = recent' /\ c.pending = pending \ {"damage"}
                /\ c.pending = {} => d = TyresChanged(c, cur)
                /\ c.pending # {} => d = c
                /\ stints' = d.stints /\ pending' = d.pending
<1>1. /\ due' = due \ {"damage"} /\ UNCHANGED <<game, weird, cur, numLaps, exported, exact>>
      /\ Keep(OnEvent([Books EXCEPT !.damage = Measured,
                                    !.recent = Pushed(@, [of |-> Measured, lap |-> game.lap])], "damage", cur))
  BY DEF CarDamage, Received, world
<1>2. /\ Books \in BookType /\ GoodBooks(Books) /\ Books.sets = sets /\ Books.snaps = snaps
      /\ Books.stints = stints /\ Books.pending = pending /\ Books.recent = recent
      /\ (Begun(Books) => cur # 0)
  BY BooksGood DEF GoodBooks
<1>3. [Books EXCEPT !.damage = Measured, !.recent = Pushed(@, [of |-> Measured, lap |-> game.lap])]
        = WithDamage(Books)
  BY <1>2 DEF WithDamage, BookType
<1>4. game \in Game /\ cur \in Laps
  BY DEF Typed
<1>5. PICK a : a = WithDamage(Books)
  OBVIOUS
<1>6. /\ GoodBooks(a) /\ a.stints = stints /\ a.pending = pending /\ a.sets = sets
      /\ a.snaps = snaps /\ a.damage = Measured
      /\ a.recent = Pushed(recent, [of |-> Measured, lap |-> game.lap])
  BY <1>2, <1>4, <1>5, WithDamageGood
<1>7. PICK d : d = OnEvent(a, "damage", cur)
  OBVIOUS
<1>8. Keep(d)
  BY <1>1, <1>3, <1>5, <1>7
<1>9. d \in BookType
  <2>1. a.pending # {} => cur \in 1..MaxLap
    BY <1>2, <1>4, <1>6, Bounds DEF Begun, Laps
  <2> QED BY <1>6, <1>7, <2>1, OnEventGood DEF GoodBooks
<1>10. /\ damage' = d.damage /\ sets' = d.sets /\ snaps' = d.snaps
       /\ stints' = d.stints /\ pending' = d.pending /\ recent' = d.recent
  BY <1>8, <1>9, KeepIs
<1>11. Measured.set = game.set /\ Measured # Missing /\ (game.since >= game.lap => Measured.age = 0)
  BY <1>4, MeasuredIs
<1>12. exact /\ Synced
  BY <1>1, ExactParts
<1>13. a \in BookType
  BY <1>6 DEF GoodBooks
<1>14. CASE "damage" \notin pending
  <2>1. d = a
    BY <1>6, <1>7, <1>13, <1>14, OnEventIs
  <2> QED BY <1>1, <1>6, <1>10, <1>11, <1>12, <1>14, <2>1
<1>15. CASE "damage" \in pending
  <2>1. PICK c \in BookType :
           /\ c.damage = a.damage /\ c.sets = a.sets /\ c.snaps = a.snaps
           /\ c.stints = a.stints /\ c.recent = a.recent /\ c.pending = a.pending \ {"damage"}
           /\ c.pending = {} => d = TyresChanged(c, cur)
           /\ c.pending # {} => d = c
    BY <1>6, <1>7, <1>13, <1>15, OnEventIs
  <2>2. d.damage = c.damage /\ d.sets = c.sets /\ d.snaps = c.snaps /\ d.recent = c.recent
    <3>1. CASE c.pending # {}
      BY <2>1, <3>1
    <3>2. CASE c.pending = {}
      <4>1. d = [c EXCEPT !.stints = ChangedStints(c, cur)]
        BY <2>1, <3>2, TyresChangedIs
      <4> DEFINE h == ChangedStints(c, cur)
      <4>2. d = [c EXCEPT !.stints = h]
        BY <4>1
      <4> HIDE DEF h
      <4> QED BY <4>2 DEF BookType
    <3> QED BY <3>1, <3>2
  <2>3. /\ c.damage = Measured /\ c.sets = sets /\ c.snaps = snaps /\ c.stints = stints
        /\ c.recent = recent' /\ c.pending = pending \ {"damage"}
    BY <1>6, <1>10, <2>1, <2>2
  <2>4. /\ recent' = Pushed(recent, [of |-> Measured, lap |-> game.lap]) /\ damage' = Measured
        /\ sets' = sets /\ snaps' = snaps
    BY <1>6, <1>10, <2>1, <2>2
  <2> QED BY <1>1, <1>9, <1>10, <1>11, <1>12, <1>15, <2>1, <2>3, <2>4
<1> QED BY <1>14, <1>15

\* Before the first stint, the measurements are those of the first lap.
LEMMA CarDamageWaiting ==
  ASSUME Typed, Known, Exactly, CarDamage, exact', stints = <<>>
  PROVE  Exactly'
<1>1. /\ due' = due \ {"damage"} /\ UNCHANGED <<game, weird, cur, numLaps, exported, exact>>
      /\ exact /\ Synced
      /\ recent' = Pushed(recent, [of |-> Measured, lap |-> game.lap]) /\ damage' = Measured
      /\ sets' = sets /\ snaps' = snaps
      /\ "damage" \notin pending => stints' = stints /\ pending' = pending
  BY CarDamageHas
<1>2. Waiting
  BY <1>1, ExactParts
<1>3. game = Start /\ pending = {} /\ \A i \in DOMAIN recent : recent[i] = [of |-> New, lap |-> 1]
  BY <1>2 DEF Waiting
<1>4. Measured = New /\ [of |-> Measured, lap |-> game.lap] = [of |-> New, lap |-> 1]
  BY <1>3 DEF Measured, New, Start
<1>5. stints' = <<>> /\ pending' = {}
  BY <1>1, <1>3
<1>6. Synced'
  BY <1>1, <1>5 DEF Synced, Measured
<1>7. recent' # <<>> /\ \A i \in DOMAIN recent' : recent'[i] = [of |-> New, lap |-> 1]
  <2> DEFINE m == [of |-> New, lap |-> 1]
  <2>1. PICK p : p = recent'
    OBVIOUS
  <2>2. m \in Measurement /\ p = Pushed(recent, m) /\ game \in Game /\ recent \in Seq(Measurement)
    BY <1>1, <1>4, <2>1, MeasuredIs DEF Typed
  <2>3. \A i \in DOMAIN recent : recent[i] = m
    BY <1>3
  <2> HIDE DEF m
  <2>4. p # <<>> /\ \A i \in DOMAIN p : p[i] = m \/ \E j \in DOMAIN recent : p[i] = recent[j]
    BY <2>2, PushedHas
  <2>5. \A i \in DOMAIN p : p[i] = m
    BY <2>3, <2>4
  <2> QED BY <2>1, <2>4, <2>5 DEF m
<1>8. Waiting'
  BY <1>1, <1>2, <1>4, <1>5, <1>7 DEF Waiting
<1>9. exported' = <<>>
  BY <1>1, <1>2 DEF Waiting
<1> QED BY <1>5, <1>6, <1>8, <1>9 DEF Exactly

\* The damage that a change waits for handles it.
LEMMA CarDamageHandles ==
  ASSUME Typed, Known, Exactly, CarDamage, exact', stints # <<>>, pending = {"damage"},
         sets = game.set, cur = game.lap, game.since <= game.lap, ~game.over, Running,
         weird => Leads(recent', cur, Index)
  PROVE  Running' /\ Settled' /\ stints' # <<>>
<1>1. /\ due' = due \ {"damage"} /\ UNCHANGED <<game, weird, cur, numLaps, exported, exact>>
      /\ Measured.set = game.set /\ Measured # Missing
      /\ damage' = Measured /\ sets' = sets /\ snaps' = snaps
  BY CarDamageHas
<1>2. PICK c \in BookType, d \in BookType :
        /\ c.damage = Measured /\ c.sets = sets /\ c.snaps = snaps /\ c.stints = stints
        /\ c.recent = recent' /\ c.pending = pending \ {"damage"}
        /\ c.pending = {} => d = TyresChanged(c, cur)
        /\ stints' = d.stints /\ pending' = d.pending
  <2>1. "damage" \in pending
    OBVIOUS
  <2> QED BY <2>1, CarDamageHas
<1>3. c.pending = {} /\ d = TyresChanged(c, cur)
  BY <1>2
<1>4. /\ stints \in Seq(Stint) /\ LastStint(stints) \in Stint /\ LastStint(stints).start \in Nat
      /\ Chained(stints) /\ OwnWear(stints, TRUE) /\ (~Mixed => OwnWear(stints, FALSE))
      /\ cur \in Laps /\ cur \in Nat /\ game.lap \in Nat /\ game.lap \in 1..MaxLap /\ cur >= 1
  BY RunningHas
<1>5. exported = <<>> /\ Len(LastStint(stints).wear) = cur - LastStint(stints).start + 1
  BY DEF Running
<1>6. Ready(c, cur)
  <2>1. sets # 0
    BY DEF Known, KnownIn, Books
  <2>2. ~weird => OwnWear(stints, FALSE)
    BY <1>4 DEF Mixed
  <2> QED BY <1>1, <1>2, <1>4, <1>5, <2>1, <2>2 DEF Ready, Index
<1>7. Handled(c, cur, d)
  BY <1>3, <1>6, ChangeSettles
<1>8. /\ d.stints \in Seq(Stint) /\ d.stints # <<>> /\ Chained(d.stints) /\ OwnWear(d.stints, FALSE)
      /\ LastStint(d.stints).index = sets /\ LastStint(d.stints).start = cur
      /\ Len(LastStint(d.stints).wear) = 1 /\ d.pending = {}
  BY <1>2, <1>3, <1>7 DEF Handled
<1>9. Settled'
  BY <1>1, <1>2, <1>8 DEF Settled, Index
<1>10. ~Mixed'
  BY <1>1, <1>2, <1>5, <1>8 DEF Mixed
<1>11. Running'
  <2>1. cur' \in {game'.lap - 1, game'.lap} /\ cur' >= 1 /\ exported' = <<>> /\ snaps'[0] # Missing
    BY <1>1, <1>4, <1>5 DEF Running
  <2>2. \A l \in Laps : l >= cur' => snaps'[l] = Missing
    BY <1>1, <1>5 DEF Running
  <2> DEFINE h == d.stints
  <2>3. Len(LastStint(h).wear) = cur' - LastStint(h).start + (IF exported' = <<>> THEN 1 ELSE 2)
    BY <1>1, <1>4, <1>8, <2>1
  <2>4. stints' = h /\ Chained(h) /\ OwnWear(h, FALSE)
    BY <1>2, <1>8
  <2> HIDE DEF h
  <2> QED BY <1>10, <2>1, <2>2, <2>3, <2>4, RunningThen
<1> QED BY <1>2, <1>8, <1>9, <1>11

\* The rolling history of a weird track stays what it is.
LEMMA CarDamageHistory ==
  ASSUME Typed, Known, Exactly, CarDamage, exact', History
  PROVE  History'
<1>1. PICK m, r : m = [of |-> Measured, lap |-> game.lap] /\ r = recent
  OBVIOUS
<1>2. /\ due' = due \ {"damage"} /\ UNCHANGED <<game, weird, cur>>
      /\ recent' = Pushed(recent, m)
  BY <1>1, CarDamageHas
<1>3. m \in Measurement /\ m.lap = game.lap /\ m.of = Measured /\ game \in Game
      /\ recent \in Seq(Measurement) /\ game.lap \in Nat
  BY <1>1, MeasuredIs, Bounds DEF Typed, Game
<1>4. PICK p : p = recent'
  OBVIOUS
<1>5. Ordered(p, game.lap)
  BY <1>2, <1>3, <1>4, PushedOrdered DEF History
<1>6. /\ \A i \in DOMAIN p : p[i] = m \/ \E j \in DOMAIN r : p[i] = r[j]
      /\ \E i \in DOMAIN p : p[i] = m
  <2>1. p = Pushed(r, m) /\ game \in Game /\ r \in Seq(Measurement) /\ m \in Measurement
    BY <1>1, <1>2, <1>3, <1>4
  <2>2. \A i \in DOMAIN p : p[i] = m \/ \E j \in DOMAIN r : p[i] = r[j]
    BY <2>1, PushedHas
  <2>3. \E i \in DOMAIN p : p[i] = m
    BY <2>1, PushedHas
  <2> QED BY <2>2, <2>3
<1>7. game.since <= game.lap => \A i \in DOMAIN p : p[i].lap = game.lap => p[i].of = Measured
  BY <1>1, <1>3, <1>6 DEF History
<1>8. \E i \in DOMAIN p : p[i].lap = game.lap
  BY <1>3, <1>6
<1>9. Measured' = Measured
  BY <1>2 DEF Measured
<1> QED BY <1>2, <1>4, <1>5, <1>7, <1>8, <1>9 DEF History

\* A measurement of the car changes no stint, but handles the change that waits for it alone.
LEMMA CarDamageRunning ==
  ASSUME Typed, Known, Exactly, CarDamage, exact', stints # <<>>
  PROVE  Exactly'
<1> DEFINE m == [of |-> Measured, lap |-> game.lap]
<1>1. /\ due' = due \ {"damage"} /\ UNCHANGED <<game, weird, cur, numLaps, exported, exact>>
      /\ Measured.set = game.set /\ (game.since >= game.lap => Measured.age = 0)
      /\ exact /\ Synced /\ recent' = Pushed(recent, m) /\ damage' = Measured
      /\ sets' = sets /\ snaps' = snaps
      /\ "damage" \notin pending => stints' = stints /\ pending' = pending
  BY CarDamageHas
<1>2. Running /\ (weird => Weird) /\ (~weird => Normal)
  BY <1>1, ExactParts
<1>3. /\ m \in Measurement /\ m.lap = game.lap /\ m.of = Measured /\ game \in Game
      /\ recent \in Seq(Measurement) /\ game.lap \in Nat /\ game.since \in Nat
      /\ pending \in SUBSET {"lap", "damage"}
  BY MeasuredIs, Bounds DEF Typed, Game
<1> HIDE DEF m
<1>4. Synced'
  BY <1>1 DEF Synced, Measured
<1>5. exported' # <<>> => Covers(exported')
  BY <1>1, ExactParts
<1>6. ASSUME stints' = stints, Mixed' <=> Mixed PROVE Running'
  BY <1>1, <1>2, <1>6 DEF Running, OwnWear
\* Where the change is not handled, the last stint stays.
<1>7. CASE pending # {"damage"}
  <2>1. stints' = stints /\ pending' = pending \ {"damage"}
    <3>1. CASE "damage" \notin pending
      BY <1>1, <3>1
    <3>2. CASE "damage" \in pending
      <4>1. PICK c \in BookType, d \in BookType :
              /\ c.stints = stints /\ c.pending = pending \ {"damage"}
              /\ c.pending # {} => d = c
              /\ stints' = d.stints /\ pending' = d.pending
        BY <3>2, CarDamageHas
      <4>2. c.pending # {}
        BY <1>7, <3>2, <4>1
      <4> QED BY <4>1, <4>2
    <3> QED BY <3>1, <3>2
  <2>2. Index' = Index /\ stints' # <<>>
    BY <2>1 DEF Index
  <2>3. Settled => Settled' /\ pending' = pending
    BY <1>1, <2>1, <2>2 DEF Settled
  <2>4. ASSUME ~weird PROVE Normal' /\ pending' = pending
    BY <1>1, <1>2, <1>7, <2>1, <2>2, <2>3, <2>4 DEF Normal
  <2>5. ASSUME weird PROVE Weird' /\ (Mixed' <=> Mixed)
    <3>1. History /\ (Settled \/ Stopped \/ Crossed)
      BY <1>2, <1>7, <2>5 DEF Weird, Waits
    <3>2. History'
      BY <3>1, CarDamageHistory
    <3>3. CASE Settled
      BY <1>1, <2>3, <3>2, <3>3 DEF Weird, Mixed
    <3>4. CASE Stopped
      <4>1. game.since = game.lap + 1 /\ cur = game.lap /\ Led(recent, game.lap, Index)
            /\ ("lap" \in pending <=> "lap" \in pending') /\ pending' # {"damage"}
        BY <1>3, <2>1, <3>4 DEF Stopped
      <4>2. PICK p : p = recent'
        OBVIOUS
      <4>3. Led(p, game.lap, Index) /\ \A i \in DOMAIN p : p[i].lap = game.lap
        <5>1. p = Pushed(recent, m) /\ m.of.age = 0 /\ game.since > game.lap /\ Ordered(recent, game.lap)
          BY <1>1, <1>3, <3>1, <4>1, <4>2 DEF History
        <5> QED BY <1>3, <4>1, <5>1, PushedLed
      <4>4. Led(recent', game'.lap, Index') /\ \A i \in DOMAIN recent' : recent'[i].lap = game'.lap
        BY <1>1, <2>2, <4>2, <4>3
      <4>5. \/ sets' = Index' /\ game'.set # Index' /\ "sets" \in due' /\ pending' = {} /\ ~game'.over
            \/ "lap" \in pending'
        BY <1>1, <2>1, <2>2, <3>4 DEF Stopped
      <4>6. Stopped'
        BY <1>1, <4>1, <4>4, <4>5 DEF Stopped
      <4>7. Mixed' <=> Mixed
        BY <1>1, <1>7, <4>1 DEF Mixed
      <4> QED BY <3>2, <4>6, <4>7 DEF Weird
    <3>5. CASE Crossed
      <4>1. /\ game.since = game.lap /\ cur = game.lap - 1 /\ ~game.over
            /\ "lap" \in pending /\ sets = game.set /\ Leads(recent, game.lap, Index)
        BY <3>5 DEF Crossed
      <4>2. PICK p : p = recent'
        OBVIOUS
      <4>3. Leads(p, game.lap, Index)
        <5>1. p = Pushed(recent, m) /\ m.of.age = 0 /\ game.since <= game.lap
          BY <1>1, <1>3, <4>1, <4>2
        <5> QED BY <1>3, <4>1, <5>1, PushedLeads
      <4>4. Leads(recent', game'.lap, Index')
        BY <1>1, <2>2, <4>2, <4>3
      <4>5. "lap" \in pending' /\ "damage" \notin pending'
        BY <2>1, <4>1
      <4>6. Crossed'
        BY <1>1, <4>1, <4>4, <4>5 DEF Crossed
      <4>7. Mixed' <=> Mixed
        <5>1. exported = <<>>
          BY <1>2, <4>1 DEF Running
        <5> QED BY <1>1, <1>7, <4>5, <5>1 DEF Mixed
      <4> QED BY <3>2, <4>6, <4>7 DEF Weird
    <3> QED BY <3>1, <3>3, <3>4, <3>5
  <2>6. ~weird => (Mixed' <=> Mixed)
    BY <1>1 DEF Mixed
  <2>7. Running'
    BY <1>6, <2>1, <2>5, <2>6
  <2> QED BY <1>1, <1>4, <1>5, <2>2, <2>4, <2>5, <2>7 DEF Exactly
\* Where it is, the last stint is of the tyres on the car.
<1>8. CASE pending = {"damage"}
  <2>1. CASE ~weird
    <3>1. /\ sets = game.set /\ cur = game.lap /\ game.since <= game.lap /\ ~game.over
      BY <1>2, <1>8, <2>1 DEF Normal, Settled
    <3>2. Running' /\ Settled' /\ stints' # <<>>
      BY <1>2, <1>8, <2>1, <3>1, CarDamageHandles
    <3> QED BY <1>1, <1>4, <1>5, <2>1, <3>2 DEF Exactly, Normal
  <2>2. CASE weird
    <3>1. History /\ Waits
      BY <1>2, <1>8, <2>2 DEF Weird, Settled, Stopped, Crossed
    <3>2. /\ sets = game.set /\ cur = game.lap /\ game.since = game.lap /\ ~game.over
          /\ Leads(recent, game.lap, Index)
      BY <3>1 DEF Waits
    <3>3. PICK p : p = recent'
      OBVIOUS
    <3>4. Leads(p, game.lap, Index)
      <4>1. p = Pushed(recent, m) /\ m.of.age = 0 /\ game.since <= game.lap
        BY <1>1, <1>3, <3>2, <3>3
      <4> QED BY <1>3, <3>2, <4>1, PushedLeads
    <3>5. Leads(recent', cur, Index) /\ game.since <= game.lap
      BY <1>3, <3>2, <3>3, <3>4
    <3>6. Running' /\ Settled' /\ stints' # <<>>
      BY <1>2, <1>8, <3>2, <3>5, CarDamageHandles
    <3>7. History'
      BY <3>1, CarDamageHistory
    <3> QED BY <1>1, <1>4, <1>5, <2>2, <3>6, <3>7 DEF Exactly, Weird
  <2> QED BY <2>1, <2>2
<1> QED BY <1>7, <1>8

\* All that a damage packet may do.
LEMMA CarDamageExact ==
  ASSUME Typed, Known, Exactly, CarDamage, exact'
  PROVE  Exactly'
BY CarDamageWaiting, CarDamageRunning

\* A page that is read takes the stints without a lap out, and keeps the last one.
LEMMA ReadExact ==
  ASSUME Typed, Known, Exactly, Read, exact'
  PROVE  Exactly'
<1>1. /\ stints' = Pruned(stints, numLaps)
      /\ UNCHANGED <<game, weird, due, cur, numLaps, damage, sets, snaps, pending, recent, exported>>
      /\ exact /\ KeepsLast(stints, numLaps)
  BY DEF Read, world
<1>2. Synced /\ (stints = <<>> => Waiting)
      /\ (stints # <<>> => Running /\ (weird => Weird) /\ (~weird => Normal))
      /\ (exported # <<>> => Covers(exported))
  BY <1>1, ExactParts
<1>3. stints \in Seq(Stint) /\ numLaps \in Nat
  BY DEF Typed, Laps
<1>4. Synced'
  BY <1>1, <1>2 DEF Synced, Measured
<1>5. CASE stints = <<>>
  <2>1. stints' = <<>>
    <3> DEFINE h == Pruned(stints, numLaps)
    <3>1. /\ h \in Seq(Stint)
          /\ \E p \in [1..Len(h) -> 1..Len(stints)] : \A k \in 1..Len(h) : h[k] = stints[p[k]]
      BY <1>3, PrunedKeeps
    <3> HIDE DEF h
    <3>2. ASSUME h # <<>> PROVE FALSE
      <4>1. PICK p : p \in [1..Len(h) -> 1..Len(stints)]
        BY <3>1
      <4>2. Len(stints) = 0 /\ 1 \in 1..Len(h)
        BY <1>5, <3>1, <3>2, EmptySeq
      <4>3. p[1] \in 1..0
        BY <4>1, <4>2
      <4> QED BY <4>3
    <3> QED BY <1>1, <3>2 DEF h
  <2>2. Waiting'
    BY <1>1, <1>2, <1>5, <2>1 DEF Waiting
  <2> QED BY <1>1, <1>2, <1>4, <2>1, <2>2 DEF Exactly
<1>6. CASE stints # <<>>
  <2>1. PICK g : g = Pruned(stints, numLaps)
    OBVIOUS
  <2>2. Chained(stints) /\ LastStint(stints).start <= numLaps
    BY <1>1, <1>2, <1>6 DEF Running, KeepsLast
  <2>3. /\ g \in Seq(Stint) /\ g # <<>> /\ Chained(g) /\ LastStint(g) = LastStint(stints)
        /\ \A mixed : OwnWear(stints, mixed) => OwnWear(g, mixed)
    BY <1>3, <1>6, <2>1, <2>2, PrunedChained
  <2>4. stints' = g /\ Index' = Index /\ (Mixed' <=> Mixed) /\ (Settled' <=> Settled)
    BY <1>1, <2>1, <2>3 DEF Index, Mixed, Settled
  <2>5. Running'
    <3>1. /\ OwnWear(stints, TRUE) /\ (~Mixed => OwnWear(stints, FALSE))
      BY <1>2, <1>6, RunningHas
    <3>2. OwnWear(g, TRUE) /\ (~Mixed => OwnWear(g, FALSE))
      BY <2>3, <3>1
    <3>3. /\ cur' \in {game'.lap - 1, game'.lap} /\ cur' >= 1 /\ (exported' # <<>> => game'.over)
          /\ snaps'[0] # Missing
          /\ \A l \in Laps : l >= cur' /\ ~(l = MaxLap /\ exported' # <<>>) => snaps'[l] = Missing
          /\ Len(LastStint(g).wear) = cur' - LastStint(g).start + (IF exported' = <<>> THEN 1 ELSE 2)
      BY <1>1, <1>2, <1>6, <2>3 DEF Running
    <3> QED BY <2>3, <2>4, <3>2, <3>3, RunningThen
  <2>6. ~weird => Normal'
    BY <1>1, <1>2, <1>6, <2>4 DEF Normal
  <2>7. ASSUME weird PROVE Weird'
    <3>1. Weird
      BY <1>2, <1>6, <2>7
    <3>2. (Stopped => Stopped') /\ (Crossed => Crossed') /\ (Waits => Waits')
      BY <1>1, <2>4 DEF Stopped, Crossed, Waits
    <3>3. History'
      BY <1>1, <3>1 DEF Weird, History, Measured
    <3> QED BY <2>4, <3>1, <3>2, <3>3 DEF Weird
  <2> QED BY <1>1, <1>2, <1>4, <2>3, <2>4, <2>5, <2>6, <2>7 DEF Exactly
<1> QED BY <1>5, <1>6

\* The final classification closes the last lap, and covers all of them.
LEMMA FinalClassificationExact ==
  ASSUME Typed, Known, Exactly, FinalClassification, exact'
  PROVE  Exactly'
<1> DEFINE b == LapChanged(Books, MaxLap, FALSE)
           h == Pruned(b.stints, numLaps)
           c == [b EXCEPT !.stints = h]
<1>1. /\ game.over /\ exported = <<>> /\ damage # Missing
      /\ Keep(c) /\ exported' = h /\ exact /\ KeepsLast(b.stints, numLaps)
      /\ UNCHANGED <<game, weird, due, cur, numLaps>>
  BY DEF FinalClassification, world
<1>2. Synced /\ stints # <<>> /\ Running /\ (weird => Weird) /\ (~weird => Normal)
  BY <1>1, ExactParts DEF Waiting, Start
<1>3. cur = MaxLap /\ game.lap = MaxLap /\ numLaps = MaxLap
  BY <1>1, <1>2 DEF Synced
<1>4. /\ stints \in Seq(Stint) /\ LastStint(stints) \in Stint /\ LastStint(stints).start \in Nat
      /\ Chained(stints) /\ OwnWear(stints, TRUE) /\ (~Mixed => OwnWear(stints, FALSE))
      /\ cur \in Laps /\ cur \in Nat /\ cur >= 1
  BY <1>2, RunningHas
<1>5. /\ Books \in BookType /\ Books.damage = damage /\ Books.sets = sets /\ Books.snaps = snaps
      /\ Books.stints = stints /\ Books.pending = pending /\ Books.recent = recent
  BY BooksGood DEF GoodBooks
<1>6. /\ snaps[MaxLap] = Missing /\ snaps[0] # Missing
      /\ Len(LastStint(stints).wear) = cur - LastStint(stints).start + 1
  BY <1>1, <1>2, <1>3, <1>4 DEF Running
<1> DEFINE w == WearOf(MaxLap, damage)
<1>7. w \in Wear /\ w.lap = MaxLap /\ w.of = damage
  BY <1>1, Bounds DEF Typed
<1> HIDE DEF w, b
<1>8. /\ b \in BookType /\ b.damage = damage /\ b.sets = sets /\ b.pending = pending
      /\ b.recent = recent /\ b.stints = WithWear(stints, w) /\ b.snaps = Snapped(Books, MaxLap)
  <2>1. PICK d : d = LapChanged(Books, MaxLap, FALSE)
    OBVIOUS
  <2>2. /\ d \in BookType /\ d.damage = Books.damage /\ d.sets = Books.sets
        /\ d.pending = Books.pending /\ d.recent = Books.recent
        /\ d.snaps = Snapped(Books, MaxLap)
        /\ d.stints = WithWear(Books.stints, WearOf(MaxLap, Books.damage))
    <3>1. MaxLap \in Laps /\ MaxLap # 0 /\ Books.snaps[MaxLap] = Missing /\ Books.damage # Missing
          /\ Books.stints # <<>>
      BY <1>1, <1>2, <1>5, <1>6, Bounds
    <3> QED BY <1>5, <2>1, <3>1, Closes
  <2> QED BY <1>5, <2>1, <2>2 DEF b, w
<1>9. PICK g : g = b.stints
  OBVIOUS
<1>10. /\ g \in Seq(Stint) /\ g # <<>> /\ Chained(g)
       /\ LastStint(g).start = LastStint(stints).start /\ LastStint(g).index = LastStint(stints).index
       /\ Len(LastStint(g).wear) = MaxLap - LastStint(g).start + 2
       /\ OwnWear(stints, FALSE) => OwnWear(g, TRUE)
       /\ OwnWear(stints, FALSE) /\ w.of.set = LastStint(stints).index => OwnWear(g, FALSE)
  <2>1. w.lap = LastStint(stints).start + Len(LastStint(stints).wear) - 1
    BY <1>3, <1>4, <1>6, <1>7
  <2>2. g = WithWear(stints, w)
    BY <1>8, <1>9
  <2>3. /\ g \in Seq(Stint) /\ g # <<>> /\ Chained(g)
        /\ LastStint(g).start = LastStint(stints).start /\ LastStint(g).index = LastStint(stints).index
        /\ Len(LastStint(g).wear) = Len(LastStint(stints).wear) + 1
        /\ OwnWear(stints, FALSE) => OwnWear(g, TRUE)
        /\ OwnWear(stints, FALSE) /\ w.of.set = LastStint(stints).index => OwnWear(g, FALSE)
    BY <1>2, <1>4, <1>7, <2>1, <2>2, MoreWear
  <2>4. Len(LastStint(g).wear) = MaxLap - LastStint(g).start + 2
    <3>1. LastStint(g).start \in Nat /\ MaxLap \in Nat
      BY <1>4, <2>3, Bounds
    <3>2. Len(LastStint(g).wear) = (MaxLap - LastStint(g).start + 1) + 1
      BY <1>3, <1>6, <2>3
    <3> QED BY <3>1, <3>2
  <2> QED BY <2>3, <2>4
<1>11. /\ h \in Seq(Stint) /\ h # <<>> /\ Chained(h) /\ LastStint(h) = LastStint(g)
       /\ \A i \in DOMAIN h : h[i].start <= EndLap(h, i, MaxLap)
       /\ \A mixed : OwnWear(g, mixed) => OwnWear(h, mixed)
  <2>1. LastStint(g).start <= MaxLap /\ MaxLap \in Nat
    BY <1>1, <1>3, <1>9, <1>10, Bounds DEF KeepsLast
  <2>2. h = Pruned(g, MaxLap)
    BY <1>3, <1>9
  <2> HIDE DEF h
  <2> QED BY <1>10, <2>1, <2>2, PrunedChained
<1> HIDE DEF h
<1>12. Covers(h)
  BY <1>10, <1>11 DEF Covers
<1>13. /\ c \in BookType /\ c.damage = damage /\ c.sets = sets /\ c.pending = pending
       /\ c.recent = recent /\ c.stints = h /\ c.snaps = b.snaps
  BY <1>8, <1>11 DEF BookType
<1> HIDE DEF c
<1>14. /\ UNCHANGED <<damage, sets, pending, recent>> /\ stints' = h /\ snaps' = b.snaps
  BY <1>1, <1>13, KeepIs
<1>15. Synced'
  BY <1>1, <1>2, <1>14 DEF Synced, Measured
<1>16. Index' = Index /\ stints' # <<>> /\ (Settled => Settled')
  BY <1>1, <1>10, <1>11, <1>14 DEF Index, Settled
<1>17. Settled \/ (weird /\ Stopped /\ "lap" \in pending)
  <2>1. weird => Settled \/ Stopped
    BY <1>1, <1>2 DEF Weird, Crossed, Waits
  <2>2. Stopped => "lap" \in pending
    BY <1>1 DEF Stopped
  <2> QED BY <1>1, <1>2, <2>1, <2>2 DEF Normal
<1>18. OwnWear(stints, FALSE)
  <2>1. ~Mixed
    BY <1>1, <1>17 DEF Mixed, Settled
  <2> QED BY <1>4, <2>1
<1>19. OwnWear(h, TRUE) /\ (~Mixed' => OwnWear(h, FALSE))
  <2>1. OwnWear(h, TRUE)
    BY <1>10, <1>11, <1>18
  <2>2. CASE Settled
    <3>1. w.of.set = LastStint(stints).index
      BY <1>7, <2>2 DEF Settled, Index
    <3> QED BY <1>10, <1>11, <1>18, <2>1, <3>1
  <2>3. CASE weird /\ "lap" \in pending
    <3>1. Mixed'
      BY <1>1, <1>11, <1>14, <2>3 DEF Mixed
    <3> QED BY <2>1, <3>1
  <2> QED BY <1>17, <2>2, <2>3
<1>20. Running'
  <2>1. snaps'[0] # Missing
    <3>1. 0 \in Laps /\ 0 # MaxLap
      BY Bounds
    <3> QED BY <1>5, <1>6, <1>8, <1>14, <3>1 DEF Snapped, BookType
  <2>2. \A l \in Laps : ~(l >= cur' /\ ~(l = MaxLap /\ exported' # <<>>))
    BY <1>1, <1>3, <1>11, Bounds DEF Laps
  <2>3. cur' \in {game'.lap - 1, game'.lap} /\ cur' >= 1 /\ game'.over /\ exported' # <<>>
    BY <1>1, <1>3, <1>4, <1>11
  <2>4. Len(LastStint(h).wear) = cur' - LastStint(h).start + 2
    BY <1>1, <1>3, <1>10, <1>11
  <2> QED BY <1>11, <1>14, <1>19, <2>1, <2>2, <2>3, <2>4, RunningThen
<1>21. ~weird => Normal'
  BY <1>16, <1>17 DEF Normal
<1>22. ASSUME weird PROVE Weird'
  <2>1. History'
    BY <1>1, <1>2, <1>14, <1>22 DEF Weird, History, Measured
  <2>2. Stopped /\ "lap" \in pending => Stopped'
    BY <1>1, <1>14, <1>16 DEF Stopped
  <2> QED BY <1>16, <1>17, <2>1, <2>2 DEF Weird
<1> QED BY <1>1, <1>12, <1>15, <1>16, <1>20, <1>21, <1>22 DEF Exactly

\* Every step leaves the books exact, or is not exact.
LEMMA NextExact ==
  ASSUME Typed, Known, Exactly, [Next]_vars
  PROVE  Exactly'
<1> SUFFICES ASSUME exact' PROVE Exactly'
  BY DEF Exactly
<1>1. ASSUME UNCHANGED vars PROVE Exactly'
  <2>1. UNCHANGED <<game, weird, due, cur, numLaps, damage, sets, snaps, stints, pending, recent,
                    exported, exact>>
    BY <1>1 DEF vars, world, books
  <2>2. Synced /\ exact
    BY <2>1, ExactParts
  <2>3. stints = <<>> => Waiting'
    BY <2>1, <2>2, ExactParts DEF Waiting
  <2>4. stints # <<>> => Running'
    BY <2>1, <2>2, ExactParts DEF Running, Mixed
  <2>5. Settled' <=> Settled
    BY <2>1 DEF Settled, Index
  <2>6. stints # <<>> /\ ~weird => Normal'
    BY <2>1, <2>2, <2>5, ExactParts DEF Normal, Index
  <2>7. ASSUME stints # <<>>, weird PROVE Weird'
    <3>1. Weird
      BY <2>2, <2>7, ExactParts
    <3>2. (Stopped => Stopped') /\ (Crossed => Crossed') /\ (Waits => Waits')
      BY <2>1 DEF Stopped, Crossed, Waits, Index
    <3>3. History'
      BY <2>1, <3>1 DEF Weird, History, Measured
    <3> QED BY <2>5, <3>1, <3>2, <3>3 DEF Weird
  <2>8. Synced' /\ (exported' # <<>> => Covers(exported'))
    BY <2>1, <2>2, ExactParts DEF Synced, Measured
  <2> QED BY <2>1, <2>3, <2>4, <2>6, <2>7, <2>8 DEF Exactly
<1>2. ~GoesBack
  BY GoesBackInexact
<1> QED BY <1>1, <1>2, CompletesLapExact, ChangesTyresExact, LapDataExact, CarDamageExact,
           TyreSetsExact, SessionHistoryExact, ReadExact, FinalClassificationExact DEF Next, Packet

\* The inductive invariant.
THEOREM Inductive == Spec => [](Typed /\ IInv)
<1>1. Init => Typed /\ IInv
  BY InitTyped, InitExact DEF IInv
<1>2. (Typed /\ IInv) /\ [Next]_vars => (Typed /\ IInv)'
  BY NextTyped, NextExact DEF IInv
<1> QED BY <1>1, <1>2, PTL DEF Spec

-----------------------------------------------------------------------------
(* What follows from it.                                                    *)

\* For any race, in whatever order lap changes, changes of tyres and their packets come:
\* the wear of a stint (tyre_info.py:119) is that of its own tyres, of one lap after the other, and
\* the stints follow each other without a gap or an overlap.
THEOREM StintsExact == Spec => []StintsAreExact
<1>1. Typed /\ IInv => StintsAreExact
  <2> SUFFICES ASSUME Typed, IInv, exact, pending = {}, NEW i \in DOMAIN stints
               PROVE  LET s == stints[i] IN
                      /\ \A j \in DOMAIN s.wear : s.wear[j].of.set = s.index /\ s.wear[j].lap = s.start + j - 2
                      /\ i > 1 => s.start = stints[i - 1].start + Len(stints[i - 1].wear) - 1
    BY DEF StintsAreExact
  <2>1. stints # <<>>
    OBVIOUS
  <2>2. Running /\ (weird => Weird)
    BY <2>1, ExactParts DEF IInv
  <2>3. ~Mixed
    BY DEF Mixed
  <2>4. Chained(stints) /\ OwnWear(stints, FALSE)
    BY <2>1, <2>2, <2>3, RunningHas
  <2> QED BY <2>4 DEF Chained, OwnWear
<1> QED BY <1>1, Inductive, PTL

\* Stints that cover the race: one begins with the lap after the last lap of the one before, and
\* the last one ends with the race.
LEMMA CoversStarts ==
  ASSUME NEW h \in Seq(Stint), h # <<>>, Covers(h), NEW i \in 1..Len(h)
  PROVE  /\ EndLap(h, i, MaxLap) = h[i].start + Len(h[i].wear) - 2
         /\ h[i].start <= EndLap(h, i, MaxLap) /\ h[i].start \in Nat /\ Len(h[i].wear) \in Nat
         /\ EndLap(h, i, MaxLap) \in Int
         /\ i < Len(h) => h[i + 1].start = EndLap(h, i, MaxLap) + 1
         /\ i = Len(h) => EndLap(h, i, MaxLap) = MaxLap
<1>1. Len(h) \in Nat /\ DOMAIN h = 1..Len(h) /\ i \in Nat
  BY LenProperties
<1>2. Chained(h) /\ h[i].start <= EndLap(h, i, MaxLap)
  BY <1>1 DEF Covers
<1>3. h[i].start \in Nat /\ Len(h[i].wear) \in Nat
  <2>1. \A s \in Stint : s.start \in Nat /\ s.wear \in Seq(Wear)
    BY Bounds DEF Stint
  <2>2. h[i] \in Stint
    BY ElementOfSeq
  <2> QED BY <2>1, <2>2, LenProperties
<1>4. CASE i < Len(h)
  <2>1. i + 1 <= Len(h)
    BY <1>1, <1>4
  <2>2. h[i + 1].start = h[i].start + Len(h[i].wear) - 1 /\ h[i + 1].start \in Nat
    BY <1>2, <2>1, ChainedStarts
  <2>3. EndLap(h, i, MaxLap) = h[i + 1].start - 1
    BY <1>4 DEF EndLap
  <2>4. PICK e : e = EndLap(h, i, MaxLap)
    OBVIOUS
  <2>5. PICK a, b, n : a = h[i].start /\ b = h[i + 1].start /\ n = Len(h[i].wear)
    OBVIOUS
  <2>6. b = a + n - 1 /\ e = b - 1 /\ a <= e /\ a \in Nat /\ b \in Nat /\ n \in Nat
    BY <1>2, <1>3, <2>2, <2>3, <2>4, <2>5
  <2>7. e = a + n - 2 /\ e \in Int /\ b = e + 1
    BY <2>6
  <2>8. i # Len(h)
    <3>1. PICK m : m = Len(h)
      OBVIOUS
    <3>2. m \in Nat /\ i \in Nat /\ i < m
      BY <1>1, <1>4, <3>1
    <3> QED BY <3>1, <3>2
  <2>9. /\ EndLap(h, i, MaxLap) = h[i].start + Len(h[i].wear) - 2
        /\ h[i].start <= EndLap(h, i, MaxLap)
        /\ EndLap(h, i, MaxLap) \in Int
        /\ h[i + 1].start = EndLap(h, i, MaxLap) + 1
    BY <2>4, <2>5, <2>6, <2>7, Zenon
  <2> QED BY <1>3, <1>4, <2>8, <2>9, Zenon
<1>5. CASE i = Len(h)
  <2>1. EndLap(h, i, MaxLap) = MaxLap
    BY <1>5 DEF EndLap
  <2>2. Len(h[i].wear) = MaxLap - h[i].start + 2
    BY <1>5 DEF Covers, LastStint
  <2> QED BY <1>1, <1>2, <1>3, <1>5, <2>1, <2>2, Bounds
<1>6. i < Len(h) \/ i = Len(h)
  <2>1. PICK n : n = Len(h)
    OBVIOUS
  <2>2. n \in Nat /\ i \in 1..n
    BY <1>1, <2>1
  <2>3. i < n \/ i = n
    BY <2>2
  <2> QED BY <2>1, <2>3
<1> QED BY <1>4, <1>5, <1>6

\* Each begins later than those before.
LEMMA CoversIncreasing ==
  ASSUME NEW h \in Seq(Stint), h # <<>>, Covers(h), NEW i \in 1..Len(h), NEW k \in 1..Len(h), i < k
  PROVE  h[i].start < h[k].start
<1> DEFINE B == {j \in (i + 1)..Len(h) : ~(h[i].start < h[j].start)}
<1> SUFFICES ASSUME B # {} PROVE FALSE
  OBVIOUS
<1>1. Len(h) \in Nat /\ i \in Nat /\ B \in SUBSET Nat
  BY LenProperties
<1>2. PICK j \in B : \A x \in B : j <= x
  <2> HIDE DEF B
  <2> QED BY <1>1, Least
<1>3. j - 1 \in 1..Len(h) /\ j \in 1..Len(h) /\ j - 1 < Len(h) /\ j - 1 + 1 = j /\ j \in Nat
  BY <1>1
<1> DEFINE k1 == j - 1
<1>4. k1 \in 1..Len(h) /\ k1 < Len(h) /\ k1 + 1 = j
  BY <1>3
<1> HIDE DEF k1
<1>5. h[k1].start < h[j].start /\ h[k1].start \in Nat /\ h[j].start \in Nat
  <2>1. /\ h[k1].start <= EndLap(h, k1, MaxLap) /\ EndLap(h, k1, MaxLap) \in Int
        /\ h[k1].start \in Nat /\ h[k1 + 1].start = EndLap(h, k1, MaxLap) + 1
    BY <1>4, CoversStarts
  <2>2. h[j].start = EndLap(h, k1, MaxLap) + 1
    BY <1>4, <2>1
  <2>3. h[j].start \in Nat
    BY <1>3, CoversStarts
  <2> QED BY <2>1, <2>2, <2>3
<1>6. CASE k1 = i
  BY <1>5, <1>6
<1>7. CASE k1 # i
  <2>1. k1 \in (i + 1)..Len(h) /\ k1 < j
    BY <1>1, <1>3, <1>4, <1>7
  <2>2. h[i].start < h[k1].start
    BY <1>1, <1>2, <1>3, <2>1
  <2>3. h[i].start \in Nat
    BY CoversStarts
  <2> QED BY <1>5, <2>2, <2>3
<1> QED BY <1>6, <1>7

\* So every lap from the first start on is of one of them.
LEMMA CoversOnce ==
  ASSUME NEW h \in Seq(Stint), h # <<>>, Covers(h), NEW lap \in h[1].start..MaxLap
  PROVE  \E i \in 1..Len(h) :
           {k \in 1..Len(h) : lap \in h[k].start..EndLap(h, k, MaxLap)} = {i}
<1> DEFINE B == {i \in 1..Len(h) : h[i].start <= lap}
<1>1. Len(h) \in Nat /\ 1 \in 1..Len(h)
  BY LenProperties, EmptySeq
<1>2. h[1].start \in Nat /\ lap \in Nat /\ h[1].start <= lap /\ lap <= MaxLap /\ MaxLap \in Nat
  BY <1>1, CoversStarts, Bounds
<1>3. B \in SUBSET (1..Len(h)) /\ B # {}
  BY <1>1, <1>2
<1>4. PICK i \in B : \A x \in B : x <= i
  <2> HIDE DEF B
  <2> QED BY <1>1, <1>3, Greatest
<1>5. i \in 1..Len(h) /\ h[i].start <= lap
  OBVIOUS
<1>6. lap <= EndLap(h, i, MaxLap)
  <2>1. CASE i = Len(h)
    BY <1>2, <1>5, <2>1, CoversStarts
  <2>2. CASE i < Len(h)
    <3> DEFINE n == i + 1
    <3>1. n \in 1..Len(h) /\ n > i
      BY <1>1, <1>5, <2>2
    <3>2. h[n].start = EndLap(h, i, MaxLap) + 1 /\ EndLap(h, i, MaxLap) \in Int
      BY <1>5, <2>2, CoversStarts
    <3> HIDE DEF n
    <3>3. n \notin B
      BY <1>1, <1>4, <1>5, <3>1
    <3>4. ~(h[n].start <= lap)
      BY <3>1, <3>3
    <3> QED BY <1>2, <3>2, <3>4
  <2> QED BY <1>1, <1>5, <2>1, <2>2
<1>7. ASSUME NEW k \in 1..Len(h), k # i, lap \in h[k].start..EndLap(h, k, MaxLap) PROVE FALSE
  <2>1. h[k].start \in Nat /\ EndLap(h, k, MaxLap) \in Int /\ h[k].start <= lap /\ lap <= EndLap(h, k, MaxLap)
    BY <1>7, CoversStarts
  <2>2. k \in B
    BY <2>1
  <2>3. k < i
    BY <1>1, <1>4, <1>5, <1>7, <2>2
  <2> DEFINE n == k + 1
  <2>4. n \in 1..Len(h) /\ n <= i /\ k < Len(h)
    BY <1>1, <1>5, <2>3
  <2>5. h[n].start = EndLap(h, k, MaxLap) + 1
    BY <2>4, CoversStarts
  <2> HIDE DEF n
  <2>6. h[n].start <= h[i].start /\ h[n].start \in Nat /\ h[i].start \in Nat
    <3>1. h[n].start \in Nat /\ h[i].start \in Nat
      BY <1>5, <2>4, CoversStarts
    <3>2. CASE n = i
      BY <3>1, <3>2
    <3>3. CASE n # i
      <4>1. n < i
        BY <1>1, <1>5, <2>4, <3>3
      <4> QED BY <1>5, <2>4, <3>1, <4>1, CoversIncreasing
    <3> QED BY <3>2, <3>3
  <2> QED BY <1>2, <1>5, <2>1, <2>5, <2>6
<1>8. lap \in h[i].start..EndLap(h, i, MaxLap)
  <2>1. h[i].start \in Nat /\ EndLap(h, i, MaxLap) \in Int
    BY <1>5, CoversStarts
  <2> QED BY <1>2, <1>5, <1>6, <2>1
<1> QED BY <1>5, <1>7, <1>8

\* And its laps are those of its wear.
LEMMA CoversWear ==
  ASSUME NEW h \in Seq(Stint), h # <<>>, Covers(h), NEW i \in 1..Len(h)
  PROVE  /\ h[i].start..EndLap(h, i, MaxLap) # {}
         /\ h[i].start..EndLap(h, i, MaxLap) = {h[i].wear[j].lap : j \in 2..Len(h[i].wear)}
<1> DEFINE s == h[i]
           n == Len(s.wear)
           e == EndLap(h, i, MaxLap)
<1>1. e = s.start + n - 2 /\ s.start <= e /\ s.start \in Nat /\ n \in Nat /\ e \in Int
  BY CoversStarts
<1>2. \A j \in 1..n : s.wear[j].lap = s.start + j - 2
  <2>1. Chained(h) /\ DOMAIN h = 1..Len(h)
    BY LenProperties DEF Covers
  <2>2. DOMAIN s.wear = 1..n
    <3>1. h[i] \in Stint
      BY ElementOfSeq
    <3>2. \A x \in Stint : x.wear \in Seq(Wear)
      BY DEF Stint
    <3> QED BY <3>1, <3>2, LenProperties
  <2> QED BY <2>1, <2>2 DEF Chained
<1> HIDE DEF s, n, e
<1>3. s.start..e # {}
  BY <1>1
<1>4. s.start..e = {s.wear[j].lap : j \in 2..n}
  <2>1. ASSUME NEW x \in s.start..e PROVE x \in {s.wear[j].lap : j \in 2..n}
    <3> DEFINE j == x - s.start + 2
    <3>1. j \in 2..n /\ j \in 1..n /\ x = s.start + j - 2
      BY <1>1
    <3> HIDE DEF j
    <3>2. s.wear[j].lap = x
      BY <1>2, <3>1
    <3> QED BY <3>1, <3>2
  <2>2. ASSUME NEW j \in 2..n PROVE s.wear[j].lap \in s.start..e
    <3>1. j \in 1..n
      BY <1>1
    <3>2. s.wear[j].lap = s.start + j - 2
      BY <1>2, <3>1
    <3> QED BY <1>1, <3>2
  <2> QED BY <2>1, <2>2
<1> QED BY <1>3, <1>4 DEF s, n, e

\* For any race: every lap is exported with the one stint it was driven on, and no stint
\* without a lap is left.
THEOREM ExportCovers == Spec => []ExportCoversTheRace
<1>1. Typed /\ IInv => ExportCoversTheRace
  <2> SUFFICES ASSUME Typed, IInv, exact, exported # <<>> PROVE ExportCoversTheRace
    BY DEF ExportCoversTheRace
  <2>1. Covers(exported) /\ exported \in Seq(Stint) /\ DOMAIN exported = 1..Len(exported)
    BY ExactParts, LenProperties DEF IInv, Typed
  <2>2. \A i \in DOMAIN exported :
          /\ exported[i].start..EndLap(exported, i, MaxLap) # {}
          /\ exported[i].start..EndLap(exported, i, MaxLap)
               = {exported[i].wear[j].lap : j \in 2..Len(exported[i].wear)}
    BY <2>1, CoversWear
  <2>3. \A lap \in exported[1].start..MaxLap : \E i \in DOMAIN exported :
          {k \in DOMAIN exported : lap \in exported[k].start..EndLap(exported, k, MaxLap)} = {i}
    BY <2>1, CoversOnce
  <2> QED BY <2>2, <2>3 DEF ExportCoversTheRace
<1> QED BY <1>1, Inductive, PTL
=============================================================================
