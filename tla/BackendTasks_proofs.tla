------------------------ MODULE BackendTasks_proofs ------------------------
(***************************************************************************)
(* Theorems about BackendTasks for every set of receivers, set of failures *)
(* and queue size.                                                         *)
(*                                                                         *)
(* The ready queue is seen as two sets, the callbacks that are scheduled   *)
(* (Pending) and those of them that this iteration runs (Current): no      *)
(* callback is in it twice, so each step adds, keeps or drops members      *)
(* (Went, Returned, Finished; one lemma "...Effects" per action).          *)
(*                                                                         *)
(* General holds whatever fails: ended tasks are never woken, the main     *)
(* task wakes once, the recorder's queue keeps room for the stop item and  *)
(* every receiver gets one unblock item.  It gives TypeCorrect.            *)
(*                                                                         *)
(* Order holds as long as no task has failed.  Its heart is RaceInv: the   *)
(* sampler that the shutdown cancels brings down gather, main task and     *)
(* loop, one callback per iteration; the shutdown meanwhile is woken, puts *)
(* the stop item and waits for the worker's answer, and is always in or    *)
(* before the iteration of its rival.  So when the rest is cancelled the   *)
(* recording is closed (Clean), and it stays so.                           *)
(***************************************************************************)
EXTENDS BackendTasks, SequenceTheorems, FiniteSetTheorems, TLAPS

\* The callbacks of a queue, those that are scheduled, and those of this iteration.
Of(s) == {s[i] : i \in DOMAIN s}
Pending == Of(ready)
Current == {ready[i] : i \in 1..left}
NoTwice(s) == \A i, j \in DOMAIN s : s[i] = s[j] => i = j
Queue(s) == s \in Seq(Callbacks) /\ NoTwice(s)
QueueInv == Queue(ready) /\ left \in 0..Len(ready)

\* What is appended, and what of it is new: the step keeps every other callback.
Added(set) == /\ QueueInv'
              /\ \A c : c \in Pending' <=> c \in Pending \/ c \in set
              /\ \A c : c \in Current' <=> c \in Current
              /\ \A c : Runs(c) => Runs(c)'
Replaced(head, set) == /\ QueueInv' /\ head \in Current
                       /\ \A c : c \in Pending' <=> (c \in Pending /\ c # head) \/ c \in set
                       /\ \A c : c \in Current' <=> c \in Current /\ c # head

-----------------------------------------------------------------------------
\* The callbacks are told apart.
LEMMA CallbacksDiffer ==
  /\ \A t, u : Wake(t) = Wake(u) => t = u
  /\ \A t, u : ChildDone(t) = ChildDone(u) => t = u
  /\ \A t, u : Wake(t) # ChildDone(u)
  /\ \A t : Wake(t) # SamplerJoined /\ Wake(t) # StopLoop
  /\ \A t : ChildDone(t) # SamplerJoined /\ ChildDone(t) # StopLoop
  /\ SamplerJoined # StopLoop
BY DEF Wake, ChildDone, SamplerJoined, StopLoop

\* They are callbacks of the loop.
LEMMA CallbackTypes ==
  /\ \A t \in Task : Wake(t) \in Callbacks /\ ChildDone(t) \in Callbacks
  /\ Wake("main") \in Callbacks /\ SamplerJoined \in Callbacks /\ StopLoop \in Callbacks
BY DEF Wake, ChildDone, SamplerJoined, StopLoop, Callbacks

\* There are finitely many tasks, so Wakes can order those it wakes.
LEMMA TasksFinite == IsFiniteSet(Task)
<1>1. \A S, x : IsFiniteSet(S) => IsFiniteSet(S \cup {x})
  BY FS_AddElement
<1>2. IsFiniteSet({"web"})
  BY FS_Singleton
<1>3. IsFiniteSet({"publisher", "web"})
  <2>1. {"publisher", "web"} = {"web"} \cup {"publisher"}
    OBVIOUS
  <2> QED BY <1>1, <1>2, <2>1
<1>4. IsFiniteSet({"listener", "publisher", "web"})
  <2>1. {"listener", "publisher", "web"} = {"publisher", "web"} \cup {"listener"}
    OBVIOUS
  <2> QED BY <1>1, <1>3, <2>1
<1>5. IsFiniteSet({"sampler", "listener", "publisher", "web"})
  <2>1. {"sampler", "listener", "publisher", "web"} = {"listener", "publisher", "web"} \cup {"sampler"}
    OBVIOUS
  <2> QED BY <1>1, <1>4, <2>1
<1>6. IsFiniteSet({"worker", "sampler", "listener", "publisher", "web"})
  <2>1. {"worker", "sampler", "listener", "publisher", "web"}
          = {"sampler", "listener", "publisher", "web"} \cup {"worker"}
    OBVIOUS
  <2> QED BY <1>1, <1>5, <2>1
<1>7. IsFiniteSet({"shutdown", "worker", "sampler", "listener", "publisher", "web"})
  <2>1. {"shutdown", "worker", "sampler", "listener", "publisher", "web"}
          = {"worker", "sampler", "listener", "publisher", "web"} \cup {"shutdown"}
    OBVIOUS
  <2> QED BY <1>1, <1>6, <2>1
<1> QED BY <1>7, FS_Union, ConstantsAssumption DEF Task

\* Queues of no and of one callback.
LEMMA EmptyQueue == Queue(<<>>) /\ Of(<<>>) = {}
BY DEF Queue, NoTwice, Of

LEMMA OneCallback ==
  ASSUME NEW c \in Callbacks
  PROVE  Queue(<<c>>) /\ Of(<<c>>) = {c}
BY DEF Queue, NoTwice, Of

\* Queues with nothing in common make up a queue.
LEMMA TwoQueues ==
  ASSUME NEW s, NEW u, Queue(s), Queue(u), Of(s) \cap Of(u) = {}
  PROVE  /\ Queue(s \o u) /\ Of(s \o u) = Of(s) \cup Of(u)
         /\ \A i \in 1..Len(s) : (s \o u)[i] = s[i]
         /\ Len(s \o u) = Len(s) + Len(u)
<1> DEFINE w == s \o u
<1>0. s \in Seq(Callbacks) /\ u \in Seq(Callbacks)
  BY DEF Queue
<1>1. /\ w \in Seq(Callbacks) /\ Len(w) = Len(s) + Len(u)
      /\ \A i \in 1..Len(w) : w[i] = IF i <= Len(s) THEN s[i] ELSE u[i - Len(s)]
  BY <1>0, ConcatProperties
<1>2. /\ DOMAIN s = 1..Len(s) /\ DOMAIN u = 1..Len(u) /\ DOMAIN w = 1..Len(w)
      /\ Len(s) \in Nat /\ Len(u) \in Nat
  BY <1>0, <1>1
<1> HIDE DEF w
<1>3. \A i \in 1..Len(s), j \in 1..Len(u) : s[i] # u[j]
  BY <1>2 DEF Of
<1>4. /\ \A i, j \in 1..Len(s) : s[i] = s[j] => i = j
      /\ \A i, j \in 1..Len(u) : u[i] = u[j] => i = j
  BY <1>2 DEF Queue, NoTwice
<1>5. NoTwice(w)
  <2> SUFFICES ASSUME NEW i \in 1..Len(w), NEW j \in 1..Len(w), w[i] = w[j]
               PROVE  i = j
    BY <1>2 DEF NoTwice
  <2>1. CASE i <= Len(s) /\ j <= Len(s)
    BY <1>1, <1>2, <1>4, <2>1
  <2>2. CASE i <= Len(s) /\ j > Len(s)
    BY <1>1, <1>2, <1>3, <2>2
  <2>3. CASE i > Len(s) /\ j <= Len(s)
    BY <1>1, <1>2, <1>3, <2>3
  <2>4. CASE i > Len(s) /\ j > Len(s)
    <3>1. i - Len(s) \in 1..Len(u) /\ j - Len(s) \in 1..Len(u)
      BY <1>1, <1>2, <2>4
    <3>2. u[i - Len(s)] = u[j - Len(s)]
      BY <1>1, <1>2, <2>4
    <3>3. i - Len(s) = j - Len(s)
      BY <1>4, <3>1, <3>2
    <3> QED BY <1>2, <3>3
  <2> QED BY <1>2, <2>1, <2>2, <2>3, <2>4
<1>6. Of(w) = Of(s) \cup Of(u)
  <2>1. \A c \in Of(w) : c \in Of(s) \cup Of(u)
    <3> SUFFICES ASSUME NEW i \in 1..Len(w)
                 PROVE  w[i] \in Of(s) \cup Of(u)
      BY <1>2 DEF Of
    <3>1. CASE i <= Len(s)
      BY <1>1, <1>2, <3>1 DEF Of
    <3>2. CASE i > Len(s)
      <4>1. i - Len(s) \in 1..Len(u)
        BY <1>1, <1>2, <3>2
      <4> QED BY <1>1, <1>2, <3>2, <4>1 DEF Of
    <3> QED BY <1>2, <3>1, <3>2
  <2>2. \A c \in Of(s) : c \in Of(w)
    <3> SUFFICES ASSUME NEW i \in 1..Len(s)
                 PROVE  s[i] \in Of(w)
      BY <1>2 DEF Of
    <3>1. i \in 1..Len(w) /\ w[i] = s[i]
      BY <1>1, <1>2
    <3> QED BY <1>2, <3>1 DEF Of
  <2>3. \A c \in Of(u) : c \in Of(w)
    <3> SUFFICES ASSUME NEW i \in 1..Len(u)
                 PROVE  u[i] \in Of(w)
      BY <1>2 DEF Of
    <3>1. i + Len(s) \in 1..Len(w) /\ w[i + Len(s)] = u[(i + Len(s)) - Len(s)]
      BY <1>1, <1>2
    <3>2. (i + Len(s)) - Len(s) = i
      BY <1>2
    <3> QED BY <1>2, <3>1, <3>2 DEF Of
  <2> QED BY <2>1, <2>2, <2>3
<1>7. \A i \in 1..Len(s) : w[i] = s[i]
  BY <1>1, <1>2
<1> QED BY <1>1, <1>5, <1>6, <1>7 DEF Queue, w

\* The head is a callback of this iteration, the tail has the others.
LEMMA TailOfQueue ==
  ASSUME NEW s, Queue(s), s # <<>>
  PROVE  Queue(Tail(s)) /\ Of(Tail(s)) = Of(s) \ {Head(s)}
<1>0. s \in Seq(Callbacks) /\ Len(s) \in Nat /\ DOMAIN s = 1..Len(s) /\ Len(s) # 0
  BY DEF Queue
<1>1. /\ Tail(s) \in Seq(Callbacks) /\ Len(Tail(s)) = Len(s) - 1 /\ Head(s) = s[1]
      /\ \A i \in 1..Len(Tail(s)) : Tail(s)[i] = s[i + 1]
  BY <1>0, HeadTailProperties
<1> DEFINE w == Tail(s)
<1>2. DOMAIN w = 1..Len(w)
  BY <1>1
<1> HIDE DEF w
<1>3. \A i, j \in 1..Len(s) : s[i] = s[j] => i = j
  BY <1>0 DEF Queue, NoTwice
<1>4. NoTwice(w)
  <2> SUFFICES ASSUME NEW i \in 1..Len(w), NEW j \in 1..Len(w), w[i] = w[j]
               PROVE  i = j
    BY <1>2 DEF NoTwice
  <2>1. s[i + 1] = s[j + 1] /\ i + 1 \in 1..Len(s) /\ j + 1 \in 1..Len(s)
    BY <1>0, <1>1 DEF w
  <2>2. i + 1 = j + 1
    BY <1>3, <2>1
  <2> QED BY <2>2
<1>5. Of(w) = Of(s) \ {Head(s)}
  <2>1. \A c \in Of(w) : c \in Of(s) /\ c # Head(s)
    <3> SUFFICES ASSUME NEW i \in 1..Len(w)
                 PROVE  w[i] \in Of(s) /\ w[i] # Head(s)
      BY <1>2 DEF Of
    <3>1. w[i] = s[i + 1] /\ i + 1 \in 1..Len(s) /\ i + 1 # 1 /\ 1 \in 1..Len(s)
      BY <1>0, <1>1 DEF w
    <3> QED BY <1>0, <1>1, <1>3, <3>1 DEF Of
  <2>2. \A c \in Of(s) : c # Head(s) => c \in Of(w)
    <3> SUFFICES ASSUME NEW i \in 1..Len(s), s[i] # Head(s)
                 PROVE  s[i] \in Of(w)
      BY <1>0 DEF Of
    <3>1. i # 1
      BY <1>1
    <3>2. i - 1 \in 1..Len(w) /\ w[i - 1] = s[(i - 1) + 1] /\ (i - 1) + 1 = i
      BY <1>0, <1>1, <3>1 DEF w
    <3> QED BY <1>2, <3>2 DEF Of
  <2> QED BY <2>1, <2>2
<1> QED BY <1>1, <1>4, <1>5 DEF Queue, w

-----------------------------------------------------------------------------
\* Some order of a finite set is one: each of its members has one place in it.
LEMMA OrderExists ==
  ASSUME NEW S, IsFiniteSet(S)
  PROVE  LET order == InSomeOrder(S)
         IN  /\ order \in [1..Cardinality(S) -> S] /\ Cardinality(S) \in Nat
             /\ S = {order[i] : i \in 1..Cardinality(S)}
             /\ \A i, j \in 1..Cardinality(S) : order[i] = order[j] => i = j
<1> DEFINE n == Cardinality(S)
           order == InSomeOrder(S)
<1>1. n \in Nat /\ ExistsBijection(1..n, S)
  BY FS_CardinalityType
<1>2. PICK f : f \in Bijection(1..n, S)
  BY <1>1 DEF ExistsBijection
<1>3. f \in [1..n -> S] /\ \A t \in S : \E i \in 1..n : f[i] = t
  BY <1>2 DEF Bijection, Injection, Surjection
<1>4. S = {f[i] : i \in DOMAIN f}
  BY <1>3
<1>5. order \in [1..n -> S] /\ S = {order[i] : i \in DOMAIN order}
  BY <1>3, <1>4 DEF InSomeOrder
<1> HIDE DEF order, n
<1>6. order \in Surjection(1..n, S)
  BY <1>5 DEF Surjection
<1>7. IsFiniteSet(1..n) /\ Cardinality(1..n) = Cardinality(S)
  BY <1>1, FS_Interval DEF n
<1>8. order \in Injection(1..n, S)
  BY <1>6, <1>7, FS_SurjSameCardinalityImpliesInj
<1>9. \A i, j \in 1..n : order[i] = order[j] => i = j
  BY <1>8 DEF Injection, IsInjective
<1> QED BY <1>1, <1>5, <1>9 DEF n, order

\* Waking some tasks schedules each of them that is not scheduled yet, once.
LEMMA WakesOnce ==
  ASSUME NEW tasks \in SUBSET Task
  PROVE  /\ Queue(Wakes(tasks))
         /\ \A c : c \in Of(Wakes(tasks)) <=> c \notin Pending /\ \E t \in tasks : c = Wake(t)
<1> DEFINE S == {t \in tasks : ~Scheduled(t)}
           n == Cardinality(S)
           order == InSomeOrder(S)
           s == [i \in DOMAIN order |-> Wake(order[i])]
<1>1. S \subseteq Task /\ IsFiniteSet(S)
  BY TasksFinite, FS_Subset
<1>2. /\ order \in [1..n -> S] /\ n \in Nat
      /\ S = {order[i] : i \in 1..n}
      /\ \A i, j \in 1..n : order[i] = order[j] => i = j
  BY <1>1, OrderExists
<1>3. Wakes(tasks) = s
  BY DEF Wakes
<1>4. \A t : t \in S <=> t \in tasks /\ Wake(t) \notin Pending
  BY DEF Scheduled, Pending, Of
<1>5. DOMAIN order = 1..n
  BY <1>2
<1> HIDE DEF S, n, order
<1>6. DOMAIN s = 1..n /\ \A i \in 1..n : s[i] = Wake(order[i])
  BY <1>5
<1>7. s \in Seq(Callbacks)
  <2>1. \A i \in 1..n : Wake(order[i]) \in Callbacks
    BY <1>1, <1>2, CallbackTypes
  <2>2. s \in [1..n -> Callbacks]
    BY <1>5, <2>1
  <2> QED BY <1>2, <2>2, SeqDef
<1> HIDE DEF s
<1>8. NoTwice(s)
  BY <1>2, <1>6, CallbacksDiffer DEF NoTwice
<1>9. \A c : c \in Of(s) <=> c \notin Pending /\ \E t \in tasks : c = Wake(t)
  <2>1. \A c : c \in Of(s) <=> \E i \in 1..n : c = Wake(order[i])
    BY <1>6 DEF Of
  <2>2. \A c : (\E i \in 1..n : c = Wake(order[i])) <=> \E t \in S : c = Wake(t)
    BY <1>2
  <2>3. \A c : (\E t \in S : c = Wake(t)) <=> c \notin Pending /\ \E t \in tasks : c = Wake(t)
    BY <1>4
  <2> QED BY <2>1, <2>2, <2>3
<1> QED BY <1>3, <1>7, <1>8, <1>9 DEF Queue

\* What this iteration runs is scheduled; there is nothing of it when it is over.
LEMMA CurrentIsPending ==
  ASSUME QueueInv
  PROVE  /\ \A c \in Current : c \in Pending
         /\ left = 0 <=> Current = {}
<1>1. ready \in Seq(Callbacks) /\ DOMAIN ready = 1..Len(ready) /\ Len(ready) \in Nat /\ left \in 0..Len(ready)
  BY DEF QueueInv, Queue
<1>2. \A i \in 1..left : i \in DOMAIN ready
  BY <1>1
<1>3. left # 0 => 1 \in 1..left
  BY <1>1
<1> QED BY <1>1, <1>2, <1>3 DEF Current, Pending, Of

\* What runs is the head, a callback of this iteration.
LEMMA Running ==
  ASSUME QueueInv, NEW c, Runs(c)
  PROVE  /\ c = Head(ready) /\ c \in Current /\ c \in Pending /\ ready # <<>> /\ left > 0
<1>1. ready \in Seq(Callbacks) /\ Len(ready) \in Nat /\ left \in 0..Len(ready) /\ left > 0 /\ c = Head(ready)
  BY DEF QueueInv, Queue, Runs
<1>2. 1 \in 1..left /\ c = ready[1] /\ Len(ready) # 0
  BY <1>1
<1>3. c \in Current
  BY <1>2 DEF Current
<1>4. ready # <<>>
  BY <1>2
<1> QED BY <1>1, <1>3, <1>4, CurrentIsPending

\* The effect of scheduling callbacks that are not scheduled.
LEMMA Scheduling ==
  ASSUME QueueInv, NEW s, Queue(s), \A c \in Of(s) : c \notin Pending,
         ready' = ready \o s, left' = left
  PROVE  Added(Of(s))
<1>1. ready \in Seq(Callbacks) /\ s \in Seq(Callbacks) /\ left \in 0..Len(ready) /\ Len(ready) \in Nat
      /\ Len(s) \in Nat
  BY DEF QueueInv, Queue
<1>2. Of(ready) \cap Of(s) = {}
  BY DEF Pending
<1>3. /\ Queue(ready') /\ Of(ready') = Of(ready) \cup Of(s)
      /\ \A i \in 1..Len(ready) : ready'[i] = ready[i]
      /\ Len(ready') = Len(ready) + Len(s)
  BY <1>2, TwoQueues DEF QueueInv
<1>4. left' \in 0..Len(ready')
  BY <1>1, <1>3
<1>5. \A i \in 1..left : ready'[i] = ready[i]
  BY <1>1, <1>3
<1>6. \A c : c \in Current' <=> c \in Current
  BY <1>5 DEF Current
<1>7. \A c : c \in Pending' <=> c \in Pending \/ c \in Of(s)
  BY <1>3 DEF Pending
<1>8. ASSUME NEW c, Runs(c) PROVE Runs(c)'
  <2>1. left > 0 /\ c = ready[1] /\ Len(ready) >= 1
    BY <1>1, <1>8 DEF Runs
  <2>2. ready' \in Seq(Callbacks) /\ Len(ready') >= 1 /\ ready'[1] = ready[1]
    BY <1>1, <1>3, <2>1 DEF Queue
  <2> QED BY <2>1, <2>2 DEF Runs
<1> QED BY <1>3, <1>4, <1>6, <1>7, <1>8 DEF Added, QueueInv

\* The effect of a callback that returns.
LEMMA Returning ==
  ASSUME QueueInv, NEW c, Runs(c), NEW s, Queue(s), \A d \in Of(s) : d \notin Pending \/ d = c,
         ready' = Tail(ready) \o s, left' = left - 1
  PROVE  Replaced(c, Of(s))
<1>1. /\ ready \in Seq(Callbacks) /\ s \in Seq(Callbacks) /\ left \in 0..Len(ready) /\ Len(ready) \in Nat
      /\ Len(s) \in Nat
  BY DEF QueueInv, Queue
<1>2. c = Head(ready) /\ c \in Current /\ ready # <<>> /\ left > 0
  BY Running
<1>3. Queue(Tail(ready)) /\ Of(Tail(ready)) = Of(ready) \ {c}
  BY <1>2, TailOfQueue DEF QueueInv
<1>4. Of(Tail(ready)) \cap Of(s) = {}
  BY <1>3 DEF Pending
<1>5. /\ Queue(ready') /\ Of(ready') = Of(Tail(ready)) \cup Of(s)
      /\ \A i \in 1..Len(Tail(ready)) : ready'[i] = Tail(ready)[i]
      /\ Len(ready') = Len(Tail(ready)) + Len(s)
  BY <1>3, <1>4, TwoQueues
<1>6. /\ Len(Tail(ready)) = Len(ready) - 1 /\ \A i \in 1..(Len(ready) - 1) : Tail(ready)[i] = ready[i + 1]
      /\ c = ready[1]
  BY <1>1, <1>2, HeadTailProperties
<1>7. left' \in 0..Len(ready')
  BY <1>1, <1>2, <1>5, <1>6
<1>8. \A i \in 1..left' : i + 1 \in 1..left /\ i + 1 # 1 /\ ready'[i] = ready[i + 1]
  BY <1>1, <1>2, <1>5, <1>6
<1>9. \A i \in 1..left : i # 1 => i - 1 \in 1..left' /\ ready'[i - 1] = ready[i]
  <2> SUFFICES ASSUME NEW i \in 1..left, i # 1
               PROVE  i - 1 \in 1..left' /\ ready'[i - 1] = ready[i]
    OBVIOUS
  <2>1. i - 1 \in 1..left' /\ (i - 1) + 1 = i
    BY <1>1, <1>2
  <2> QED BY <1>8, <2>1
<1>10. \A i \in 1..left : i # 1 => ready[i] # c
  BY <1>1, <1>2, <1>6 DEF QueueInv, Queue, NoTwice
<1>11. \A d : d \in Current' <=> d \in Current /\ d # c
  <2>1. \A d \in Current' : d \in Current /\ d # c
    <3> SUFFICES ASSUME NEW i \in 1..left'
                 PROVE  ready'[i] \in Current /\ ready'[i] # c
      BY DEF Current
    <3>1. i + 1 \in 1..left /\ i + 1 # 1 /\ ready'[i] = ready[i + 1]
      BY <1>8
    <3>2. ready[i + 1] # c
      BY <1>10, <3>1
    <3> QED BY <3>1, <3>2 DEF Current
  <2>2. \A d \in Current : d # c => d \in Current'
    <3> SUFFICES ASSUME NEW i \in 1..left, ready[i] # c
                 PROVE  ready[i] \in Current'
      BY DEF Current
    <3>1. i # 1
      BY <1>6
    <3>2. i - 1 \in 1..left' /\ ready'[i - 1] = ready[i]
      BY <1>9, <3>1
    <3> QED BY <3>2 DEF Current
  <2> QED BY <2>1, <2>2
<1>12. \A d : d \in Pending' <=> (d \in Pending /\ d # c) \/ d \in Of(s)
  BY <1>3, <1>5 DEF Pending
<1> QED BY <1>2, <1>5, <1>7, <1>11, <1>12 DEF Replaced, QueueInv

-----------------------------------------------------------------------------
(* What holds whatever fails                                                *)

\* A task that has ended stays ended: nothing wakes it, nothing cancels it, and
\* those who gather it are told when it ends.
EndedInv ==
    /\ \A t \in Task \ {"shutdown"} : Wake(t) \in Pending => Alive(t)
    /\ \A t \in cancelled : Alive(t)
    /\ \A t \in Task : ChildDone(t) \in Pending => ~Alive(t)
    /\ SamplerJoined \in Pending => ~Alive("sampler")

\* The main task wakes for the first bad outcome and stops the loop once.
GatherInv ==
    /\ gathered = "none" => Wake("main") \notin Pending /\ StopLoop \notin Pending /\ phase = "running"
    /\ Wake("main") \in Pending => StopLoop \notin Pending /\ phase = "running"
    /\ StopLoop \in Pending => phase = "running"
    /\ gathered \in {"error", "refused"} => Failed

Points == Ended \cup
    {"receive", "stop web", "web", "stop handler", "save", "stop service", "sampler",
     "stop recorder", "answer", "close publisher", "sleep", "get", "recv", "finalize",
     "idle", "start", "serving", "busy"}
Core ==
    /\ at \in [Task -> Points] /\ cancelled \subseteq Task
    /\ phase \in {"running", "stopping", "draining", "exited"} /\ gathered \in {"none"} \cup Ended
    /\ QueueInv /\ EndedInv /\ GatherInv

\* The recorder's queue has room for the stop item.
StopStages == {"answer", "close publisher", "sleep"} \cup Ended
Item == {"data", "finalize", "stop"}
ItemsInv == /\ items \in Seq(Item) /\ Len(items) <= MaxItems + 1
            /\ at["shutdown"] \notin StopStages => Len(items) <= MaxItems

\* A receiver is unblocked once, and woken for something.
Mails == {<<>>, <<"message">>, <<"unblock">>, <<"message", "unblock">>}
MailInv ==
    /\ mail \in [Receivers -> Mails]
    /\ at["shutdown"] = "receive" => \A r \in Receivers : mail[r] \in {<<>>, <<"message">>}
    /\ \A r \in Receivers : at[r] = "get" /\ Wake(r) \in Pending /\ r \notin cancelled => mail[r] # <<>>

FlagsOK == /\ event \in BOOLEAN /\ requested \in BOOLEAN /\ open \in BOOLEAN
           /\ save \in {"none", "running", "done", "late", "cut"}

General == Core /\ ItemsInv /\ MailInv /\ FlagsOK

-----------------------------------------------------------------------------
(* What each action does to the loop                                        *)

Wakers(tasks) == {Wake(t) : t \in tasks}
Went(tasks) == Added(Wakers(tasks)) /\ UNCHANGED <<phase, gathered>>
Returned(c, tasks) == Replaced(c, Wakers(tasks)) /\ UNCHANGED <<phase, gathered>>
Finished(t, outcome, tasks) ==
    /\ at' = [at EXCEPT ![t] = outcome]
    /\ cancelled' = cancelled \ {t}
    /\ UNCHANGED <<phase, gathered>>
    /\ Replaced(Wake(t), Wakers(tasks) \cup {ChildDone(t)} \cup
         IF t = "sampler" /\ at["shutdown"] = "sampler" THEN {SamplerJoined} ELSE {})

IfAlive(t) == IF Alive(t) THEN {t} ELSE {}

\* Waking nobody schedules nothing.
LEMMA WakesNobody == Wakes({}) = <<>>
<1> DEFINE S == {t \in {} : ~Scheduled(t)}
           order == InSomeOrder(S)
<1>1. S = {} /\ IsFiniteSet(S)
  BY FS_EmptySet
<1>2. Cardinality(S) = 0
  BY <1>1, FS_EmptySet
<1>3. DOMAIN order = 1..0
  BY <1>1, <1>2, OrderExists
<1> HIDE DEF order
<1>4. DOMAIN order = {}
  BY <1>3
<1>5. [i \in DOMAIN order |-> Wake(order[i])] = <<>>
  BY <1>4
<1> QED BY <1>5 DEF Wakes, order

\* Two groups of tasks that are woken one after the other.
LEMMA WakesBoth ==
  ASSUME NEW A \in SUBSET Task, NEW B \in SUBSET Task, A \cap B = {}
  PROVE  /\ Queue(Wakes(A) \o Wakes(B))
         /\ \A c : c \in Of(Wakes(A) \o Wakes(B)) <=> c \notin Pending /\ \E t \in A \cup B : c = Wake(t)
<1>1. /\ Queue(Wakes(A)) /\ Queue(Wakes(B))
      /\ \A c : c \in Of(Wakes(A)) <=> c \notin Pending /\ \E t \in A : c = Wake(t)
      /\ \A c : c \in Of(Wakes(B)) <=> c \notin Pending /\ \E t \in B : c = Wake(t)
  BY WakesOnce
<1> DEFINE a == Wakes(A)
           b == Wakes(B)
<1> HIDE DEF a, b
<1>2. Of(a) \cap Of(b) = {}
  BY <1>1, CallbacksDiffer DEF a, b
<1>3. Queue(a \o b) /\ Of(a \o b) = Of(a) \cup Of(b)
  BY <1>1, <1>2, TwoQueues DEF a, b
<1>4. \A c : c \in Of(a \o b) <=> c \notin Pending /\ \E t \in A \cup B : c = Wake(t)
  BY <1>1, <1>3 DEF a, b
<1> QED BY <1>3, <1>4 DEF a, b

\* What schedules exactly the tasks that are not scheduled yet.
Woken(s, tasks) ==
    Queue(s) /\ \A c : c \in Of(s) <=> c \notin Pending /\ \E t \in tasks : c = Wake(t)

\* A step within a callback, with or without tasks to wake.
LEMMA GoingOn ==
  ASSUME QueueInv, NEW s, NEW tasks \in SUBSET Task, Woken(s, tasks), GoesOn(s)
  PROVE  Went(tasks)
<1>1. Added(Of(s))
  BY Scheduling DEF Woken, GoesOn
<1>2. \A c : (c \in Pending \/ c \in Of(s)) <=> (c \in Pending \/ c \in Wakers(tasks))
  BY DEF Woken, Wakers
<1> QED BY <1>1, <1>2 DEF Added, Went, GoesOn

LEMMA StayingOn ==
  ASSUME QueueInv, ready' = ready, left' = left
  PROVE  Added({})
BY DEF Added, QueueInv, Queue, NoTwice, Pending, Current, Of, Runs

\* A callback that returns, and a task that ends.
LEMMA ComingBack ==
  ASSUME QueueInv, NEW c, Runs(c), NEW s, NEW tasks \in SUBSET Task, Woken(s, tasks),
         \A t \in tasks : c # Wake(t), Yields(s)
  PROVE  Returned(c, tasks)
<1>1. Replaced(c, Of(s))
  BY Returning DEF Woken, Yields
<1>2. \A d : ((d \in Pending /\ d # c) \/ d \in Of(s)) <=> ((d \in Pending /\ d # c) \/ d \in Wakers(tasks))
  BY DEF Woken, Wakers
<1> QED BY <1>1, <1>2 DEF Replaced, Returned, Yields

LEMMA Ending ==
  ASSUME QueueInv, EndedInv, NEW t \in Task, Runs(Wake(t)), Alive(t), NEW s,
         NEW tasks \in SUBSET (Task \ {t}), Woken(s, tasks), NEW outcome, Ends(t, outcome, s)
  PROVE  Finished(t, outcome, tasks)
<1> DEFINE joined == IF t = "sampler" /\ at["shutdown"] = "sampler" THEN <<SamplerJoined>> ELSE <<>>
           done == s \o <<ChildDone(t)>>
           all == done \o joined
           more == IF t = "sampler" /\ at["shutdown"] = "sampler" THEN {SamplerJoined} ELSE {}
<1>1. Queue(joined) /\ Of(joined) = more
  BY OneCallback, EmptyQueue, CallbackTypes
<1>2. Queue(<<ChildDone(t)>>) /\ Of(<<ChildDone(t)>>) = {ChildDone(t)}
  BY OneCallback, CallbackTypes
<1>3. Queue(s) /\ \A c \in Of(s) : \E u \in tasks : c = Wake(u)
  BY DEF Woken
<1>4. Of(s) \cap {ChildDone(t)} = {}
  BY <1>3, CallbacksDiffer
<1>5. Queue(done) /\ Of(done) = Of(s) \cup {ChildDone(t)}
  BY <1>2, <1>3, <1>4, TwoQueues
<1>6. Of(done) \cap more = {}
  BY <1>3, <1>5, CallbacksDiffer
<1> HIDE DEF done, joined
<1>7. Queue(all) /\ Of(all) = Of(s) \cup {ChildDone(t)} \cup more
  BY <1>1, <1>5, <1>6, TwoQueues
<1>8. Yields(all) /\ at' = [at EXCEPT ![t] = outcome] /\ cancelled' = cancelled \ {t}
  BY DEF Ends, done, joined
<1>9. ChildDone(t) \notin Pending /\ \A c \in more : c \notin Pending
  BY DEF EndedInv
<1> HIDE DEF all
<1>10. \A d \in Of(all) : d \notin Pending \/ d = Wake(t)
  BY <1>7, <1>9 DEF Woken
<1>11. Replaced(Wake(t), Of(all)) /\ UNCHANGED <<phase, gathered>>
  BY <1>7, <1>8, <1>10, Returning DEF Yields
<1>12. \A d : ((d \in Pending /\ d # Wake(t)) \/ d \in Of(all)) <=>
              ((d \in Pending /\ d # Wake(t)) \/ d \in (Wakers(tasks) \cup {ChildDone(t)} \cup more))
  <2>1. \A d : d \in Of(s) <=> d \notin Pending /\ \E u \in tasks : d = Wake(u)
    BY DEF Woken
  <2>2. \A u \in tasks : Wake(u) # Wake(t)
    BY CallbacksDiffer
  <2> QED BY <1>7, <2>1, <2>2 DEF Wakers
<1>13. Replaced(Wake(t), Wakers(tasks) \cup {ChildDone(t)} \cup more)
  BY <1>11, <1>12 DEF Replaced
<1> QED BY <1>8, <1>11, <1>13 DEF Finished

\* What the actions schedule wakes exactly those it is meant to.
LEMMA WokenNobody == Woken(<<>>, {})
BY EmptyQueue DEF Woken

LEMMA WokenTasks ==
  ASSUME NEW tasks \in SUBSET Task
  PROVE  Woken(Wakes(tasks), tasks)
BY WakesOnce DEF Woken

LEMMA WokenWorker == Woken(WorkerWake, IfAlive("worker")) /\ IfAlive("worker") \subseteq Task
<1>1. {"worker"} \subseteq Task
  BY DEF Task
<1>2. Woken(Wakes({"worker"}), {"worker"})
  BY <1>1, WokenTasks
<1> QED BY <1>1, <1>2, WokenNobody DEF WorkerWake, IfAlive

-----------------------------------------------------------------------------
\* The tasks, the loop and the types that the effects are about.
Loops == QueueInv /\ EndedInv

\* The names of the tasks, apart from those of the receivers.
LEMMA TaskNames ==
  /\ {"shutdown", "worker", "sampler", "listener", "publisher", "web"} \subseteq Task
  /\ Receivers \subseteq Task /\ "main" \notin Task
  /\ \A r \in Receivers : r \notin {"shutdown", "worker", "sampler", "listener", "publisher", "web", "main"}
BY ConstantsAssumption DEF Task

\* Whoever runs has not ended.
LEMMA RunsOnce ==
  ASSUME Loops, NEW t \in Task, Runs(Wake(t)), t # "shutdown"
  PROVE  Alive(t)
BY Running DEF Loops, EndedInv

\* Callbacks that return, end or go on without waking anyone.
LEMMA ReturningEmpty ==
  ASSUME Loops, NEW c, Runs(c), Yields(<<>>)
  PROVE  Returned(c, {})
BY WokenNobody, ComingBack DEF Loops

LEMMA EndingEmpty ==
  ASSUME Loops, NEW t \in Task, Runs(Wake(t)), Alive(t), NEW outcome, Ends(t, outcome, <<>>)
  PROVE  Finished(t, outcome, {})
BY WokenNobody, Ending DEF Loops

LEMMA StayingEmpty ==
  ASSUME Loops, UNCHANGED loop
  PROVE  Went({})
<1>1. Added({}) /\ UNCHANGED <<phase, gathered>>
  BY StayingOn DEF Loops, loop
<1>2. Wakers({}) = {}
  BY DEF Wakers
<1> QED BY <1>1, <1>2 DEF Went

\* The recorder's worker, by the item it takes and by who awaits the answer.
LEMMA WorkerEffects ==
  ASSUME Loops
  PROVE  /\ WorkerWrites => Went({})
         /\ WorkerFinalizes => \/ Awaits("listener", "finalize") /\ Went({"listener"}) /\ UNCHANGED <<at, cancelled>>
                               \/ ~Awaits("listener", "finalize") /\ Finished("worker", "error", {})
         /\ WorkerStops => \/ Awaits("shutdown", "answer") /\ Finished("worker", "ok", {"shutdown"})
                           \/ ~Awaits("shutdown", "answer") /\ Finished("worker", "error", {})
         /\ WorkerWaits => Returned(Wake("worker"), {})
<1>1. ASSUME WorkerWrites PROVE Went({})
  BY <1>1, StayingEmpty DEF WorkerWrites
<1>2. ASSUME WorkerFinalizes, Awaits("listener", "finalize")
      PROVE  Went({"listener"}) /\ UNCHANGED <<at, cancelled>>
  <2>1. GoesOn(Wakes({"listener"})) /\ UNCHANGED <<at, cancelled>>
    BY <1>2 DEF WorkerFinalizes
  <2> QED BY <2>1, TaskNames, WokenTasks, GoingOn DEF Loops
<1>3. ASSUME WorkerFinalizes, ~Awaits("listener", "finalize")
      PROVE  Finished("worker", "error", {})
  <2>1. Ends("worker", "error", <<>>) /\ Runs(Wake("worker"))
    BY <1>3 DEF WorkerFinalizes, Resumed
  <2> QED BY <2>1, TaskNames, RunsOnce, EndingEmpty
<1>4. ASSUME WorkerStops, Awaits("shutdown", "answer")
      PROVE  Finished("worker", "ok", {"shutdown"})
  <2>1. Ends("worker", "ok", Wakes({"shutdown"})) /\ Runs(Wake("worker"))
    BY <1>4 DEF WorkerStops, Resumed
  <2>2. Alive("worker")
    BY <2>1, TaskNames, RunsOnce
  <2> QED BY <2>1, <2>2, TaskNames, WokenTasks, Ending DEF Loops
<1>5. ASSUME WorkerStops, ~Awaits("shutdown", "answer")
      PROVE  Finished("worker", "error", {})
  <2>1. Ends("worker", "error", <<>>) /\ Runs(Wake("worker"))
    BY <1>5 DEF WorkerStops, Resumed
  <2> QED BY <2>1, TaskNames, RunsOnce, EndingEmpty
<1>6. ASSUME WorkerWaits PROVE Returned(Wake("worker"), {})
  BY <1>6, ReturningEmpty DEF WorkerWaits, Resumed
<1> QED BY <1>1, <1>2, <1>3, <1>4, <1>5, <1>6

\* The sampler wakes the worker for its sample and ends when the event is set.
LEMMA SamplerEffects ==
  ASSUME Loops, SamplerSamples
  PROVE  \E known \in BOOLEAN :
           LET tasks == IF known THEN IfAlive("worker") ELSE {}
           IN  /\ items' = IF known THEN Put(items, "data") ELSE items
               /\ \/ event /\ Finished("sampler", "ok", tasks)
                  \/ ~event /\ Returned(Wake("sampler"), tasks) /\ UNCHANGED <<at, cancelled>>
<1>1. PICK known \in BOOLEAN :
        /\ items' = IF known THEN Put(items, "data") ELSE items
        /\ IF event THEN Ends("sampler", "ok", IF known THEN WorkerWake ELSE <<>>)
                    ELSE Yields(IF known THEN WorkerWake ELSE <<>>) /\ UNCHANGED <<at, cancelled>>
  BY DEF SamplerSamples
<1> DEFINE wakes == IF known THEN WorkerWake ELSE <<>>
           tasks == IF known THEN IfAlive("worker") ELSE {}
<1>2. Runs(Wake("sampler")) /\ Alive("sampler")
  BY TaskNames, RunsOnce DEF SamplerSamples, Resumed
<1>3. Woken(wakes, tasks) /\ tasks \in SUBSET (Task \ {"sampler"})
  BY TaskNames, WokenWorker, WokenNobody DEF IfAlive
<1>4. \A t \in tasks : Wake("sampler") # Wake(t)
  BY <1>3, CallbacksDiffer
<1> HIDE DEF wakes, tasks
<1>5. event => Finished("sampler", "ok", tasks)
  BY <1>1, <1>2, <1>3, TaskNames, Ending DEF Loops, wakes
<1>6. ~event => Returned(Wake("sampler"), tasks) /\ UNCHANGED <<at, cancelled>>
  BY <1>1, <1>2, <1>3, <1>4, ComingBack DEF Loops, wakes
<1> QED BY <1>1, <1>5, <1>6 DEF tasks

\* What a packet wakes: the worker, and the receiver it has a message for.
LEMMA RecordingEffects ==
  ASSUME Loops, Runs(Wake("listener"))
  PROVE  /\ Yields(WorkerWake) => Returned(Wake("listener"), IfAlive("worker"))
         /\ \A r \in Receivers :
              Yields(WorkerWake \o IF at[r] = "get" THEN Wakes({r}) ELSE <<>>) =>
                Returned(Wake("listener"), IfAlive("worker") \cup IF at[r] = "get" THEN {r} ELSE {})
<1>1. \A t \in IfAlive("worker") : t = "worker"
  BY DEF IfAlive
<1>2. Wake("listener") # Wake("worker")
  BY CallbacksDiffer
<1>3. Woken(WorkerWake, IfAlive("worker")) /\ IfAlive("worker") \in SUBSET Task
  BY WokenWorker
<1>4. ASSUME Yields(WorkerWake) PROVE Returned(Wake("listener"), IfAlive("worker"))
  BY <1>1, <1>2, <1>3, <1>4, ComingBack DEF Loops
<1>5. ASSUME NEW r \in Receivers, Yields(WorkerWake \o IF at[r] = "get" THEN Wakes({r}) ELSE <<>>)
      PROVE  Returned(Wake("listener"), IfAlive("worker") \cup IF at[r] = "get" THEN {r} ELSE {})
  <2>1. r \in Task /\ r # "worker" /\ r # "listener"
    BY TaskNames
  <2> DEFINE B == IF at[r] = "get" THEN {r} ELSE {}
             s == WorkerWake \o Wakes(B)
  <2>2. WorkerWake = Wakes(IfAlive("worker"))
    BY WakesNobody DEF WorkerWake, IfAlive
  <2>3. Yields(s)
    BY <1>5, WakesNobody
  <2>4. B \in SUBSET Task /\ IfAlive("worker") \cap B = {}
    BY <1>1, <2>1
  <2>5. Woken(s, IfAlive("worker") \cup B)
    BY <1>3, <2>2, <2>4, WakesBoth DEF Woken
  <2>6. \A t \in IfAlive("worker") \cup B : Wake("listener") # Wake(t)
    BY <1>1, <2>1, CallbacksDiffer
  <2> HIDE DEF B, s
  <2>7. Returned(Wake("listener"), IfAlive("worker") \cup B)
    BY <1>3, <2>3, <2>4, <2>5, <2>6, ComingBack DEF Loops
  <2> QED BY <2>7 DEF B
<1> QED BY <1>4, <1>5

\* The listener suspends again, or ends when it is cancelled.
LEMMA ListenerEffects ==
  ASSUME Loops
  PROVE  /\ PlainPacket \/ SessionStart \/ Classification => Returned(Wake("listener"), IfAlive("worker"))
         /\ \A r \in Receivers : PacketOfReceiver(r) =>
              Returned(Wake("listener"), IfAlive("worker") \cup IF at[r] = "get" THEN {r} ELSE {})
         /\ Finalized => Returned(Wake("listener"), {})
         /\ ListenerCancelled => Finished("listener", "ok", {})
<1>1. ASSUME PlainPacket \/ SessionStart \/ Classification
      PROVE  Returned(Wake("listener"), IfAlive("worker"))
  <2>1. Runs(Wake("listener")) /\ Yields(WorkerWake)
    BY <1>1 DEF PlainPacket, SessionStart, Classification, ListenerRecords, Resumed
  <2> QED BY <2>1, RecordingEffects
<1>2. ASSUME NEW r \in Receivers, PacketOfReceiver(r)
      PROVE  Returned(Wake("listener"), IfAlive("worker") \cup IF at[r] = "get" THEN {r} ELSE {})
  <2>1. Runs(Wake("listener")) /\ Yields(WorkerWake \o IF at[r] = "get" THEN Wakes({r}) ELSE <<>>)
    BY <1>2 DEF PacketOfReceiver, ListenerRecords, Resumed
  <2> QED BY <2>1, RecordingEffects
<1>3. ASSUME Finalized PROVE Returned(Wake("listener"), {})
  BY <1>3, ReturningEmpty DEF Finalized, Resumed
<1>4. ASSUME ListenerCancelled PROVE Finished("listener", "ok", {})
  <2>1. Ends("listener", "ok", <<>>) /\ Runs(Wake("listener"))
    BY <1>4 DEF ListenerCancelled
  <2> QED BY <2>1, TaskNames, RunsOnce, EndingEmpty
<1> QED BY <1>1, <1>2, <1>3, <1>4

\* A receiver ends when it finds the event set.
LEMMA ReceiverEffects ==
  ASSUME Loops, NEW r \in Receivers
  PROVE  /\ ReceiverTakes(r) => Returned(Wake(r), {})
         /\ ReceiverLoops(r) /\ event => Finished(r, "ok", {})
         /\ ReceiverLoops(r) /\ ~event => Returned(Wake(r), {})
<1>1. ASSUME ReceiverTakes(r) PROVE Returned(Wake(r), {})
  BY <1>1, ReturningEmpty DEF ReceiverTakes, Resumed
<1>2. ASSUME ReceiverLoops(r), event PROVE Finished(r, "ok", {})
  <2>1. Ends(r, "ok", <<>>) /\ Runs(Wake(r))
    BY <1>2 DEF ReceiverLoops
  <2>2. r \in Task /\ r # "shutdown"
    BY TaskNames
  <2> QED BY <2>1, <2>2, RunsOnce, EndingEmpty
<1>3. ASSUME ReceiverLoops(r), ~event PROVE Returned(Wake(r), {})
  BY <1>3, ReturningEmpty DEF ReceiverLoops
<1> QED BY <1>1, <1>2, <1>3

\* The web server may be refused, fail or end.
LEMMA WebEffects ==
  ASSUME Loops
  PROVE  /\ WebStarts => \/ /\ Returned(Wake("web"), {}) /\ at' = [at EXCEPT !["web"] = "serving"]
                            /\ UNCHANGED cancelled
                         \/ Finished("web", "refused", {})
         /\ WebEnds => Finished("web", "ok", {}) \/ Finished("web", "error", {})
<1>1. ASSUME Runs(Wake("web")), NEW outcome, Ends("web", outcome, <<>>)
      PROVE  Finished("web", outcome, {})
  BY <1>1, TaskNames, RunsOnce, EndingEmpty
<1>2. ASSUME WebStarts
      PROVE  \/ /\ Returned(Wake("web"), {}) /\ at' = [at EXCEPT !["web"] = "serving"]
                /\ UNCHANGED cancelled
             \/ Finished("web", "refused", {})
  BY <1>1, <1>2, ReturningEmpty DEF WebStarts, Resumed
<1>3. ASSUME WebEnds PROVE Finished("web", "ok", {}) \/ Finished("web", "error", {})
  BY <1>1, <1>3 DEF WebEnds, Resumed
<1> QED BY <1>2, <1>3

\* A cancelled task ends.
LEMMA CancelledEffects ==
  ASSUME Loops, NEW t \in Task, Cancelled(t)
  PROVE  Finished(t, "cancelled", {}) /\ Alive(t)
<1>1. Runs(Wake(t)) /\ t \in cancelled /\ Ends(t, "cancelled", <<>>)
  BY DEF Cancelled
<1>2. Alive(t)
  BY <1>1 DEF Loops, EndedInv
<1> QED BY <1>1, <1>2, EndingEmpty

\* The shutdown task runs at a point where it is alive.
LEMMA ShutdownEffects ==
  ASSUME Loops
  PROVE  /\ ShutdownReceives => Went({r \in Receivers : at[r] = "get"})
         /\ StopsWeb => \/ at["web"] = "refused" /\ Moves("stop handler") /\ Went({})
                        \/ at["web"] # "refused" /\ Moves("web") /\ Returned(Wake("shutdown"), {})
         /\ StopsHandler => /\ cancelled' = cancelled \cup IfAlive("listener")
                            /\ \/ save = "running" /\ Moves("save") /\ Returned(Wake("shutdown"), IfAlive("listener"))
                               \/ save # "running" /\ Moves("stop service") /\ Went(IfAlive("listener"))
         /\ StopsService => \/ /\ Alive("sampler") /\ cancelled' = cancelled \cup {"sampler"}
                               /\ Moves("sampler") /\ Returned(Wake("shutdown"), {"sampler"})
                            \/ ~Alive("sampler") /\ UNCHANGED cancelled /\ Moves("stop recorder") /\ Went({})
         /\ StopsRecorder => Returned(Wake("shutdown"), IfAlive("worker"))
         /\ ClosesPublisher => /\ Returned(Wake("shutdown"), IfAlive("publisher"))
                               /\ cancelled' = cancelled \cup IfAlive("publisher")
         /\ ShutdownResumes => Went({})
         /\ ShutdownEnds => Finished("shutdown", "ok", {})
<1>1. ASSUME ShutdownReceives PROVE Went({r \in Receivers : at[r] = "get"})
  <2> DEFINE S == {r \in Receivers : at[r] = "get"}
  <2>1. S \in SUBSET Task /\ GoesOn(Wakes(S))
    BY <1>1, TaskNames DEF ShutdownReceives
  <2> QED BY <2>1, WokenTasks, GoingOn DEF Loops
<1>2. ASSUME StopsWeb
      PROVE  \/ at["web"] = "refused" /\ Moves("stop handler") /\ Went({})
             \/ at["web"] # "refused" /\ Moves("web") /\ Returned(Wake("shutdown"), {})
  BY <1>2, StayingEmpty, ReturningEmpty DEF StopsWeb, ShutdownAt, Resumed
<1>3. ASSUME NEW t \in Task, t # "shutdown"
      PROVE  Woken(Wakes({t}), {t}) /\ Wake("shutdown") # Wake(t)
  BY <1>3, WokenTasks, CallbacksDiffer
<1>4. ASSUME StopsHandler
      PROVE  /\ cancelled' = cancelled \cup IfAlive("listener")
             /\ \/ save = "running" /\ Moves("save") /\ Returned(Wake("shutdown"), IfAlive("listener"))
                \/ save # "running" /\ Moves("stop service") /\ Went(IfAlive("listener"))
  <2> DEFINE wakes == IF Alive("listener") THEN Wakes({"listener"}) ELSE <<>>
  <2>1. /\ cancelled' = cancelled \cup IfAlive("listener") /\ Runs(Wake("shutdown"))
        /\ IF save = "running" THEN Moves("save") /\ Yields(wakes)
                               ELSE Moves("stop service") /\ GoesOn(wakes)
    BY <1>4 DEF StopsHandler, IfAlive, ShutdownAt, Resumed
  <2>2. /\ Woken(wakes, IfAlive("listener")) /\ IfAlive("listener") \in SUBSET Task
        /\ \A t \in IfAlive("listener") : Wake("shutdown") # Wake(t)
    BY <1>3, TaskNames, WokenNobody DEF IfAlive
  <2> HIDE DEF wakes
  <2> QED BY <2>1, <2>2, ComingBack, GoingOn DEF Loops
<1>5. ASSUME StopsService
      PROVE  \/ /\ Alive("sampler") /\ cancelled' = cancelled \cup {"sampler"}
                /\ Moves("sampler") /\ Returned(Wake("shutdown"), {"sampler"})
             \/ ~Alive("sampler") /\ UNCHANGED cancelled /\ Moves("stop recorder") /\ Went({})
  <2>1. CASE Alive("sampler")
    <3>1. /\ Yields(Wakes({"sampler"})) /\ Runs(Wake("shutdown"))
          /\ cancelled' = cancelled \cup {"sampler"} /\ Moves("sampler")
      BY <1>5, <2>1 DEF StopsService, ShutdownAt, Resumed
    <3>2. Woken(Wakes({"sampler"}), {"sampler"}) /\ {"sampler"} \in SUBSET Task
          /\ \A t \in {"sampler"} : Wake("shutdown") # Wake(t)
      BY <1>3, TaskNames
    <3> QED BY <2>1, <3>1, <3>2, ComingBack DEF Loops
  <2>2. CASE ~Alive("sampler")
    BY <1>5, <2>2, StayingEmpty DEF StopsService
  <2> QED BY <2>1, <2>2
<1>6. ASSUME StopsRecorder PROVE Returned(Wake("shutdown"), IfAlive("worker"))
  <2>1. Yields(WorkerWake) /\ Runs(Wake("shutdown"))
    BY <1>6 DEF StopsRecorder, ShutdownAt, Resumed
  <2>2. \A t \in IfAlive("worker") : Wake("shutdown") # Wake(t)
    BY CallbacksDiffer DEF IfAlive
  <2> QED BY <2>1, <2>2, WokenWorker, ComingBack DEF Loops
<1>7. ASSUME ClosesPublisher
      PROVE  /\ Returned(Wake("shutdown"), IfAlive("publisher"))
             /\ cancelled' = cancelled \cup IfAlive("publisher")
  <2> DEFINE wakes == IF Alive("publisher") THEN Wakes({"publisher"}) ELSE <<>>
  <2>1. /\ cancelled' = cancelled \cup IfAlive("publisher") /\ Runs(Wake("shutdown")) /\ Yields(wakes)
    BY <1>7 DEF ClosesPublisher, IfAlive, ShutdownAt, Resumed
  <2>2. /\ Woken(wakes, IfAlive("publisher")) /\ IfAlive("publisher") \in SUBSET Task
        /\ \A t \in IfAlive("publisher") : Wake("shutdown") # Wake(t)
    BY <1>3, TaskNames, WokenNobody DEF IfAlive
  <2> HIDE DEF wakes
  <2> QED BY <2>1, <2>2, ComingBack DEF Loops
<1>8. ASSUME ShutdownResumes PROVE Went({})
  BY <1>8, StayingEmpty DEF ShutdownResumes
<1>9. ASSUME ShutdownEnds PROVE Finished("shutdown", "ok", {})
  <2>1. Ends("shutdown", "ok", <<>>) /\ Runs(Wake("shutdown")) /\ Alive("shutdown")
    BY <1>9 DEF ShutdownEnds, ShutdownAt, Resumed, Alive, Ended
  <2> QED BY <2>1, TaskNames, EndingEmpty
<1> QED BY <1>1, <1>2, <1>4, <1>5, <1>6, <1>7, <1>8, <1>9

\* The sampler's end wakes the shutdown.
LEMMA JoinedEffects ==
  ASSUME Loops, Joined
  PROVE  Returned(SamplerJoined, {"shutdown"})
<1>1. Runs(SamplerJoined) /\ Yields(Wakes({"shutdown"}))
  BY DEF Joined
<1>2. Woken(Wakes({"shutdown"}), {"shutdown"}) /\ {"shutdown"} \in SUBSET Task
      /\ \A t \in {"shutdown"} : SamplerJoined # Wake(t)
  BY TaskNames, WokenTasks, CallbacksDiffer
<1> QED BY <1>1, <1>2, ComingBack DEF Loops

\* The gather wakes the main task for its first bad outcome.
LEMMA GatherEffects ==
  ASSUME Loops, GatherInv, NEW t \in Task, GatherLearns(t)
  PROVE  Replaced(ChildDone(t), IF gathered = "none" /\ at[t] # "ok" THEN {Wake("main")} ELSE {})
<1>1. /\ Runs(ChildDone(t)) /\ left' = left - 1
      /\ ready' = Tail(ready) \o IF gathered = "none" /\ at[t] # "ok" THEN <<Wake("main")>> ELSE <<>>
  BY DEF GatherLearns
<1>2. CASE gathered = "none" /\ at[t] # "ok"
  <2>1. Queue(<<Wake("main")>>) /\ Of(<<Wake("main")>>) = {Wake("main")} /\ Wake("main") \notin Pending
    BY <1>2, OneCallback, CallbackTypes DEF GatherInv
  <2>2. ready' = Tail(ready) \o <<Wake("main")>>
    BY <1>1, <1>2
  <2>3. Replaced(ChildDone(t), Of(<<Wake("main")>>))
    BY <1>1, <2>1, <2>2, Returning DEF Loops
  <2> QED BY <1>2, <2>1, <2>3
<1>3. CASE ~(gathered = "none" /\ at[t] # "ok")
  <2>1. ready' = Tail(ready) \o <<>>
    BY <1>1, <1>3
  <2>2. Replaced(ChildDone(t), Of(<<>>))
    BY <1>1, <2>1, EmptyQueue, Returning DEF Loops
  <2> QED BY <1>3, <2>2, EmptyQueue
<1> QED BY <1>2, <1>3

\* The main task stops the loop, or leaves it at once.
LEMMA MainEffects ==
  ASSUME Loops, GatherInv, MainEnds
  PROVE  \/ gathered # "refused" /\ Replaced(Wake("main"), {StopLoop}) /\ UNCHANGED phase
         \/ /\ gathered = "refused" /\ phase' = "stopping" /\ left' = 0 /\ QueueInv'
            /\ \A c : c \in Pending' <=> c \in Pending /\ c # Wake("main")
            /\ Current' = {}
<1>1. Runs(Wake("main")) /\ Wake("main") \in Pending /\ ready # <<>> /\ Head(ready) = Wake("main")
  BY Running DEF MainEnds, Loops
<1>2. CASE gathered # "refused"
  <2>1. ready' = Append(Tail(ready), StopLoop) /\ left' = left - 1 /\ UNCHANGED phase
    BY <1>2 DEF MainEnds
  <2>2. Queue(Tail(ready))
    BY <1>1, TailOfQueue DEF Loops, QueueInv
  <2>3. ready' = Tail(ready) \o <<StopLoop>>
    BY <2>1, <2>2, CallbackTypes, AppendIsConcat DEF Queue
  <2>4. Queue(<<StopLoop>>) /\ Of(<<StopLoop>>) = {StopLoop} /\ StopLoop \notin Pending
    BY <1>1, OneCallback, CallbackTypes DEF GatherInv
  <2>5. Replaced(Wake("main"), Of(<<StopLoop>>))
    BY <1>1, <2>1, <2>3, <2>4, Returning DEF Loops
  <2> QED BY <1>2, <2>1, <2>4, <2>5
<1>3. CASE gathered = "refused"
  <2>1. ready' = Tail(ready) /\ left' = 0 /\ phase' = "stopping"
    BY <1>3 DEF MainEnds
  <2>2. Queue(ready') /\ Of(ready') = Of(ready) \ {Wake("main")}
    BY <1>1, <2>1, TailOfQueue DEF Loops, QueueInv
  <2>3. QueueInv'
    BY <2>1, <2>2 DEF QueueInv, Queue
  <2>4. Current' = {}
    BY <2>1 DEF Current
  <2> QED BY <1>3, <2>1, <2>2, <2>3, <2>4 DEF Pending
<1> QED BY <1>2, <1>3

\* The loop stops.
LEMMA StopEffects ==
  ASSUME Loops, Stops
  PROVE  Replaced(StopLoop, {})
<1>1. Runs(StopLoop) /\ left' = left - 1 /\ ready' = Tail(ready)
  BY DEF Stops
<1>2. Queue(Tail(ready)) /\ Tail(ready) \o <<>> = Tail(ready)
  BY <1>1, Running, TailOfQueue, ConcatEmptySeq DEF Loops, QueueInv, Queue
<1>3. Replaced(StopLoop, Of(<<>>))
  BY <1>1, <1>2, EmptyQueue, Returning DEF Loops
<1> QED BY <1>3, EmptyQueue

\* Cancelling all wakes tasks that have not ended.
LEMMA CancellingEffects ==
  ASSUME Loops, CancelsAll
  PROVE  \E woken \in SUBSET {t \in Task : Alive(t)} : Added(Wakers(woken))
<1> DEFINE alive == {t \in Task : Alive(t)}
           woken == {t \in alive : ~Scheduled(t) /\ at[t] # "sampler"}
           B == woken \cap {"shutdown"}
<1>1. PICK first \in SUBSET (woken \ {"shutdown"}) :
        ready' = ready \o Wakes(first) \o Wakes(B) \o Wakes(woken \ (first \cup {"shutdown"}))
  BY DEF CancelsAll
<1> DEFINE C == woken \ (first \cup {"shutdown"})
<1>2. /\ first \in SUBSET Task /\ B \in SUBSET Task /\ C \in SUBSET Task
      /\ first \cap B = {} /\ (first \cup B) \cap C = {} /\ first \cup B \cup C = woken
      /\ woken \in SUBSET Task /\ woken \in SUBSET alive
  OBVIOUS
<1>3. ready' = ready \o Wakes(first) \o Wakes(B) \o Wakes(C) /\ left' = left
  BY <1>1 DEF CancelsAll
<1> HIDE DEF woken, B, C
<1> DEFINE ab == Wakes(first) \o Wakes(B)
           s == ab \o Wakes(C)
<1>4. /\ Queue(ab) /\ \A c : c \in Of(ab) <=> c \notin Pending /\ \E t \in first \cup B : c = Wake(t)
      /\ Queue(Wakes(first)) /\ Queue(Wakes(B)) /\ Queue(Wakes(C))
      /\ \A c : c \in Of(Wakes(C)) <=> c \notin Pending /\ \E t \in C : c = Wake(t)
  BY <1>2, WakesBoth, WakesOnce
<1>5. ready' = ready \o s
  <2>0. /\ ready \in Seq(Callbacks) /\ ab \in Seq(Callbacks) /\ Wakes(C) \in Seq(Callbacks)
        /\ Wakes(first) \in Seq(Callbacks) /\ Wakes(B) \in Seq(Callbacks)
    BY <1>4 DEF Loops, QueueInv, Queue
  <2>1. ready \o Wakes(first) \o Wakes(B) = ready \o ab
    BY <2>0, ConcatAssociative
  <2> HIDE DEF ab
  <2>2. (ready \o ab) \o Wakes(C) = ready \o (ab \o Wakes(C))
    BY <2>0, ConcatAssociative
  <2> QED BY <1>3, <2>1, <2>2
<1> HIDE DEF ab
<1>6. Of(ab) \cap Of(Wakes(C)) = {}
  BY <1>2, <1>4, CallbacksDiffer
<1>7. Queue(s) /\ Of(s) = Of(ab) \cup Of(Wakes(C))
  BY <1>4, <1>6, TwoQueues
<1> HIDE DEF s
<1>8. Added(Of(s))
  BY <1>3, <1>4, <1>5, <1>7, Scheduling DEF Loops
<1>9. \A c : (c \in Pending \/ c \in Of(s)) <=> (c \in Pending \/ c \in Wakers(woken))
  BY <1>2, <1>4, <1>7 DEF Wakers
<1>10. Added(Wakers(woken))
  BY <1>8, <1>9 DEF Added
<1> QED BY <1>2, <1>10

\* An iteration runs all that is scheduled.
LEMMA IteratingEffects ==
  ASSUME Loops, Iterates
  PROVE  /\ QueueInv' /\ Current = {}
         /\ \A c : c \in Pending' <=> c \in Pending
         /\ \A c : c \in Current' <=> c \in Pending
<1>1. ready' = ready /\ left' = Len(ready) /\ left = 0 /\ ready \in Seq(Callbacks)
  BY DEF Iterates, Polling, Loops, QueueInv, Queue
<1>2. Queue(ready')
  BY <1>1 DEF Loops, QueueInv
<1>3. QueueInv'
  BY <1>1, <1>2 DEF QueueInv
<1>4. Current = {}
  BY <1>1 DEF Current
<1>5. DOMAIN ready = 1..left'
  BY <1>1
<1>6. Pending' = Pending /\ Current' = Pending
  BY <1>1, <1>5 DEF Pending, Current, Of
<1> QED BY <1>3, <1>4, <1>6

\* Waking a task from outside, one that is not scheduled.
LEMMA HappeningEffects ==
  ASSUME Loops, NEW t \in Task, Happens(t)
  PROVE  Added({Wake(t)}) /\ Current = {} /\ Current' = {}
<1>1. ready' = Append(ready, Wake(t)) /\ left' = left /\ left = 0 /\ Wake(t) \notin Pending
  BY DEF Happens, Polling, Scheduled, Pending, Of
<1>2. Queue(<<Wake(t)>>) /\ Of(<<Wake(t)>>) = {Wake(t)}
  BY OneCallback, CallbackTypes
<1>3. ready' = ready \o <<Wake(t)>>
  BY <1>1, CallbackTypes, AppendIsConcat DEF Loops, QueueInv, Queue
<1>4. Added(Of(<<Wake(t)>>))
  BY <1>1, <1>2, <1>3, Scheduling DEF Loops
<1>5. Current = {} /\ Current' = {}
  BY <1>1 DEF Current
<1> QED BY <1>2, <1>4, <1>5

-----------------------------------------------------------------------------
\* The tasks that are woken have not ended; a task that moves has not ended.
Fine(tasks) == \A t \in tasks : t \in Task /\ (Alive(t) \/ t = "shutdown")
Moved(t) == at' = at \/ (Alive(t) /\ \E p \in Points \ Ended : at' = [at EXCEPT ![t] = p])
NobodyElse == \A t \in cancelled' : t \in cancelled \/ (t \in Task /\ Alive(t))

\* No task but t moves, and no receiver is woken.
Quiet(t) ==
    /\ \A u \in Task : u # t => at'[u] = at[u]
    /\ \A r \in Receivers : /\ Wake(r) \in Pending' => Wake(r) \in Pending
                            /\ r \notin cancelled' => r \notin cancelled

\* A task that moves on: who is alive stays alive, who failed has failed.
LEMMA MovedKeeps ==
  ASSUME Core, NEW t \in Task, Moved(t)
  PROVE  /\ \A u \in Task : Alive(u)' <=> Alive(u)
         /\ Failed => Failed'
         /\ at' \in [Task -> Points] /\ \A u \in Task : u # t => at'[u] = at[u]
<1>1. /\ at' \in [Task -> Points] /\ \A u \in Task : u # t => at'[u] = at[u]
      /\ at'[t] = at[t] \/ (Alive(t) /\ at'[t] \notin Ended)
  BY DEF Moved, Core
<1>2. \A u \in Task : Alive(u)' <=> Alive(u)
  BY <1>1 DEF Alive
<1>3. \A u \in Task : at[u] \in {"error", "refused"} => at'[u] = at[u]
  BY <1>1 DEF Alive, Ended
<1> QED BY <1>1, <1>2, <1>3 DEF Failed

\* The loop's invariants over a step of a task that does not end.
LEMMA StepKeeps ==
  ASSUME Core, NEW tasks, Fine(tasks), Went(tasks) \/ \E c : Returned(c, tasks),
         NEW t \in Task, Moved(t), NobodyElse
  PROVE  /\ Core'
         /\ (\A u \in tasks : u \notin Receivers) /\ (\A r \in Receivers : r \notin cancelled' => r \notin cancelled)
              => Quiet(t)
<1>1. /\ QueueInv' /\ phase' = phase /\ gathered' = gathered
      /\ \A d \in Pending' : d \in Pending \/ \E u \in tasks : d = Wake(u)
  BY DEF Went, Returned, Added, Replaced, Wakers
<1>2. /\ \A u \in Task : Alive(u)' <=> Alive(u)
      /\ Failed => Failed'
      /\ at' \in [Task -> Points] /\ \A u \in Task : u # t => at'[u] = at[u]
  BY MovedKeeps
<1>3. /\ \A u \in Task : ChildDone(u) \in Pending' => ChildDone(u) \in Pending
      /\ SamplerJoined \in Pending' => SamplerJoined \in Pending
      /\ StopLoop \in Pending' => StopLoop \in Pending
  BY <1>1, CallbacksDiffer
<1>4. Wake("main") \in Pending' => Wake("main") \in Pending
  BY <1>1, CallbacksDiffer, TaskNames DEF Fine
<1>5. \A u \in Task \ {"shutdown"} : Wake(u) \in Pending' => Alive(u)
  BY <1>1, CallbacksDiffer DEF Fine, EndedInv, Core
<1>6. cancelled \subseteq Task /\ cancelled' \subseteq Task /\ "sampler" \in Task
  BY TaskNames DEF Core, NobodyElse
<1>7. EndedInv'
  BY <1>2, <1>3, <1>5, <1>6 DEF EndedInv, NobodyElse, Core
<1>8. GatherInv'
  BY <1>1, <1>2, <1>3, <1>4 DEF GatherInv, Core
<1>9. ASSUME \A u \in tasks : u \notin Receivers
      PROVE  \A r \in Receivers : Wake(r) \in Pending' => Wake(r) \in Pending
  BY <1>1, <1>9, CallbacksDiffer
<1> QED BY <1>1, <1>2, <1>6, <1>7, <1>8, <1>9 DEF Core, Quiet

\* The loop's invariants over the end of a task.
LEMMA EndKeeps ==
  ASSUME Core, NEW tasks, Fine(tasks), NEW t \in Task, Alive(t), t \notin tasks,
         NEW outcome \in Ended, Finished(t, outcome, tasks)
  PROVE  /\ Core'
         /\ at'[t] = outcome /\ \A u \in Task : u # t => at'[u] = at[u]
         /\ (\A u \in tasks : u \notin Receivers) /\ t \notin Receivers => Quiet(t)
<1>1. /\ QueueInv' /\ phase' = phase /\ gathered' = gathered
      /\ at' = [at EXCEPT ![t] = outcome] /\ cancelled' = cancelled \ {t}
      /\ \A d \in Pending' : \/ d \in Pending /\ d # Wake(t)
                             \/ \E u \in tasks : d = Wake(u)
                             \/ d = ChildDone(t)
                             \/ t = "sampler" /\ d = SamplerJoined
  BY DEF Finished, Replaced, Wakers
<1>2. at'[t] = outcome /\ (\A u \in Task : u # t => at'[u] = at[u]) /\ at' \in [Task -> Points]
  BY <1>1 DEF Core, Points
<1>3. /\ ~Alive(t)' /\ \A u \in Task : u # t => (Alive(u)' <=> Alive(u))
      /\ Failed => Failed'
  <2>1. ~Alive(t)' /\ \A u \in Task : u # t => (Alive(u)' <=> Alive(u))
    BY <1>2 DEF Alive
  <2>2. \A u \in Task : at[u] \in {"error", "refused"} => at'[u] = at[u]
    BY <1>2 DEF Alive, Ended
  <2> QED BY <2>1, <2>2 DEF Failed
<1>4. /\ \A u \in Task : ChildDone(u) \in Pending' => ChildDone(u) \in Pending \/ u = t
      /\ SamplerJoined \in Pending' => SamplerJoined \in Pending \/ t = "sampler"
      /\ StopLoop \in Pending' => StopLoop \in Pending
  BY <1>1, CallbacksDiffer
<1>5. Wake("main") \in Pending' => Wake("main") \in Pending
  BY <1>1, CallbacksDiffer, TaskNames DEF Fine
<1>6. \A u \in Task \ {"shutdown"} : Wake(u) \in Pending' => Alive(u) /\ u # t
  BY <1>1, CallbacksDiffer DEF Fine, EndedInv, Core
<1>7. cancelled \subseteq Task /\ cancelled' \subseteq Task /\ "sampler" \in Task
  BY <1>1, TaskNames DEF Core
<1>8. EndedInv'
  BY <1>1, <1>3, <1>4, <1>6, <1>7 DEF EndedInv, Core
<1>9. GatherInv'
  BY <1>1, <1>3, <1>4, <1>5 DEF GatherInv, Core
<1>10. ASSUME \A u \in tasks : u \notin Receivers
       PROVE  \A r \in Receivers : Wake(r) \in Pending' => Wake(r) \in Pending
  BY <1>1, <1>10, CallbacksDiffer
<1>11. t \notin Receivers => \A r \in Receivers : r \notin cancelled' => r \notin cancelled
  BY <1>1
<1> QED BY <1>1, <1>2, <1>7, <1>8, <1>9, <1>10, <1>11 DEF Core, Quiet

\* What putting and taking an item leave of the recorder's queue.
LEMMA PutItems ==
  ASSUME NEW q \in Seq(Item), NEW item \in Item, Len(q) <= MaxItems + 1
  PROVE  /\ Put(q, item) \in Seq(Item) /\ Len(Put(q, item)) <= MaxItems + 1
         /\ Len(q) <= MaxItems => Len(Put(q, item)) <= MaxItems
BY ConstantsAssumption DEF Put

LEMMA TakeItems ==
  ASSUME NEW q \in Seq(Item), q # <<>>
  PROVE  Tail(q) \in Seq(Item) /\ Len(Tail(q)) <= Len(q)
OBVIOUS

\* A receiver that is woken by nothing new, and whose mail is left alone, has its message.
LEMMA MailKept ==
  ASSUME MailInv, mail' = mail, NEW t \in Task, t \notin Receivers, Quiet(t),
         at'["shutdown"] = "receive" => at["shutdown"] = "receive"
  PROVE  MailInv'
<1>1. \A r \in Receivers : at'[r] = at[r]
  BY TaskNames DEF Quiet
<1> QED BY <1>1 DEF MailInv, Quiet

\* What holds whatever fails includes the types.
LEMMA GeneralIsTyped ==
  ASSUME General
  PROVE  TypeOK
BY DEF General, Core, ItemsInv, MailInv, FlagsOK, TypeOK, Points, Item, Mails, QueueInv, Queue

-----------------------------------------------------------------------------
\* The worker keeps it.
LEMMA GeneralWorker ==
  ASSUME General, WorkerWrites \/ WorkerFinalizes \/ WorkerStops \/ WorkerWaits
  PROVE  General'
<1>0. Core /\ Loops /\ ItemsInv /\ MailInv /\ FlagsOK
  BY DEF General, Core, Loops
<1>1. /\ Alive("worker") /\ "worker" \in Task /\ "shutdown" \in Task
      /\ "listener" \in Task /\ "worker" \notin Receivers /\ "listener" \notin Receivers
      /\ "shutdown" \notin Receivers
  BY <1>0, TaskNames, RunsOnce DEF WorkerWrites, WorkerFinalizes, WorkerStops, WorkerWaits, Resumed
<1>2. /\ UNCHANGED <<event, requested, mail, save>>
      /\ items' = items \/ (items # <<>> /\ items' = Tail(items))
      /\ open' \in BOOLEAN
  BY <1>0 DEF WorkerWrites, WorkerFinalizes, WorkerStops, WorkerWaits, signals, recorder, FlagsOK
<1>3. Fine({}) /\ "worker" \notin {}
  BY DEF Fine
<1>4. Core' /\ Quiet("worker")
  <2>1. CASE WorkerWrites
    <3>1. Went({}) /\ UNCHANGED <<at, cancelled>>
      BY <1>0, <2>1, WorkerEffects DEF WorkerWrites
    <3> QED BY <1>0, <1>1, <1>3, <3>1, StepKeeps DEF Moved, NobodyElse
  <2>2. CASE WorkerFinalizes
    <3>1. CASE Went({"listener"}) /\ UNCHANGED <<at, cancelled>> /\ Awaits("listener", "finalize")
      <4>1. Fine({"listener"})
        BY <1>1, <3>1 DEF Fine, Awaits, Alive, Ended
      <4> QED BY <1>0, <1>1, <3>1, <4>1, StepKeeps DEF Moved, NobodyElse
    <3>2. CASE Finished("worker", "error", {})
      BY <1>0, <1>1, <1>3, <3>2, EndKeeps DEF Ended
    <3> QED BY <1>0, <2>2, <3>1, <3>2, WorkerEffects
  <2>3. CASE WorkerStops
    <3>1. PICK tasks \in {{}, {"shutdown"}}, o \in {"ok", "error"} : Finished("worker", o, tasks)
      BY <1>0, <2>3, WorkerEffects
    <3>2. Fine(tasks) /\ o \in Ended /\ "worker" \notin tasks /\ \A t \in tasks : t \notin Receivers
      BY <1>1 DEF Fine, Ended
    <3> QED BY <1>0, <1>1, <3>1, <3>2, EndKeeps
  <2>4. CASE WorkerWaits
    <3>1. Returned(Wake("worker"), {}) /\ UNCHANGED <<at, cancelled>>
      BY <1>0, <2>4, WorkerEffects DEF WorkerWaits
    <3> QED BY <1>0, <1>1, <1>3, <3>1, StepKeeps DEF Moved, NobodyElse
  <2> QED BY <2>1, <2>2, <2>3, <2>4
<1>5. at'["shutdown"] = at["shutdown"]
  BY <1>1, <1>4 DEF Quiet
<1>6. ItemsInv'
  BY <1>0, <1>2, <1>5, TakeItems, ConstantsAssumption DEF ItemsInv
<1>7. MailInv'
  BY <1>0, <1>1, <1>2, <1>4, <1>5, MailKept
<1>8. FlagsOK'
  BY <1>0, <1>2 DEF FlagsOK
<1> QED BY <1>4, <1>6, <1>7, <1>8 DEF General

\* The sampler keeps it.
LEMMA GeneralSampler ==
  ASSUME General, SamplerSamples
  PROVE  General'
<1>0. Core /\ Loops /\ ItemsInv /\ MailInv /\ FlagsOK
  BY DEF General, Core, Loops
<1>1. /\ Alive("sampler") /\ "sampler" \in Task /\ "shutdown" \in Task
      /\ "sampler" \notin Receivers /\ "worker" \notin Receivers /\ "worker" \in Task
  BY <1>0, TaskNames, RunsOnce DEF SamplerSamples, Resumed
<1>2. PICK known \in BOOLEAN :
        /\ items' = IF known THEN Put(items, "data") ELSE items
        /\ \/ event /\ Finished("sampler", "ok", IF known THEN IfAlive("worker") ELSE {})
           \/ /\ Returned(Wake("sampler"), IF known THEN IfAlive("worker") ELSE {})
              /\ UNCHANGED <<at, cancelled>>
  BY <1>0, SamplerEffects
<1> DEFINE tasks == IF known THEN IfAlive("worker") ELSE {}
<1>3. Fine(tasks) /\ "sampler" \notin tasks /\ \A u \in tasks : u \notin Receivers
  BY <1>1 DEF Fine, IfAlive
<1> HIDE DEF tasks
<1>4. Core' /\ Quiet("sampler")
  <2>1. CASE Finished("sampler", "ok", tasks)
    BY <1>0, <1>1, <1>3, <2>1, EndKeeps DEF Ended
  <2>2. CASE Returned(Wake("sampler"), tasks) /\ UNCHANGED <<at, cancelled>>
    BY <1>0, <1>1, <1>3, <2>2, StepKeeps DEF Moved, NobodyElse
  <2> QED BY <1>2, <2>1, <2>2 DEF tasks
<1>5. at'["shutdown"] = at["shutdown"]
  BY <1>1, <1>4 DEF Quiet
<1>6. ItemsInv'
  BY <1>0, <1>2, <1>5, PutItems DEF ItemsInv, Item
<1>7. UNCHANGED <<event, requested, mail, open, save>>
  BY DEF SamplerSamples, signals
<1>8. MailInv'
  BY <1>0, <1>1, <1>4, <1>5, <1>7, MailKept
<1>9. FlagsOK'
  BY <1>0, <1>7 DEF FlagsOK
<1> QED BY <1>4, <1>6, <1>8, <1>9 DEF General

\* The listener keeps it.
LEMMA GeneralListener ==
  ASSUME General, PlainPacket \/ SessionStart \/ Classification \/ Finalized \/ ListenerCancelled
  PROVE  General'
<1>0. Core /\ Loops /\ ItemsInv /\ MailInv /\ FlagsOK
  BY DEF General, Core, Loops
<1>1. /\ Alive("listener") /\ "listener" \in Task /\ "shutdown" \in Task
      /\ "listener" \notin Receivers /\ "worker" \notin Receivers /\ "worker" \in Task
  BY <1>0, TaskNames, RunsOnce DEF PlainPacket, SessionStart, Classification, Finalized, ListenerCancelled,
                                   ListenerRecords, Resumed
<1>2. /\ Fine({}) /\ Fine(IfAlive("worker")) /\ "listener" \notin {}
      /\ \A u \in IfAlive("worker") : u \notin Receivers
  BY <1>1 DEF Fine, IfAlive
<1>3. Core' /\ Quiet("listener")
  <2>1. CASE PlainPacket \/ SessionStart \/ Classification \/ Finalized
    <3>1. Returned(Wake("listener"), IfAlive("worker")) \/ Returned(Wake("listener"), {})
      BY <1>0, <2>1, ListenerEffects
    <3>2. cancelled' = cancelled /\ Moved("listener")
      BY <1>0, <1>1, <2>1 DEF PlainPacket, SessionStart, Classification, Finalized, ListenerRecords, Moved,
                              Points, Ended
    <3> QED BY <1>0, <1>1, <1>2, <3>1, <3>2, StepKeeps DEF NobodyElse
  <2>2. CASE ListenerCancelled
    BY <1>0, <1>1, <1>2, <2>2, ListenerEffects, EndKeeps DEF Ended
  <2> QED BY <2>1, <2>2
<1>4. at'["shutdown"] = at["shutdown"]
  BY <1>1, <1>3 DEF Quiet
<1>5. Put(items, "data") \in Seq(Item) /\ Len(Put(items, "data")) <= MaxItems + 1
      /\ (Len(items) <= MaxItems => Len(Put(items, "data")) <= MaxItems)
  BY <1>0, PutItems DEF ItemsInv, Item
<1>6. ItemsInv'
  <2>1. CASE items' = items \/ items' = Put(items, "data")
    BY <1>0, <1>4, <1>5, <2>1 DEF ItemsInv
  <2>2. CASE items' = Append(Put(items, "data"), "finalize") /\ Len(Put(items, "data")) < MaxItems
    <3> DEFINE q == Put(items, "data")
    <3> HIDE DEF q
    <3>1. q \in Seq(Item) /\ Len(q) < MaxItems /\ items' = Append(q, "finalize")
      BY <1>5, <2>2 DEF q
    <3>2. items' \in Seq(Item) /\ Len(items') = Len(q) + 1
      BY <3>1 DEF Item
    <3> QED BY <3>1, <3>2, ConstantsAssumption DEF ItemsInv
  <2> QED BY <2>1, <2>2 DEF PlainPacket, SessionStart, Classification, Finalized, ListenerCancelled,
                            ListenerRecords, recorder
<1>7. /\ UNCHANGED <<event, requested, mail, open>> /\ save' \in {save, "running"}
  BY DEF PlainPacket, SessionStart, Classification, Finalized, ListenerCancelled, ListenerRecords,
         signals, recorder
<1>8. MailInv'
  BY <1>0, <1>1, <1>3, <1>4, <1>7, MailKept
<1>9. FlagsOK'
  BY <1>0, <1>7 DEF FlagsOK
<1> QED BY <1>3, <1>6, <1>8, <1>9 DEF General

\* A packet with a message for a receiver keeps it: the receiver is woken for its message.
LEMMA GeneralMessage ==
  ASSUME General, NEW r \in Receivers, PacketOfReceiver(r)
  PROVE  General'
<1>0. Core /\ Loops /\ ItemsInv /\ MailInv /\ FlagsOK
  BY DEF General, Core, Loops
<1>1. /\ "listener" \in Task /\ "shutdown" \in Task /\ r \in Task /\ "shutdown" \notin Receivers
      /\ "worker" \notin Receivers /\ "worker" \in Task
  BY TaskNames
<1> DEFINE tasks == IfAlive("worker") \cup IF at[r] = "get" THEN {r} ELSE {}
<1>2. Fine(tasks)
  BY <1>1 DEF Fine, IfAlive, Alive, Ended
<1>3. Returned(Wake("listener"), tasks)
  BY <1>0, ListenerEffects
<1>4. \A u \in tasks : u = "worker" \/ (u = r /\ at[r] = "get")
  BY DEF IfAlive
<1> HIDE DEF tasks
<1>5. /\ UNCHANGED <<at, cancelled, event, requested, open, save>> /\ items' = Put(items, "data")
      /\ mail[r] = <<>> /\ mail' = [mail EXCEPT ![r] = <<"message">>]
  BY DEF PacketOfReceiver, ListenerRecords
<1>6. Core'
  BY <1>0, <1>1, <1>2, <1>3, <1>5, StepKeeps DEF Moved, NobodyElse
<1>7. \A u \in Receivers : Wake(u) \in Pending' => Wake(u) \in Pending \/ u = r
  BY <1>1, <1>3, <1>4, CallbacksDiffer DEF Returned, Replaced, Wakers
<1>8. mail'[r] = <<"message">> /\ (\A u \in Receivers : u # r => mail'[u] = mail[u]) /\ mail' \in [Receivers -> Mails]
  BY <1>0, <1>5 DEF MailInv, Mails
<1>9. MailInv'
  <2>1. at'["shutdown"] = "receive" => \A u \in Receivers : mail'[u] \in {<<>>, <<"message">>}
    BY <1>0, <1>5, <1>8 DEF MailInv
  <2>2. <<"message">> # <<>>
    OBVIOUS
  <2>3. \A u \in Receivers : at'[u] = "get" /\ Wake(u) \in Pending' /\ u \notin cancelled' => mail'[u] # <<>>
    BY <1>0, <1>5, <1>7, <1>8, <2>2 DEF MailInv
  <2> QED BY <1>8, <2>1, <2>3 DEF MailInv
<1>10. ItemsInv'
  BY <1>0, <1>5, PutItems DEF ItemsInv, Item
<1>11. FlagsOK'
  BY <1>0, <1>5 DEF FlagsOK
<1> QED BY <1>6, <1>9, <1>10, <1>11 DEF General

\* A receiver keeps it.
LEMMA GeneralReceiver ==
  ASSUME General, NEW r \in Receivers, ReceiverTakes(r) \/ ReceiverLoops(r)
  PROVE  General'
<1>0. Core /\ Loops /\ ItemsInv /\ MailInv /\ FlagsOK
  BY DEF General, Core, Loops
<1>1. /\ r \in Task /\ r # "shutdown" /\ "shutdown" \in Task /\ Runs(Wake(r)) /\ Alive(r)
  BY <1>0, TaskNames, RunsOnce DEF ReceiverTakes, ReceiverLoops, Resumed
<1>2. Fine({}) /\ r \notin {} /\ Wake(r) \in Pending
  BY <1>0, <1>1, Running DEF Fine, Loops
<1>3. UNCHANGED <<event, requested, items, open, save>>
  BY DEF ReceiverTakes, ReceiverLoops, recorder
<1>4. /\ Core'
      /\ \A u \in Task : u # r => at'[u] = at[u]
      /\ \A u \in Receivers : /\ Wake(u) \in Pending' => Wake(u) \in Pending /\ u # r
                              /\ u # r => (u \notin cancelled' => u \notin cancelled)
      /\ mail' \in [Receivers -> Mails] /\ \A u \in Receivers : u # r => mail'[u] = mail[u]
      /\ mail[r] \in {<<>>, <<"message">>} => mail'[r] \in {<<>>, <<"message">>}
  <2>1. CASE ReceiverTakes(r)
    <3>1. /\ Returned(Wake(r), {}) /\ cancelled' = cancelled /\ at' = [at EXCEPT ![r] = "busy"]
          /\ mail' = [mail EXCEPT ![r] = Tail(mail[r])] /\ at[r] = "get" /\ r \notin cancelled
      BY <1>0, <2>1, ReceiverEffects DEF ReceiverTakes, Resumed
    <3>2. Core' /\ \A u \in Task : u # r => at'[u] = at[u]
      <4>1. Moved(r)
        BY <1>1, <3>1 DEF Moved, Points, Ended
      <4> QED BY <1>0, <1>1, <1>2, <3>1, <4>1, StepKeeps, MovedKeeps DEF NobodyElse
    <3>3. mail[r] # <<>> /\ mail[r] \in Mails /\ Head(mail[r]) = "message"
      BY <1>0, <1>2, <2>1, <3>1 DEF MailInv, ReceiverTakes
    <3>4. Tail(mail[r]) \in Mails /\ (mail[r] = <<"message">> => Tail(mail[r]) = <<>>)
      <4>1. mail[r] = <<"message">> \/ mail[r] = <<"unblock">> \/ mail[r] = <<"message", "unblock">>
        BY <3>3 DEF Mails
      <4>2. Tail(<<"message">>) = <<>> /\ Tail(<<"message", "unblock">>) = <<"unblock">>
        OBVIOUS
      <4>3. mail[r] # <<"unblock">>
        BY <3>3
      <4>4. <<>> \in Mails /\ <<"unblock">> \in Mails
        BY DEF Mails
      <4>5. <<"message">> # <<"message", "unblock">>
        OBVIOUS
      <4>6. CASE mail[r] = <<"message">>
        BY <4>2, <4>4, <4>6
      <4>7. CASE mail[r] = <<"message", "unblock">>
        BY <4>2, <4>4, <4>5, <4>7
      <4> QED BY <4>1, <4>3, <4>6, <4>7
    <3>5. /\ mail' \in [Receivers -> Mails] /\ \A u \in Receivers : u # r => mail'[u] = mail[u]
          /\ mail'[r] = Tail(mail[r])
      BY <1>0, <3>1, <3>4 DEF MailInv
    <3>6. \A u \in Receivers : Wake(u) \in Pending' => Wake(u) \in Pending /\ u # r
      BY <3>1, CallbacksDiffer DEF Returned, Replaced, Wakers
    <3> QED BY <3>1, <3>2, <3>3, <3>4, <3>5, <3>6
  <2>2. CASE ReceiverLoops(r) /\ event
    <3>1. Finished(r, "ok", {}) /\ mail' = mail
      BY <1>0, <2>2, ReceiverEffects DEF ReceiverLoops
    <3>2. Core' /\ \A u \in Task : u # r => at'[u] = at[u]
      BY <1>0, <1>1, <1>2, <3>1, EndKeeps DEF Ended
    <3>3. \A u \in Receivers : Wake(u) \in Pending' => Wake(u) \in Pending /\ u # r
      BY <1>1, <3>1, TaskNames, CallbacksDiffer DEF Finished, Replaced, Wakers
    <3> QED BY <1>0, <3>1, <3>2, <3>3 DEF Finished, MailInv
  <2>3. CASE ReceiverLoops(r) /\ ~event
    <3>1. /\ Returned(Wake(r), {}) /\ cancelled' = cancelled \ {r}
          /\ at' = [at EXCEPT ![r] = IF mail[r] = <<>> THEN "get" ELSE "busy"]
          /\ mail' = [mail EXCEPT ![r] = <<>>]
      BY <1>0, <2>3, ReceiverEffects DEF ReceiverLoops
    <3>2. Core' /\ \A u \in Task : u # r => at'[u] = at[u]
      <4>1. Moved(r)
        BY <1>1, <3>1 DEF Moved, Points, Ended
      <4>2. NobodyElse
        BY <3>1 DEF NobodyElse
      <4> QED BY <1>0, <1>1, <1>2, <3>1, <4>1, <4>2, StepKeeps, MovedKeeps
    <3>3. /\ mail' \in [Receivers -> Mails] /\ \A u \in Receivers : u # r => mail'[u] = mail[u]
          /\ mail'[r] = <<>>
      BY <1>0, <3>1 DEF MailInv, Mails
    <3>4. \A u \in Receivers : Wake(u) \in Pending' => Wake(u) \in Pending /\ u # r
      BY <3>1, CallbacksDiffer DEF Returned, Replaced, Wakers
    <3> QED BY <3>1, <3>2, <3>3, <3>4
  <2> QED BY <2>1, <2>2, <2>3
<1>5. at'["shutdown"] = at["shutdown"] /\ \A u \in Receivers : u # r => at'[u] = at[u]
  BY <1>1, <1>4, TaskNames
<1>6. MailInv'
  <2>1. at'["shutdown"] = "receive" => \A u \in Receivers : mail'[u] \in {<<>>, <<"message">>}
    BY <1>0, <1>4, <1>5 DEF MailInv
  <2>2. \A u \in Receivers : at'[u] = "get" /\ Wake(u) \in Pending' /\ u \notin cancelled' => mail'[u] # <<>>
    BY <1>0, <1>4, <1>5 DEF MailInv
  <2> QED BY <1>4, <2>1, <2>2 DEF MailInv
<1>7. ItemsInv' /\ FlagsOK'
  BY <1>0, <1>3, <1>5 DEF ItemsInv, FlagsOK
<1> QED BY <1>4, <1>6, <1>7 DEF General

\* The web server keeps it.
LEMMA GeneralWeb ==
  ASSUME General, WebStarts \/ WebEnds
  PROVE  General'
<1>0. Core /\ Loops /\ ItemsInv /\ MailInv /\ FlagsOK
  BY DEF General, Core, Loops
<1>1. Alive("web") /\ "web" \in Task /\ "shutdown" \in Task /\ "web" \notin Receivers
  BY <1>0, TaskNames, RunsOnce DEF WebStarts, WebEnds, Resumed
<1>2. Fine({}) /\ "web" \notin {}
  BY DEF Fine
<1>3. Core' /\ Quiet("web")
  <2>1. CASE Returned(Wake("web"), {}) /\ at' = [at EXCEPT !["web"] = "serving"] /\ UNCHANGED cancelled
    <3>1. Moved("web") /\ NobodyElse
      BY <1>1, <2>1 DEF Moved, Points, Ended, NobodyElse
    <3> QED BY <1>0, <1>1, <1>2, <2>1, <3>1, StepKeeps
  <2>2. CASE \E o \in {"refused", "ok", "error"} : Finished("web", o, {})
    BY <1>0, <1>1, <1>2, <2>2, EndKeeps DEF Ended
  <2> QED BY <1>0, <2>1, <2>2, WebEffects
<1>4. at'["shutdown"] = at["shutdown"]
  BY <1>1, <1>3 DEF Quiet
<1>5. UNCHANGED <<event, requested, mail, items, open, save>>
  BY DEF WebStarts, WebEnds, signals, recorder
<1>6. MailInv'
  BY <1>0, <1>1, <1>3, <1>4, <1>5, MailKept
<1>7. ItemsInv' /\ FlagsOK'
  BY <1>0, <1>4, <1>5 DEF ItemsInv, FlagsOK
<1> QED BY <1>3, <1>6, <1>7 DEF General

\* A task that ends by its cancellation keeps it.
LEMMA GeneralCancelled ==
  ASSUME General, NEW t \in Task, Cancelled(t)
  PROVE  General'
<1>0. Core /\ Loops /\ ItemsInv /\ MailInv /\ FlagsOK
  BY DEF General, Core, Loops
<1>1. Finished(t, "cancelled", {}) /\ Alive(t) /\ "shutdown" \in Task
  BY <1>0, CancelledEffects, TaskNames
<1>2. Fine({}) /\ t \notin {}
  BY DEF Fine
<1>3. Core' /\ at'[t] = "cancelled" /\ \A u \in Task : u # t => at'[u] = at[u]
  BY <1>0, <1>1, <1>2, EndKeeps DEF Ended
<1>4. UNCHANGED <<event, requested, mail, items, open, save>>
  BY DEF Cancelled, signals, recorder
<1>5. \A r \in Receivers : /\ Wake(r) \in Pending' => Wake(r) \in Pending
                           /\ r \notin cancelled' => r \notin cancelled \/ r = t
  BY <1>1, CallbacksDiffer DEF Finished, Replaced, Wakers
<1>6. MailInv'
  <2>1. at'["shutdown"] = "receive" => \A r \in Receivers : mail'[r] \in {<<>>, <<"message">>}
    BY <1>0, <1>1, <1>3, <1>4 DEF MailInv
  <2>2. \A r \in Receivers : at'[r] = "get" /\ Wake(r) \in Pending' /\ r \notin cancelled' => mail'[r] # <<>>
    BY <1>0, <1>3, <1>4, <1>5, TaskNames DEF MailInv
  <2> QED BY <1>0, <1>4, <2>1, <2>2 DEF MailInv
<1>7. ItemsInv' /\ FlagsOK'
  BY <1>0, <1>1, <1>3, <1>4 DEF ItemsInv, FlagsOK, StopStages, Ended
<1> QED BY <1>3, <1>6, <1>7 DEF General

\* Where the shutdown goes on.
LEMMA NextStages ==
  /\ DOMAIN NextStage = {"web", "save", "sampler", "answer"}
  /\ NextStage["web"] = "stop handler" /\ NextStage["save"] = "stop service"
  /\ NextStage["sampler"] = "stop recorder" /\ NextStage["answer"] = "close publisher"
BY DEF NextStage

\* An unblock item behind a message.
LEMMA MessageThenUnblock == Append(<<"message">>, "unblock") = <<"message", "unblock">>
<1> DEFINE S == {"message", "unblock"}
           s == <<"message">>
           v == <<"unblock">>
           w == Append(s, "unblock")
           u == <<"message", "unblock">>
<1>1. /\ s \in Seq(S) /\ Len(s) = 1 /\ s[1] = "message"
      /\ v \in Seq(S) /\ Len(v) = 1 /\ v[1] = "unblock" /\ "unblock" \in S
  OBVIOUS
<1>2. u \in Seq(S) /\ Len(u) = 2 /\ u[1] = "message" /\ u[2] = "unblock"
  OBVIOUS
<1> HIDE DEF s, u, S
<1>3. w = s \o v
  BY <1>1, AppendIsConcat
<1> HIDE DEF w, v
<1>4. /\ w \in Seq(S) /\ Len(w) = Len(s) + Len(v)
      /\ \A i \in 1..(Len(s) + Len(v)) : w[i] = IF i <= Len(s) THEN s[i] ELSE v[i - Len(s)]
  BY <1>1, <1>3, ConcatProperties
<1>5. Len(w) = 2 /\ w[1] = "message" /\ w[2] = "unblock"
  BY <1>1, <1>4
<1>6. \A i \in 1..Len(w) : w[i] = u[i]
  BY <1>2, <1>5
<1>7. w = u
  BY <1>2, <1>4, <1>5, <1>6, SeqEqual
<1> QED BY <1>7 DEF w, u, s

\* One unblock item per receiver.
LEMMA GeneralReceives ==
  ASSUME General, ShutdownReceives
  PROVE  General'
<1>0. Core /\ Loops /\ ItemsInv /\ MailInv /\ FlagsOK
  BY DEF General, Core, Loops
<1>1. "shutdown" \in Task /\ Alive("shutdown") /\ at["shutdown"] = "receive"
  BY TaskNames DEF ShutdownReceives, Alive, Ended
<1> DEFINE tasks == {r \in Receivers : at[r] = "get"}
<1>2. Fine(tasks)
  BY TaskNames DEF Fine, Alive, Ended
<1>3. Went(tasks) /\ Moved("shutdown") /\ NobodyElse
  BY <1>0, <1>1, ShutdownEffects DEF ShutdownReceives, Moves, Moved, NobodyElse, Points, Ended
<1> HIDE DEF tasks
<1>4. Core' /\ at'["shutdown"] = "stop web"
  BY <1>0, <1>1, <1>2, <1>3, StepKeeps DEF ShutdownReceives, Moves, Core
<1>5. mail' = [r \in Receivers |-> Append(mail[r], "unblock")] /\ \A r \in Receivers : mail[r] \in {<<>>, <<"message">>}
  BY <1>0, <1>1 DEF ShutdownReceives, MailInv
<1>6. /\ Append(<<>>, "unblock") = <<"unblock">>
      /\ Append(<<"message">>, "unblock") = <<"message", "unblock">>
      /\ <<"unblock">> # <<>> /\ <<"message", "unblock">> # <<>>
  BY MessageThenUnblock
<1>7. \A r \in Receivers : mail'[r] \in {<<"unblock">>, <<"message", "unblock">>}
  BY <1>5, <1>6
<1>8. mail' \in [Receivers -> Mails] /\ \A r \in Receivers : mail'[r] # <<>>
  <2>1. \A r \in Receivers : mail'[r] \in Mails
    BY <1>7 DEF Mails
  <2>2. mail' = [r \in Receivers |-> mail'[r]]
    BY <1>5
  <2>3. mail' \in [Receivers -> Mails]
    BY <2>1, <2>2
  <2> QED BY <1>6, <1>7, <2>3
<1>9. MailInv'
  BY <1>4, <1>8 DEF MailInv
<1>10. ItemsInv' /\ FlagsOK'
  BY <1>0, <1>1, <1>4 DEF ShutdownReceives, recorder, ItemsInv, FlagsOK, StopStages, Ended
<1> QED BY <1>4, <1>9, <1>10 DEF General

\* The other points of the shutdown keep it: the stop item is put once.
LEMMA GeneralShutdown ==
  ASSUME General,
         \/ StopsWeb \/ StopsHandler \/ StopsService \/ StopsRecorder
         \/ ClosesPublisher \/ ShutdownResumes \/ ShutdownEnds
  PROVE  General'
<1>0. Core /\ Loops /\ ItemsInv /\ MailInv /\ FlagsOK
  BY DEF General, Core, Loops
<1>1. /\ "shutdown" \in Task /\ "sampler" \in Task /\ "listener" \in Task /\ "publisher" \in Task
      /\ "worker" \in Task /\ "shutdown" \notin Receivers /\ "worker" \notin Receivers
      /\ "sampler" \notin Receivers /\ "listener" \notin Receivers /\ "publisher" \notin Receivers
  BY TaskNames
<1>2. /\ Fine({})
      /\ \A t \in Task : Fine(IfAlive(t)) /\ (t \notin Receivers => \A u \in IfAlive(t) : u \notin Receivers)
      /\ Alive("sampler") => Fine({"sampler"})
  BY <1>1 DEF Fine, IfAlive
<1>3. at["shutdown"] # "receive" /\ Alive("shutdown")
  BY NextStages DEF StopsWeb, StopsHandler, StopsService, StopsRecorder, ClosesPublisher,
     ShutdownResumes, ShutdownEnds, ShutdownAt, Alive, Ended
<1>4. Core' /\ Quiet("shutdown") /\ at'["shutdown"] # "receive"
  <2>1. ASSUME NEW p \in Points \ Ended, p # "receive", Moves(p),
               NEW tasks, Fine(tasks), \A u \in tasks : u \notin Receivers,
               Went(tasks) \/ Returned(Wake("shutdown"), tasks), NobodyElse,
               \A r \in Receivers : r \notin cancelled' => r \notin cancelled
        PROVE  Core' /\ Quiet("shutdown") /\ at'["shutdown"] # "receive"
    <3>1. Moved("shutdown") /\ at'["shutdown"] = p
      BY <1>0, <1>1, <1>3, <2>1 DEF Moves, Moved, Core
    <3> QED BY <1>0, <1>1, <2>1, <3>1, StepKeeps
  <2>2. CASE StopsWeb
    <3>1. UNCHANGED cancelled
      BY <2>2 DEF StopsWeb
    <3>2. NobodyElse /\ {"stop handler", "web"} \subseteq Points \ Ended
      BY <3>1 DEF NobodyElse, Points, Ended
    <3>3. \E p \in {"stop handler", "web"} : Moves(p) /\ (Went({}) \/ Returned(Wake("shutdown"), {}))
      BY <1>0, <2>2, ShutdownEffects
    <3> QED BY <1>2, <2>1, <3>1, <3>2, <3>3
  <2>3. CASE StopsHandler
    <3>1. /\ cancelled' = cancelled \cup IfAlive("listener")
          /\ \E p \in {"save", "stop service"} :
               Moves(p) /\ (Went(IfAlive("listener")) \/ Returned(Wake("shutdown"), IfAlive("listener")))
      BY <1>0, <2>3, ShutdownEffects
    <3>2. NobodyElse /\ {"save", "stop service"} \subseteq Points \ Ended
      BY <1>1, <3>1 DEF NobodyElse, Points, Ended, IfAlive
    <3> QED BY <1>1, <1>2, <2>1, <3>1, <3>2
  <2>4. CASE StopsService
    <3>1. CASE /\ Alive("sampler") /\ cancelled' = cancelled \cup {"sampler"}
               /\ Moves("sampler") /\ Returned(Wake("shutdown"), {"sampler"})
      <4>1. NobodyElse /\ "sampler" \in Points \ Ended
        BY <1>1, <3>1 DEF NobodyElse, Points, Ended
      <4> QED BY <1>1, <1>2, <2>1, <3>1, <4>1
    <3>2. CASE UNCHANGED cancelled /\ Moves("stop recorder") /\ Went({})
      <4>1. NobodyElse /\ "stop recorder" \in Points \ Ended
        BY <3>2 DEF NobodyElse, Points, Ended
      <4> QED BY <1>2, <2>1, <3>2, <4>1
    <3> QED BY <1>0, <2>4, <3>1, <3>2, ShutdownEffects
  <2>5. CASE StopsRecorder
    <3>1. UNCHANGED cancelled /\ Moves("answer") /\ Returned(Wake("shutdown"), IfAlive("worker"))
      BY <1>0, <2>5, ShutdownEffects DEF StopsRecorder
    <3>2. NobodyElse /\ "answer" \in Points \ Ended
      BY <3>1 DEF NobodyElse, Points, Ended
    <3> QED BY <1>1, <1>2, <2>1, <3>1, <3>2
  <2>6. CASE ClosesPublisher
    <3>1. /\ Moves("sleep") /\ Returned(Wake("shutdown"), IfAlive("publisher"))
          /\ cancelled' = cancelled \cup IfAlive("publisher")
      BY <1>0, <2>6, ShutdownEffects DEF ClosesPublisher
    <3>2. NobodyElse /\ "sleep" \in Points \ Ended
      BY <1>1, <3>1 DEF NobodyElse, Points, Ended, IfAlive
    <3> QED BY <1>1, <1>2, <2>1, <3>1, <3>2
  <2>7. CASE ShutdownResumes
    <3>1. /\ Went({}) /\ UNCHANGED cancelled
          /\ \E p \in {"stop handler", "stop service", "stop recorder", "close publisher"} : Moves(p)
      BY <1>0, <2>7, ShutdownEffects, NextStages DEF ShutdownResumes
    <3>2. NobodyElse /\ {"stop handler", "stop service", "stop recorder", "close publisher"} \subseteq Points \ Ended
      BY <3>1 DEF NobodyElse, Points, Ended
    <3> QED BY <1>2, <2>1, <3>1, <3>2
  <2>8. CASE ShutdownEnds
    <3>1. Finished("shutdown", "ok", {})
      BY <1>0, <2>8, ShutdownEffects
    <3> QED BY <1>0, <1>1, <1>2, <1>3, <3>1, EndKeeps DEF Ended
  <2> QED BY <2>2, <2>3, <2>4, <2>5, <2>6, <2>7, <2>8
<1>5. UNCHANGED <<event, requested, mail, open, save>>
  BY DEF StopsWeb, StopsHandler, StopsService, StopsRecorder, ClosesPublisher, ShutdownResumes,
         ShutdownEnds, signals, recorder
<1>6. MailInv'
  BY <1>0, <1>1, <1>4, <1>5, MailKept
<1>7. FlagsOK'
  BY <1>0, <1>5 DEF FlagsOK
<1>8. ItemsInv'
  <2>1. CASE StopsRecorder
    <3>1. items' = Append(items, "stop") /\ items \in Seq(Item) /\ Len(items) <= MaxItems
      BY <1>0, <2>1 DEF StopsRecorder, ItemsInv, ShutdownAt, StopStages, Ended
    <3>2. items' \in Seq(Item) /\ Len(items') = Len(items) + 1
      BY <3>1 DEF Item
    <3>3. at'["shutdown"] \in StopStages
      BY <1>0, <1>1, <2>1 DEF StopsRecorder, Moves, StopStages, Core
    <3> QED BY <3>1, <3>2, <3>3, ConstantsAssumption DEF ItemsInv
  <2>2. CASE ~StopsRecorder
    <3>1. items' = items
      BY <2>2 DEF StopsWeb, StopsHandler, StopsService, ClosesPublisher, ShutdownResumes,
                  ShutdownEnds, recorder
    <3>2. at["shutdown"] \in StopStages => at'["shutdown"] \in StopStages
      <4>1. CASE ShutdownEnds
        BY <1>0, <1>1, <4>1, ShutdownEffects DEF Finished, StopStages, Ended, Core
      <4>2. CASE ~ShutdownEnds
        BY <1>0, <1>1, <2>2, <4>2, NextStages DEF StopsWeb, StopsHandler, StopsService, ClosesPublisher,
             ShutdownResumes, ShutdownAt, Moves, StopStages, Ended, Core
      <4> QED BY <4>1, <4>2
    <3> QED BY <1>0, <3>1, <3>2 DEF ItemsInv
  <2> QED BY <2>1, <2>2
<1> QED BY <1>4, <1>6, <1>7, <1>8 DEF General

\* Waking the shutdown keeps it.
LEMMA GeneralJoined ==
  ASSUME General, Joined
  PROVE  General'
<1>0. Core /\ Loops /\ ItemsInv /\ MailInv /\ FlagsOK
  BY DEF General, Core, Loops
<1>1. "shutdown" \in Task /\ "shutdown" \notin Receivers
  BY TaskNames
<1>2. Returned(SamplerJoined, {"shutdown"}) /\ UNCHANGED <<at, cancelled, event, requested, mail, items, open, save>>
  BY <1>0, JoinedEffects DEF Joined, signals, recorder
<1>3. Fine({"shutdown"}) /\ Moved("shutdown") /\ NobodyElse
  BY <1>1, <1>2 DEF Fine, Moved, NobodyElse
<1>4. Core' /\ Quiet("shutdown")
  BY <1>0, <1>1, <1>2, <1>3, StepKeeps
<1>5. MailInv'
  BY <1>0, <1>1, <1>2, <1>4, MailKept
<1> QED BY <1>0, <1>2, <1>4, <1>5 DEF General, ItemsInv, FlagsOK

\* The main task, the loop and what happens outside: no task moves.
Still == UNCHANGED <<at, mail, items, open>>

\* A step in which no task moves keeps it with the loop's part of it.
LEMMA StillKeeps ==
  ASSUME General, Still, Core',
         \A r \in Receivers : /\ Wake(r) \in Pending' /\ at[r] = "get" => Wake(r) \in Pending \/ r \in cancelled'
                              /\ r \notin cancelled' => r \notin cancelled,
         event' \in BOOLEAN, requested' \in BOOLEAN, save' \in {"none", "running", "done", "late", "cut"}
  PROVE  General'
BY DEF General, Still, ItemsInv, MailInv, FlagsOK

\* While no task moves nobody ends and nobody fails.
LEMMA StillProgress ==
  ASSUME at' = at
  PROVE  /\ \A t : Alive(t)' <=> Alive(t)
         /\ Failed' <=> Failed
BY DEF Alive, Failed

\* The gather keeps it: the main task wakes once.
LEMMA GeneralGather ==
  ASSUME General, NEW t \in Task, GatherLearns(t)
  PROVE  General'
<1>0. Core /\ Loops /\ EndedInv /\ GatherInv /\ FlagsOK
  BY DEF General, Core, Loops
<1> DEFINE set == IF gathered = "none" /\ at[t] # "ok" THEN {Wake("main")} ELSE {}
<1>1. Replaced(ChildDone(t), set)
  BY <1>0, GatherEffects
<1>2. /\ UNCHANGED <<phase, at, cancelled, event, requested, mail, items, open, save>>
      /\ gathered' = IF gathered = "none" /\ at[t] # "ok" THEN at[t] ELSE gathered
  BY DEF GatherLearns, signals, recorder
<1>3. ChildDone(t) \in Pending /\ at[t] \in Ended
  BY <1>0, Running DEF GatherLearns, Loops, EndedInv, Alive
<1>4. /\ QueueInv' /\ \A c \in set : c = Wake("main") /\ gathered = "none" /\ at[t] # "ok"
      /\ \A c \in Pending' : c \in Pending \/ (c = Wake("main") /\ gathered = "none" /\ at[t] # "ok")
  BY <1>1 DEF Replaced
<1> HIDE DEF set
<1>5. \A u \in Task : Wake(u) # Wake("main") /\ ChildDone(u) # Wake("main")
  BY CallbacksDiffer, TaskNames
<1>6. SamplerJoined # Wake("main") /\ StopLoop # Wake("main")
  BY CallbacksDiffer
<1>7. (\A u : Alive(u)' <=> Alive(u)) /\ (Failed' <=> Failed)
  BY <1>2, StillProgress
<1>8. EndedInv'
  BY <1>0, <1>2, <1>4, <1>5, <1>6, <1>7 DEF EndedInv
<1>9. GatherInv'
  <2>1. CASE gathered = "none" /\ at[t] # "ok"
    <3>1. gathered' = at[t] /\ gathered' # "none" /\ phase = "running"
          /\ Wake("main") \notin Pending /\ StopLoop \notin Pending
      BY <1>0, <1>2, <1>3, <2>1 DEF Ended, GatherInv
    <3>2. StopLoop \notin Pending'
      BY <1>4, <1>6, <3>1
    <3>3. gathered' \in {"error", "refused"} => Failed
      BY <3>1 DEF Failed
    <3> QED BY <1>2, <1>7, <3>1, <3>2, <3>3 DEF GatherInv
  <2>2. CASE ~(gathered = "none" /\ at[t] # "ok")
    BY <1>0, <1>2, <1>4, <1>7, <2>2 DEF GatherInv
  <2> QED BY <2>1, <2>2
<1>10. Core'
  <2>1. gathered' \in {"none"} \cup Ended
    BY <1>0, <1>2, <1>3 DEF Core
  <2> QED BY <1>0, <1>2, <1>4, <1>8, <1>9, <2>1 DEF Core
<1> QED BY <1>0, <1>2, <1>4, <1>5, <1>10, StillKeeps, TaskNames DEF Still, FlagsOK

\* The main task keeps it.
LEMMA GeneralMain ==
  ASSUME General, MainEnds
  PROVE  General'
<1>0. Core /\ Loops /\ EndedInv /\ GatherInv /\ FlagsOK
  BY DEF General, Core, Loops
<1>1. /\ UNCHANGED <<gathered, at, cancelled, event, mail, items, open, save>>
      /\ requested' \in BOOLEAN
  BY <1>0 DEF MainEnds, recorder, FlagsOK
<1>2. Wake("main") \in Pending
  BY <1>0, Running DEF MainEnds, Loops
<1>3. gathered # "none" /\ StopLoop \notin Pending /\ phase = "running"
  BY <1>0, <1>2 DEF GatherInv
<1>4. (\A u : Alive(u)' <=> Alive(u)) /\ (Failed' <=> Failed)
  BY <1>1, StillProgress
<1>5. /\ QueueInv' /\ Wake("main") \notin Pending'
      /\ \A c \in Pending' : c \in Pending \/ c = StopLoop
      /\ StopLoop \in Pending' => phase' = "running"
      /\ phase' \in {"running", "stopping"}
  <2>1. CASE gathered # "refused" /\ Replaced(Wake("main"), {StopLoop}) /\ UNCHANGED phase
    BY <1>3, <2>1, CallbacksDiffer DEF Replaced
  <2>2. CASE /\ phase' = "stopping" /\ QueueInv'
             /\ \A c : c \in Pending' <=> c \in Pending /\ c # Wake("main")
    BY <1>3, <2>2
  <2> QED BY <1>0, <2>1, <2>2, MainEffects
<1>6. \A u : Wake(u) # StopLoop /\ ChildDone(u) # StopLoop /\ SamplerJoined # StopLoop
  BY CallbacksDiffer
<1>7. EndedInv'
  BY <1>0, <1>1, <1>4, <1>5, <1>6 DEF EndedInv
<1>8. GatherInv'
  BY <1>0, <1>1, <1>3, <1>4, <1>5 DEF GatherInv
<1>9. Core'
  BY <1>0, <1>1, <1>5, <1>7, <1>8 DEF Core
<1> QED BY <1>0, <1>1, <1>5, <1>6, <1>9, StillKeeps DEF Still, FlagsOK

\* The loop stops, cancels what is left, and exits.
LEMMA GeneralPhases ==
  ASSUME General, Stops \/ CancelsAll \/ Exits
  PROVE  General'
<1>0. Core /\ Loops /\ EndedInv /\ GatherInv /\ FlagsOK
  BY DEF General, Core, Loops
<1>1. /\ UNCHANGED <<gathered, at, event, requested, mail, items, open>>
      /\ save' \in {save, "cut"} /\ phase' \in {"stopping", "draining", "exited"}
  BY DEF Stops, CancelsAll, Exits, signals, recorder
<1>2. (\A u : Alive(u)' <=> Alive(u)) /\ (Failed' <=> Failed)
  BY <1>1, StillProgress
<1>3. gathered # "none" /\ Wake("main") \notin Pending /\ (StopLoop \in Pending => Stops)
  <2>1. CASE Stops
    BY <1>0, <2>1, Running DEF Stops, Loops, GatherInv
  <2>2. CASE CancelsAll \/ Exits
    BY <1>0, <2>2 DEF CancelsAll, Exits, GatherInv
  <2> QED BY <2>1, <2>2
<1>4. /\ QueueInv' /\ StopLoop \notin Pending'
      /\ \A c \in Pending' : c \in Pending \/ \E t \in Task : Alive(t) /\ c = Wake(t)
      /\ \A r \in Receivers : Wake(r) \in Pending' /\ at[r] = "get" => Wake(r) \in Pending \/ r \in cancelled'
      /\ cancelled' = cancelled \/ cancelled' = cancelled \cup {t \in Task : Alive(t)}
  <2>1. CASE Stops
    <3>1. Replaced(StopLoop, {}) /\ cancelled' = cancelled
      BY <1>0, <2>1, StopEffects DEF Stops
    <3> QED BY <3>1 DEF Replaced
  <2>2. CASE CancelsAll
    <3>1. PICK woken \in SUBSET {t \in Task : Alive(t)} : Added(Wakers(woken))
      BY <1>0, <2>2, CancellingEffects
    <3>2. cancelled' = cancelled \cup {t \in Task : Alive(t)}
      BY <2>2 DEF CancelsAll
    <3>3. StopLoop \notin Pending
      BY <1>0, <2>2 DEF GatherInv, CancelsAll
    <3>4. \A c \in Wakers(woken) : c # StopLoop /\ \E t \in Task : Alive(t) /\ c = Wake(t)
      BY CallbacksDiffer DEF Wakers
    <3>5. \A r \in Receivers : at[r] = "get" => r \in cancelled'
      BY <3>2, TaskNames DEF Alive, Ended
    <3> QED BY <3>1, <3>2, <3>3, <3>4, <3>5 DEF Added
  <2>3. CASE Exits
    <3>1. Added({}) /\ cancelled' = cancelled
      BY <1>0, <2>3, StayingOn DEF Exits, Loops
    <3>2. StopLoop \notin Pending
      BY <1>0, <2>3 DEF GatherInv, Exits
    <3> QED BY <3>1, <3>2 DEF Added
  <2> QED BY <2>1, <2>2, <2>3
<1>5. \A u \in Task : Wake(u) # Wake("main")
  BY CallbacksDiffer, TaskNames
<1>6. EndedInv'
  <2>1. \A t \in Task \ {"shutdown"} : Wake(t) \in Pending' => Alive(t)
    BY <1>0, <1>4, CallbacksDiffer DEF EndedInv
  <2>2. \A t \in Task : ChildDone(t) \in Pending' => ~Alive(t)
    BY <1>0, <1>4, CallbacksDiffer DEF EndedInv
  <2>3. SamplerJoined \in Pending' => ~Alive("sampler")
    BY <1>0, <1>4, CallbacksDiffer DEF EndedInv
  <2>4. \A t \in cancelled' : Alive(t)
    BY <1>0, <1>4 DEF EndedInv
  <2> QED BY <1>2, <2>1, <2>2, <2>3, <2>4 DEF EndedInv
<1>7. GatherInv'
  <2>1. Wake("main") \notin Pending'
    BY <1>3, <1>4, <1>5
  <2> QED BY <1>0, <1>1, <1>2, <1>3, <1>4, <2>1 DEF GatherInv
<1>8. Core'
  BY <1>0, <1>1, <1>4, <1>6, <1>7 DEF Core
<1> QED BY <1>0, <1>1, <1>4, <1>8, StillKeeps DEF Still, FlagsOK

\* An iteration, and what happens outside the loop.
Polled ==
    \/ Datagram \/ Request \/ SaveEnds \/ SamplerTick \/ ServerExits
    \/ WebStopped \/ SaveTimesOut \/ LastSleepOver
    \/ \E r \in Receivers : ReceiverDone(r)

\* What happens outside wakes a task that waits for it, between two iterations.
LEMMA PolledEffects ==
  ASSUME Loops, Polled
  PROVE  /\ UNCHANGED <<phase, gathered, at, cancelled, event, mail, items, open>>
         /\ left = 0 /\ left' = 0
         /\ requested' \in {requested, TRUE} /\ save' \in {save, "done", "late"}
         /\ \/ Added({})
            \/ \E t \in Task : /\ Alive(t) /\ at[t] # "get" /\ Added({Wake(t)})
                               /\ t \in {"listener", "sampler", "web", "shutdown"} \cup Receivers
                               /\ t = "shutdown" => \/ at[t] \in {"receive", "web", "sleep"}
                                                    \/ at[t] = "save" /\ save' # "running"
<1> DEFINE R == /\ UNCHANGED <<phase, gathered, at, cancelled, event, mail, items, open>>
                /\ left = 0 /\ left' = 0
                /\ requested' \in {requested, TRUE} /\ save' \in {save, "done", "late"}
           W(t) == /\ Alive(t) /\ at[t] # "get" /\ Added({Wake(t)})
                   /\ t \in {"listener", "sampler", "web", "shutdown"} \cup Receivers
                   /\ t = "shutdown" => \/ at[t] \in {"receive", "web", "sleep"}
                                        \/ at[t] = "save" /\ save' # "running"
<1>1. ASSUME NEW t \in Task, Happens(t)
      PROVE  /\ UNCHANGED <<phase, gathered, at, cancelled, items, open>> /\ left = 0 /\ left' = 0
             /\ Added({Wake(t)})
  BY <1>1, HappeningEffects DEF Happens, Polling, recorder
<1>2. ASSUME UNCHANGED <<loop, at, cancelled, recorder>>, Polling
      PROVE  /\ UNCHANGED <<phase, gathered, at, cancelled, items, open>> /\ left = 0 /\ left' = 0 /\ Added({})
  BY <1>2, StayingOn DEF Loops, loop, recorder, Polling
<1>3. ASSUME NEW r \in Receivers, ReceiverDone(r) PROVE R /\ W(r) /\ r \in Task
  <2>1. r \in Task /\ r # "shutdown"
    BY TaskNames
  <2> QED BY <1>1, <1>3, <2>1 DEF ReceiverDone, signals, Alive, Ended
<1>4. ASSUME Datagram PROVE R /\ W("listener")
  BY <1>1, <1>4, TaskNames DEF Datagram, signals, Alive, Ended
<1>5. ASSUME SamplerTick PROVE R /\ W("sampler")
  BY <1>1, <1>5, TaskNames DEF SamplerTick, signals, Alive, Ended
<1>6. ASSUME ServerExits PROVE R /\ W("web")
  BY <1>1, <1>6, TaskNames DEF ServerExits, signals, Alive, Ended
<1>7. ASSUME WebStopped \/ LastSleepOver PROVE R /\ W("shutdown")
  BY <1>1, <1>7, TaskNames DEF WebStopped, LastSleepOver, signals, Alive, Ended
<1>8. ASSUME Request PROVE R /\ (W("shutdown") \/ Added({}))
  <2>1. CASE at["shutdown"] = "receive"
    BY <1>1, <1>8, <2>1, TaskNames DEF Request, Alive, Ended
  <2>2. CASE at["shutdown"] # "receive"
    BY <1>2, <1>8, <2>2 DEF Request
  <2> QED BY <2>1, <2>2
<1>9. ASSUME SaveEnds PROVE R /\ (W("shutdown") \/ Added({}))
  <2>1. CASE at["shutdown"] = "save"
    BY <1>1, <1>9, <2>1, TaskNames DEF SaveEnds, signals, Alive, Ended
  <2>2. CASE at["shutdown"] # "save"
    BY <1>2, <1>9, <2>2 DEF SaveEnds, signals
  <2> QED BY <2>1, <2>2
<1>10. ASSUME SaveTimesOut PROVE R /\ W("shutdown")
  BY <1>1, <1>10, TaskNames DEF SaveTimesOut, signals, Alive, Ended
<1> HIDE DEF R, W
<1>11. R /\ (Added({}) \/ \E t \in Task : W(t))
  BY <1>3, <1>4, <1>5, <1>6, <1>7, <1>8, <1>9, <1>10, TaskNames DEF Polled
<1> QED BY <1>11 DEF R, W

\* What happens outside, and an iteration, keep it.
LEMMA GeneralPolled ==
  ASSUME General, Polled \/ Iterates
  PROVE  General'
<1>0. Core /\ Loops /\ EndedInv /\ GatherInv /\ FlagsOK
  BY DEF General, Core, Loops
<1>1. /\ UNCHANGED <<phase, gathered, at, cancelled, event, mail, items, open>>
      /\ requested' \in {requested, TRUE} /\ save' \in {save, "done", "late"}
      /\ QueueInv'
      /\ \A c \in Pending' : c \in Pending \/ \E t \in Task : Alive(t) /\ at[t] # "get" /\ c = Wake(t)
  <2>1. CASE Polled
    <3>1. /\ UNCHANGED <<phase, gathered, at, cancelled, event, mail, items, open>>
          /\ requested' \in {requested, TRUE} /\ save' \in {save, "done", "late"}
          /\ Added({}) \/ \E t \in Task : Alive(t) /\ at[t] # "get" /\ Added({Wake(t)})
      BY <1>0, <2>1, PolledEffects
    <3> QED BY <3>1 DEF Added
  <2>2. CASE Iterates
    BY <1>0, <2>2, IteratingEffects DEF Iterates, signals, recorder
  <2> QED BY <2>1, <2>2
<1>2. (\A u : Alive(u)' <=> Alive(u)) /\ (Failed' <=> Failed)
  BY <1>1, StillProgress
<1>3. EndedInv'
  <2>1. \A t \in Task \ {"shutdown"} : Wake(t) \in Pending' => Alive(t)
    BY <1>0, <1>1, CallbacksDiffer DEF EndedInv
  <2>2. \A t \in Task : ChildDone(t) \in Pending' => ~Alive(t)
    BY <1>0, <1>1, CallbacksDiffer DEF EndedInv
  <2>3. SamplerJoined \in Pending' => ~Alive("sampler")
    BY <1>0, <1>1, CallbacksDiffer DEF EndedInv
  <2>4. \A t \in cancelled' : Alive(t)
    BY <1>0, <1>1 DEF EndedInv
  <2> QED BY <1>2, <2>1, <2>2, <2>3, <2>4 DEF EndedInv
<1>4. GatherInv'
  <2>1. Wake("main") \in Pending' => Wake("main") \in Pending
    BY <1>1, CallbacksDiffer, TaskNames
  <2>2. StopLoop \in Pending' => StopLoop \in Pending
    BY <1>1, CallbacksDiffer
  <2> QED BY <1>0, <1>1, <1>2, <2>1, <2>2 DEF GatherInv
<1>5. Core'
  BY <1>0, <1>1, <1>3, <1>4 DEF Core
<1>6. \A r \in Receivers : Wake(r) \in Pending' /\ at[r] = "get" => Wake(r) \in Pending
  BY <1>1, CallbacksDiffer
<1> QED BY <1>0, <1>1, <1>5, <1>6, StillKeeps DEF Still, FlagsOK

\* It holds when the process starts.
LEMMA GeneralInit ==
  ASSUME Init
  PROVE  General
<1>1. /\ ready = <<Wake("web")>> /\ left = 0 /\ cancelled = {} /\ phase = "running" /\ gathered = "none"
      /\ at \in [Task -> {"receive", "get", "sleep", "recv", "idle", "start"}]
      /\ items = <<>> /\ mail = [r \in Receivers |-> <<>>]
      /\ event = FALSE /\ requested = FALSE /\ open = FALSE /\ save = "none"
  BY DEF Init
<1>2. Queue(ready) /\ Pending = {Wake("web")} /\ "web" \in Task /\ "sampler" \in Task
  BY <1>1, TaskNames, CallbackTypes, OneCallback DEF Pending
<1>3. QueueInv
  BY <1>1, <1>2 DEF QueueInv, Queue
<1>4. \A t \in Task : Alive(t)
  BY <1>1 DEF Alive, Ended
<1>5. EndedInv
  BY <1>1, <1>2, <1>4, CallbacksDiffer DEF EndedInv
<1>6. GatherInv
  BY <1>1, <1>2, CallbacksDiffer, TaskNames DEF GatherInv
<1>7. Core
  BY <1>1, <1>3, <1>5, <1>6 DEF Core, Points
<1>8. ItemsInv /\ FlagsOK
  <2>1. items \in Seq(Item) /\ Len(items) = 0
    BY <1>1
  <2>2. ItemsInv
    BY <2>1, ConstantsAssumption DEF ItemsInv
  <2>3. FlagsOK
    BY <1>1 DEF FlagsOK
  <2> QED BY <2>2, <2>3
<1>9. MailInv
  <2>1. mail \in [Receivers -> Mails] /\ \A r \in Receivers : mail[r] = <<>>
    BY <1>1 DEF Mails
  <2>2. \A r \in Receivers : Wake(r) \notin Pending
    BY <1>2, CallbacksDiffer, TaskNames
  <2> QED BY <2>1, <2>2 DEF MailInv
<1> QED BY <1>7, <1>8, <1>9 DEF General

\* Every step keeps it.
LEMMA GeneralStep ==
  ASSUME General, [Next]_vars
  PROVE  General'
<1>1. CASE Outside \/ Timers \/ Awaited
  BY <1>1, GeneralPolled DEF Outside, Timers, Awaited, Polled
<1>2. CASE Runtime
  BY <1>2, GeneralPolled, GeneralJoined, GeneralMain, GeneralPhases, GeneralGather DEF Runtime
<1>3. CASE Tasks
  BY <1>3, GeneralWorker, GeneralSampler, GeneralListener, GeneralMessage, GeneralReceiver, GeneralWeb,
     GeneralCancelled DEF Tasks
<1>4. CASE Shutdown
  BY <1>4, GeneralReceives, GeneralShutdown DEF Shutdown
<1>5. CASE UNCHANGED vars
  BY <1>5 DEF vars, General, Core, ItemsInv, MailInv, FlagsOK, QueueInv, Queue, NoTwice, EndedInv, GatherInv,
              Pending, Of, Alive, Failed
<1> QED BY <1>1, <1>2, <1>3, <1>4, <1>5 DEF Next

\* So it always holds.
LEMMA GeneralHolds == Spec => []General
<1>1. Spec => Init /\ [][Next]_vars
  BY DEF Spec
<1> QED BY <1>1, GeneralInit, GeneralStep, PTL

\* Every variable stays in its type; in particular the recorder's queue holds at most MaxItems
\* items and the stop item, which the shutdown always finds room for.
THEOREM TypeCorrect == Spec => []TypeOK
BY GeneralHolds, GeneralIsTyped, PTL

-----------------------------------------------------------------------------
(* What holds while no task has failed                                      *)

Stage == at["shutdown"]
ShutdownWoken == Wake("shutdown") \in Pending
Early == {"receive", "stop web", "web", "stop handler"}
Stopping == {"stop recorder", "answer", "close publisher", "sleep", "ok"}
Later == {"stop service", "sampler"} \cup Stopping
WithinCallback == {"stop web", "stop handler", "stop service", "stop recorder", "close publisher"}

\* Only what the shutdown stops is cancelled, and when it gets there.
CancelledInv ==
    /\ cancelled \subseteq {"listener", "sampler", "publisher"}
    /\ "sampler" \in cancelled => Stage = "sampler"
    /\ "publisher" \in cancelled => Stage \in {"sleep", "ok"}
    /\ \A t \in Task : at[t] = "cancelled" => t \in {"sampler", "publisher"}
    /\ at["publisher"] = "cancelled" => Stage \in {"sleep", "ok"}
    /\ Stage \in Early \cup {"save"} \cup Later
    /\ Stage \in WithinCallback => Runs(Wake("shutdown"))

\* No packet once the handler is stopped, and no save of it left.
ListenerInv ==
    /\ Stage \in {"save"} \cup Later => "listener" \in cancelled \/ ~Alive("listener")
    /\ save # "cut"
    /\ Stage \in Later => save # "running"
    /\ Stage = "save" /\ ShutdownWoken => save # "running"

\* The shutdown goes on past the sampler when that has ended.
SamplerInv ==
    /\ Stage \in Stopping => ~Alive("sampler")
    /\ Stage = "sampler" /\ ShutdownWoken => ~Alive("sampler")
    /\ SamplerJoined \in Pending => Stage = "sampler" /\ ~ShutdownWoken

\* The stop item is the last; the worker is woken for it, and ends with nothing left.
StopIsLast(q) == \A i \in 1..Len(q) : q[i] = "stop" => i = Len(q)
NoStop(q) == \A i \in 1..Len(q) : q[i] # "stop"
EndsInStop(q) == q # <<>> /\ q[Len(q)] = "stop"
WorkerInv ==
    /\ StopIsLast(items) /\ (Stage # "answer" => NoStop(items))
    /\ Stage = "answer" /\ Alive("worker") =>
         EndsInStop(items) /\ Wake("worker") \in Pending /\ ~ShutdownWoken
    /\ ~Alive("worker") => items = <<>> /\ ~open /\ Stage \in {"answer", "close publisher", "sleep", "ok"}
    /\ Stage \in {"close publisher", "sleep", "ok"} => ~Alive("worker")

\* How far the shutdown is: the sampler joined, the recorder to be stopped, the stop item put,
\* the worker ended; and which of these is a callback of this iteration.
Reached4 == ~Alive("worker")
Reached3 == Reached4 \/ Stage = "answer"
Reached2 == Reached3 \/ Stage = "stop recorder" \/ (Stage = "sampler" /\ ShutdownWoken)
Reached1 == Reached2 \/ SamplerJoined \in Pending
Soon3 == Stage = "answer" /\ Wake("worker") \in Current
Soon2 == Stage = "stop recorder" \/ (Stage = "sampler" /\ Wake("shutdown") \in Current)
Soon1 == SamplerJoined \in Current

\* The cancelled sampler brings the loop down one callback per iteration, the shutdown is
\* never a whole iteration behind it.
RaceInv ==
    /\ at["sampler"] = "cancelled" /\ ChildDone("sampler") \in Pending => Reached1
    /\ at["sampler"] = "cancelled" /\ ChildDone("sampler") \in Current => Soon1 \/ Reached2
    /\ Wake("main") \in Pending => Soon1 \/ Reached2
    /\ Wake("main") \in Current => Soon2 \/ Reached3
    /\ StopLoop \in Pending => Soon2 \/ Reached3
    /\ StopLoop \in Current => Soon3 \/ Reached4
    /\ phase = "stopping" => Soon3 \/ Reached4

Order == CancelledInv /\ ListenerInv /\ SamplerInv /\ WorkerInv /\ RaceInv

\* What the loop's last part, which cancels every task, finds and leaves.
Clean ==
    /\ ~Alive("worker") /\ ~Alive("sampler")
    /\ "listener" \in cancelled \/ ~Alive("listener")
    /\ Stage \in StopStages
    /\ items = <<>> /\ ~open /\ save \in {"none", "done", "late"}

Orderly == /\ phase \in {"running", "stopping"} => Order
           /\ phase \in {"draining", "exited"} => Clean

-----------------------------------------------------------------------------
\* A step of another task than the shutdown: what it does to the loop.
TaskStep(t, tasks) == \/ Went(tasks) /\ at' = at
                      \/ Returned(Wake(t), tasks)
                      \/ \E o \in Ended : Finished(t, o, tasks)

\* What such a step leaves of the callbacks.
LEMMA TaskStepQueue ==
  ASSUME NEW t, NEW tasks, TaskStep(t, tasks)
  PROVE  /\ phase' = phase
         /\ \A c : c # Wake(t) => (c \in Pending => c \in Pending') /\ (c \in Current => c \in Current')
         /\ \A c \in Current' : c \in Current
         /\ \A c \in Pending' : \/ c \in Pending
                                \/ \E u \in tasks : c = Wake(u)
                                \/ c = ChildDone(t)
                                \/ c = SamplerJoined /\ t = "sampler" /\ Stage = "sampler"
         /\ t = "sampler" /\ Stage = "sampler" /\ (\E o \in Ended : Finished(t, o, tasks)) => SamplerJoined \in Pending'
<1>1. CASE Went(tasks)
  BY <1>1 DEF Went, Added, Wakers, Finished, Replaced, Stage
<1>2. CASE Returned(Wake(t), tasks)
  BY <1>2 DEF Returned, Replaced, Wakers, Finished, Stage
<1>3. CASE \E o \in Ended : Finished(t, o, tasks)
  BY <1>3 DEF Finished, Replaced, Wakers, Stage
<1> QED BY <1>1, <1>2, <1>3 DEF TaskStep

\* What such a step may do: it ends by being cancelled only if it was, uncancels only itself,
\* wakes the shutdown only with the recorder's answer, and saves only while packets come.
Aside(t, tasks) ==
    /\ TaskStep(t, tasks) /\ t \in Task \ {"shutdown"} /\ Runs(Wake(t)) /\ Alive(t)
    /\ \A u \in Task : u # t => at'[u] = at[u]
    /\ at'[t] = "cancelled" => t \in cancelled /\ t # "listener" /\ \E o \in Ended : Finished(t, o, tasks)
    /\ cancelled' = cancelled \/ cancelled' = cancelled \ {t}
    /\ t = "listener" /\ t \in cancelled => ~Alive(t)'
    /\ tasks \subseteq Task /\ ("shutdown" \in tasks => Stage = "answer")
    /\ save' = save \/ (save' = "running" /\ Stage \notin {"save"} \cup Later)

\* It keeps who is cancelled, the listener's part, the sampler's part and the race.
LEMMA AsideCancelled ==
  ASSUME General, Order, NEW t, NEW tasks, Aside(t, tasks)
  PROVE  CancelledInv'
<1>1. /\ t \in Task /\ t # "shutdown" /\ "shutdown" \in Task /\ "publisher" \in Task /\ Stage' = Stage
      /\ \A u \in Task : u # t => at'[u] = at[u]
      /\ at'[t] = "cancelled" => t \in cancelled /\ t # "listener"
      /\ \A u \in cancelled' : u \in cancelled
  BY TaskNames DEF Aside, Stage
<1>2. Stage \notin WithinCallback
  <2>1. ~Runs(Wake("shutdown"))
    BY CallbacksDiffer DEF Aside, Runs
  <2> QED BY <2>1 DEF Order, CancelledInv
<1>3. CancelledInv
  BY DEF Order
<1>4. \A u \in Task : at'[u] = "cancelled" => u \in {"sampler", "publisher"}
  <2>1. t \in cancelled => t \in {"listener", "sampler", "publisher"}
    BY <1>3 DEF CancelledInv
  <2> QED BY <1>1, <1>3, <2>1 DEF CancelledInv
<1>5. at'["publisher"] = "cancelled" => Stage \in {"sleep", "ok"}
  BY <1>1, <1>3 DEF CancelledInv
<1> QED BY <1>1, <1>2, <1>3, <1>4, <1>5 DEF CancelledInv

LEMMA AsideListener ==
  ASSUME General, Order, NEW t, NEW tasks, Aside(t, tasks)
  PROVE  ListenerInv'
<1>0. ListenerInv /\ QueueInv /\ TaskStep(t, tasks)
  BY DEF Order, General, Core, Aside
<1>1. /\ t \in Task /\ t # "shutdown" /\ "shutdown" \in Task /\ "listener" \in Task /\ Stage' = Stage
      /\ \A u \in Task : u # t => at'[u] = at[u]
  BY TaskNames DEF Aside, Stage
<1>2. "listener" \in cancelled \/ ~Alive("listener") => "listener" \in cancelled' \/ ~Alive("listener")'
  <2>1. CASE t # "listener"
    BY <1>1, <2>1 DEF Aside, Alive
  <2>2. CASE t = "listener"
    BY <2>2 DEF Aside
  <2> QED BY <2>1, <2>2
<1>3. Stage = "save" /\ ShutdownWoken' => ShutdownWoken
  <2>1. Wake("shutdown") \in Pending' => Wake("shutdown") \in Pending \/ "shutdown" \in tasks
    BY <1>0, TaskStepQueue, CallbacksDiffer
  <2> QED BY <2>1 DEF Aside, ShutdownWoken
<1>4. save' = save \/ (save' = "running" /\ Stage \notin {"save"} \cup Later)
  BY DEF Aside
<1> QED BY <1>0, <1>1, <1>2, <1>3, <1>4 DEF ListenerInv

LEMMA AsideSampler ==
  ASSUME General, Order, NEW t, NEW tasks, Aside(t, tasks)
  PROVE  SamplerInv'
<1>0. SamplerInv /\ QueueInv /\ TaskStep(t, tasks)
  BY DEF Order, General, Core, Aside
<1>1. /\ t \in Task /\ t # "shutdown" /\ "shutdown" \in Task /\ "sampler" \in Task /\ Stage' = Stage
      /\ \A u \in Task : u # t => at'[u] = at[u]
      /\ Alive(t)
  BY TaskNames DEF Aside, Stage
<1>2. ~Alive("sampler") => ~Alive("sampler")'
  BY <1>1 DEF Alive
<1>3. Wake("shutdown") \in Pending' => Wake("shutdown") \in Pending \/ Stage = "answer"
  <2>1. Wake("shutdown") \in Pending' => Wake("shutdown") \in Pending \/ "shutdown" \in tasks
    BY <1>0, TaskStepQueue, CallbacksDiffer
  <2> QED BY <2>1 DEF Aside
<1>4. SamplerJoined \in Pending' => SamplerJoined \in Pending \/ (t = "sampler" /\ Stage = "sampler")
  BY <1>0, TaskStepQueue, CallbacksDiffer
<1>5. Stage = "sampler" /\ ShutdownWoken => ~Alive("sampler")
  BY <1>0 DEF SamplerInv
<1> QED BY <1>0, <1>1, <1>2, <1>3, <1>4, <1>5 DEF SamplerInv, ShutdownWoken

\* With the worker ended nothing is left to be late for.
LEMMA NothingLate ==
  ASSUME Reached4
  PROVE  RaceInv
BY DEF RaceInv, Reached1, Reached2, Reached3

LEMMA AsideRace ==
  ASSUME General, Order, NEW t, NEW tasks, Aside(t, tasks),
         t = "worker" /\ Stage = "answer" => Wake("worker") \in Current' \/ ~Alive("worker")'
  PROVE  RaceInv'
<1>0. RaceInv /\ QueueInv /\ TaskStep(t, tasks) /\ CancelledInv /\ EndedInv
  BY DEF Order, General, Core, Aside
<1>1. /\ t \in Task /\ t # "shutdown" /\ "shutdown" \in Task /\ "sampler" \in Task /\ "worker" \in Task
      /\ Stage' = Stage /\ \A u \in Task : u # t => at'[u] = at[u]
      /\ Alive(t) /\ t # "main"
  BY TaskNames DEF Aside, Stage
<1>2. CASE ~Alive("worker")'
  <2>1. Reached4'
    BY <1>2 DEF Reached4
  <2>2. Reached4' => RaceInv'
    BY NothingLate, PTL
  <2> QED BY <2>1, <2>2
<1>3. CASE Alive("worker")'
  <2>1. Alive("worker")
    BY <1>1, <1>3 DEF Alive
  <2>2. Stage = "answer" /\ Wake("worker") \in Current => Wake("worker") \in Current'
    <3>1. t # "worker" => Wake("worker") # Wake(t)
      BY CallbacksDiffer
    <3> QED BY <1>0, <1>3, <3>1, TaskStepQueue
  <2>3. /\ SamplerJoined \in Pending => SamplerJoined \in Pending'
        /\ SamplerJoined \in Current => SamplerJoined \in Current'
        /\ ShutdownWoken => ShutdownWoken'
        /\ Wake("shutdown") \in Current => Wake("shutdown") \in Current'
    BY <1>0, <1>1, TaskStepQueue, CallbacksDiffer DEF ShutdownWoken
  <2>4. (Soon3 => Soon3') /\ (Soon2 => Soon2') /\ (Soon1 => Soon1') /\ (Reached3 => Reached3')
        /\ (Reached2 => Reached2') /\ (Reached1 => Reached1') /\ ~Reached4
    BY <1>1, <2>1, <2>2, <2>3 DEF Soon1, Soon2, Soon3, Reached1, Reached2, Reached3, Reached4
  <2>5. /\ Wake("main") \in Current' => Wake("main") \in Current
        /\ StopLoop \in Current' => StopLoop \in Current
        /\ ChildDone("sampler") \in Current' => ChildDone("sampler") \in Current
        /\ StopLoop \in Pending' => StopLoop \in Pending
        /\ ChildDone("sampler") \in Pending' => ChildDone("sampler") \in Pending \/ t = "sampler"
        /\ phase' = phase
    BY <1>0, TaskStepQueue, CallbacksDiffer
  <2>6. Wake("main") \in Pending' => Wake("main") \in Pending
    BY <1>0, <1>1, TaskStepQueue, CallbacksDiffer, TaskNames DEF Aside
  <2>7. at'["sampler"] = "cancelled" =>
          \/ at["sampler"] = "cancelled" /\ t # "sampler"
          \/ t = "sampler" /\ ChildDone("sampler") \notin Current /\ SamplerJoined \in Pending'
    <3>1. CASE t # "sampler"
      BY <1>1, <3>1
    <3>2. CASE t = "sampler" /\ at'["sampler"] = "cancelled"
      <4>1. "sampler" \in cancelled /\ \E o \in Ended : Finished(t, o, tasks)
        BY <3>2 DEF Aside
      <4>2. Stage = "sampler"
        BY <1>0, <4>1 DEF CancelledInv
      <4>3. SamplerJoined \in Pending'
        BY <1>0, <3>2, <4>1, <4>2, TaskStepQueue
      <4>4. ChildDone("sampler") \notin Pending
        BY <1>0, <1>1, <3>2 DEF EndedInv
      <4> QED BY <1>0, <3>2, <4>3, <4>4, CurrentIsPending
    <3> QED BY <3>1, <3>2
  <2> QED BY <1>0, <2>4, <2>5, <2>6, <2>7 DEF RaceInv, Reached1
<1> QED BY <1>2, <1>3

-----------------------------------------------------------------------------
\* The stop item stays the last when an item is taken, and nothing else is put as one.
LEMMA TakeBeforeStop ==
  ASSUME NEW q \in Seq(Item), q # <<>>, StopIsLast(q)
  PROVE  /\ StopIsLast(Tail(q))
         /\ NoStop(q) => NoStop(Tail(q))
         /\ EndsInStop(q) /\ Head(q) # "stop" => EndsInStop(Tail(q))
         /\ Head(q) = "stop" => Tail(q) = <<>>
<1> DEFINE w == Tail(q)
<1>1. /\ w \in Seq(Item) /\ Len(w) = Len(q) - 1 /\ Head(q) = q[1] /\ Len(q) \in Nat /\ Len(q) # 0
      /\ \A i \in 1..Len(w) : w[i] = q[i + 1]
  BY HeadTailProperties
<1> HIDE DEF w
<1>2. \A i \in 1..Len(w) : i + 1 \in 1..Len(q)
  BY <1>1
<1>3. StopIsLast(w)
  BY <1>1, <1>2 DEF StopIsLast
<1>4. NoStop(q) => NoStop(w)
  BY <1>1, <1>2 DEF NoStop
<1>5. ASSUME EndsInStop(q), Head(q) # "stop" PROVE EndsInStop(w)
  <2>1. Len(q) # 1 /\ q[Len(q)] = "stop"
    BY <1>1, <1>5 DEF EndsInStop
  <2>2. Len(w) \in 1..Len(w) /\ Len(w) + 1 = Len(q)
    BY <1>1, <2>1
  <2>3. w[Len(w)] = "stop"
    BY <1>1, <2>1, <2>2
  <2>4. w # <<>>
    BY <1>1, <2>2
  <2> QED BY <2>3, <2>4 DEF EndsInStop
<1>6. ASSUME Head(q) = "stop" PROVE w = <<>>
  <2>1. 1 \in 1..Len(q) /\ q[1] = "stop"
    BY <1>1, <1>6
  <2>2. Len(q) = 1
    BY <2>1 DEF StopIsLast
  <2> QED BY <1>1, <2>2
<1> QED BY <1>3, <1>4, <1>5, <1>6 DEF w

LEMMA AppendNoStop ==
  ASSUME NEW q \in Seq(Item), NoStop(q), NEW item \in {"data", "finalize"}
  PROVE  NoStop(Append(q, item))
<1> DEFINE w == Append(q, item)
<1>1. item \in Item /\ Len(q) \in Nat /\ item # "stop"
  BY DEF Item
<1>2. /\ Len(w) = Len(q) + 1 /\ w[Len(q) + 1] = item
      /\ \A i \in 1..Len(q) : w[i] = q[i]
  BY <1>1, AppendProperties
<1> HIDE DEF w
<1>3. \A i \in 1..Len(w) : i \in 1..Len(q) \/ i = Len(q) + 1
  BY <1>1, <1>2
<1>4. NoStop(w)
  BY <1>1, <1>2, <1>3 DEF NoStop
<1> QED BY <1>4 DEF w

LEMMA PutNoStop ==
  ASSUME NEW q \in Seq(Item), NoStop(q), NEW item \in {"data", "finalize"}
  PROVE  NoStop(Put(q, item))
BY AppendNoStop DEF Put

\* Queues without a stop item.
LEMMA NoStopIsLast ==
  ASSUME NEW q, NoStop(q)
  PROVE  StopIsLast(q)
BY DEF NoStop, StopIsLast

LEMMA NothingPut == StopIsLast(<<>>) /\ NoStop(<<>>)
BY DEF StopIsLast, NoStop

\* Steps of other tasks than the worker and the shutdown; what they put comes before the stop item.
LEMMA AsideWorker ==
  ASSUME General, Order, NEW t, NEW tasks, Aside(t, tasks), t # "worker", tasks \subseteq Task \ {"shutdown"},
         open' = open, items' = items \/ (Stage \notin Stopping /\ NoStop(items'))
  PROVE  WorkerInv'
<1>0. WorkerInv /\ QueueInv /\ TaskStep(t, tasks)
  BY DEF Order, General, Core, Aside
<1>1. /\ t # "shutdown" /\ "shutdown" \in Task /\ "worker" \in Task /\ Stage' = Stage
      /\ (Alive("worker")' <=> Alive("worker"))
  BY TaskNames DEF Aside, Stage, Alive
<1>2. Wake("worker") \in Pending => Wake("worker") \in Pending'
  BY <1>0, TaskStepQueue, CallbacksDiffer
<1>3. ShutdownWoken' => ShutdownWoken
  BY <1>0, TaskStepQueue, CallbacksDiffer DEF ShutdownWoken
<1>4. CASE items' = items
  BY <1>0, <1>1, <1>2, <1>3, <1>4 DEF WorkerInv
<1>5. CASE Stage \notin Stopping /\ NoStop(items')
  <2>1. Stage \notin {"answer", "close publisher", "sleep", "ok"}
    BY <1>5 DEF Stopping
  <2>2. StopIsLast(items')
    BY <1>5, NoStopIsLast
  <2> QED BY <1>0, <1>1, <1>5, <2>1, <2>2 DEF WorkerInv
<1> QED BY <1>4, <1>5

\* So it keeps all of the order.
LEMMA AsideKeeps ==
  ASSUME General, Order, NEW t, NEW tasks, Aside(t, tasks), t # "worker", tasks \subseteq Task \ {"shutdown"},
         open' = open, items' = items \/ (Stage \notin Stopping /\ NoStop(items'))
  PROVE  Order'
BY AsideCancelled, AsideListener, AsideSampler, AsideRace, AsideWorker DEF Order

\* What is put before the recorder is to be stopped has no stop item.
LEMMA PutsNoStop ==
  ASSUME General, Order, Stage \notin Stopping
  PROVE  NoStop(items) /\ NoStop(Put(items, "data")) /\ NoStop(Append(Put(items, "data"), "finalize"))
<1>1. NoStop(items) /\ items \in Seq(Item)
  BY DEF Order, WorkerInv, Stopping, General, ItemsInv
<1>2. NoStop(Put(items, "data")) /\ Put(items, "data") \in Seq(Item)
  BY <1>1, PutNoStop, PutItems DEF General, ItemsInv, Item
<1> QED BY <1>1, <1>2, AppendNoStop

\* The worker keeps the order: with the stop item it answers the shutdown and ends.
LEMMA OrderWorker ==
  ASSUME General, Order, ~Failed', WorkerWrites \/ WorkerFinalizes \/ WorkerStops \/ WorkerWaits
  PROVE  Order'
<1>0. /\ Loops /\ Core /\ WorkerInv /\ items \in Seq(Item) /\ EndedInv
  BY DEF General, Core, Loops, Order, ItemsInv
<1>1. /\ "worker" \in Task /\ "worker" # "shutdown" /\ "shutdown" \in Task /\ "listener" \in Task
      /\ Runs(Wake("worker")) /\ Alive("worker")
      /\ save' = save
  BY <1>0, TaskNames, RunsOnce DEF WorkerWrites, WorkerFinalizes, WorkerStops, WorkerWaits, Resumed
<1>2. Wake("worker") \in Current /\ Wake("worker") \in Pending
  BY <1>0, <1>1, Running DEF Loops
<1>3. StopIsLast(items) /\ (Stage = "answer" => EndsInStop(items) /\ ~ShutdownWoken)
  BY <1>0, <1>1 DEF WorkerInv
<1>4. ASSUME NEW tasks, Aside("worker", tasks),
             Stage = "answer" => Wake("worker") \in Current' \/ ~Alive("worker")'
      PROVE  CancelledInv' /\ ListenerInv' /\ SamplerInv' /\ RaceInv'
  BY <1>4, AsideCancelled, AsideListener, AsideSampler, AsideRace
<1>5. CASE WorkerWrites \/ (WorkerFinalizes /\ Awaits("listener", "finalize"))
  <2>1. PICK tasks \in {{}, {"listener"}} : Went(tasks) /\ UNCHANGED <<at, cancelled>>
    <3>1. CASE WorkerWrites
      BY <1>0, <3>1, WorkerEffects DEF WorkerWrites
    <3>2. CASE WorkerFinalizes /\ Awaits("listener", "finalize")
      BY <1>0, <3>2, WorkerEffects
    <3> QED BY <1>5, <3>1, <3>2
  <2>2. /\ items # <<>> /\ items' = Tail(items) /\ Head(items) # "stop"
    BY <1>5 DEF WorkerWrites, WorkerFinalizes
  <2>3. Aside("worker", tasks)
    <3>1. at'["worker"] # "cancelled"
      BY <1>1, <2>1 DEF Alive, Ended
    <3>2. tasks \subseteq Task /\ "shutdown" \notin tasks
      BY <1>1
    <3> QED BY <1>1, <2>1, <3>1, <3>2 DEF Aside, TaskStep
  <2>4. Wake("worker") \in Current' /\ Wake("worker") \in Pending' /\ (ShutdownWoken' => ShutdownWoken)
    <3>1. /\ \A c : c \in Current' <=> c \in Current
          /\ \A c : c \in Pending' <=> c \in Pending \/ c \in Wakers(tasks)
      BY <2>1 DEF Went, Added
    <3>2. Wake("shutdown") \notin Wakers(tasks)
      BY CallbacksDiffer DEF Wakers
    <3> QED BY <1>2, <3>1, <3>2 DEF ShutdownWoken
  <2>5. CancelledInv' /\ ListenerInv' /\ SamplerInv' /\ RaceInv'
    BY <1>4, <2>3, <2>4
  <2>6. Stage' = Stage /\ (Alive("worker")' <=> Alive("worker"))
    BY <2>1 DEF Stage, Alive
  <2>7. /\ StopIsLast(items') /\ (NoStop(items) => NoStop(items'))
        /\ EndsInStop(items) => EndsInStop(items')
    BY <1>0, <1>3, <2>2, TakeBeforeStop
  <2>8. WorkerInv'
    BY <1>0, <1>1, <1>3, <2>4, <2>6, <2>7 DEF WorkerInv
  <2> QED BY <2>5, <2>8 DEF Order
<1>6. CASE WorkerFinalizes /\ ~Awaits("listener", "finalize")
  <2>1. Finished("worker", "error", {})
    BY <1>0, <1>6, WorkerEffects
  <2>2. at'["worker"] = "error"
    BY <1>0, <1>1, <2>1 DEF Finished, Core
  <2> QED BY <1>1, <2>2 DEF Failed
<1>7. CASE WorkerStops
  <2>1. /\ items # <<>> /\ items' = Tail(items) /\ Head(items) = "stop" /\ open' = FALSE
    BY <1>7 DEF WorkerStops
  <2>2. CASE Finished("worker", "error", {})
    <3>1. at'["worker"] = "error"
      BY <1>0, <1>1, <2>2 DEF Finished, Core
    <3> QED BY <1>1, <3>1 DEF Failed
  <2>3. CASE Awaits("shutdown", "answer") /\ Finished("worker", "ok", {"shutdown"})
    <3>1. Stage = "answer"
      BY <2>3 DEF Awaits, Stage
    <3>2. /\ at'["worker"] = "ok" /\ (\A u \in Task : u # "worker" => at'[u] = at[u])
          /\ cancelled' = cancelled \ {"worker"}
      BY <1>0, <1>1, <2>3 DEF Finished, Core
    <3>3. ~Alive("worker")' /\ Stage' = Stage
      BY <1>1, <3>2 DEF Alive, Ended, Stage
    <3>4. Aside("worker", {"shutdown"})
      BY <1>1, <2>3, <3>1, <3>2 DEF Aside, TaskStep, Ended
    <3>5. CancelledInv' /\ ListenerInv' /\ SamplerInv' /\ RaceInv'
      BY <1>4, <3>3, <3>4
    <3>6. items' = <<>>
      BY <1>0, <1>3, <2>1, TakeBeforeStop
    <3>7. StopIsLast(items') /\ NoStop(items')
      BY <3>6, NothingPut
    <3>8. WorkerInv'
      BY <2>1, <3>1, <3>3, <3>6, <3>7 DEF WorkerInv
    <3> QED BY <3>5, <3>8 DEF Order
  <2> QED BY <1>0, <1>7, <2>2, <2>3, WorkerEffects
<1>8. CASE WorkerWaits
  <2>1. Returned(Wake("worker"), {}) /\ UNCHANGED <<at, cancelled, items, open>> /\ items = <<>>
    BY <1>0, <1>8, WorkerEffects DEF WorkerWaits, recorder
  <2>2. Stage # "answer"
    BY <1>3, <2>1 DEF EndsInStop
  <2>3. Aside("worker", {})
    <3>1. at'["worker"] # "cancelled"
      BY <1>1, <2>1 DEF Alive, Ended
    <3> QED BY <1>1, <2>1, <3>1 DEF Aside, TaskStep
  <2>4. CancelledInv' /\ ListenerInv' /\ SamplerInv' /\ RaceInv'
    BY <1>4, <2>2, <2>3
  <2>5. Stage' = Stage /\ (Alive("worker")' <=> Alive("worker"))
    BY <2>1 DEF Stage, Alive
  <2>6. WorkerInv'
    BY <1>0, <1>1, <2>1, <2>2, <2>5 DEF WorkerInv
  <2> QED BY <2>4, <2>6 DEF Order
<1>9. WorkerFinalizes => Order'
  BY <1>5, <1>6
<1>10. WorkerWrites => Order'
  BY <1>5
<1> QED BY <1>7, <1>8, <1>9, <1>10

-----------------------------------------------------------------------------
\* A task that suspends again, and one that ends.
LEMMA AsideReturns ==
  ASSUME General, NEW t \in Task \ {"shutdown"}, Runs(Wake(t)), NEW tasks \in SUBSET (Task \ {"shutdown"}),
         Returned(Wake(t), tasks), Moved(t), cancelled' = cancelled \/ cancelled' = cancelled \ {t},
         t = "listener" => t \notin cancelled,
         save' = save \/ (save' = "running" /\ Stage \notin {"save"} \cup Later)
  PROVE  Aside(t, tasks)
<1>1. Core /\ Alive(t)
  BY RunsOnce DEF General, Core, Loops
<1>2. (\A u \in Task : u # t => at'[u] = at[u]) /\ (Alive(t)' <=> Alive(t))
  BY <1>1, MovedKeeps
<1>3. at'[t] # "cancelled"
  BY <1>1, <1>2 DEF Alive, Ended
<1> QED BY <1>1, <1>2, <1>3 DEF Aside, TaskStep

\* The same for a task that ends.
LEMMA AsideEnds ==
  ASSUME General, NEW t \in Task \ {"shutdown"}, Runs(Wake(t)), NEW tasks \in SUBSET (Task \ {"shutdown"}),
         NEW o \in Ended, Finished(t, o, tasks), o = "cancelled" => t \in cancelled /\ t # "listener",
         save' = save
  PROVE  Aside(t, tasks) /\ ~Alive(t)' /\ at'[t] = o
<1>1. Core /\ Alive(t)
  BY RunsOnce DEF General, Core, Loops
<1>2. (\A u \in Task : u # t => at'[u] = at[u]) /\ at'[t] = o /\ cancelled' = cancelled \ {t}
  BY <1>1 DEF Finished, Core
<1>3. ~Alive(t)'
  BY <1>2 DEF Alive
<1> QED BY <1>1, <1>2, <1>3 DEF Aside, TaskStep

\* The sampler keeps the order.
LEMMA OrderSampler ==
  ASSUME General, Order, SamplerSamples
  PROVE  Order'
<1>0. Loops /\ "sampler" \in Task \ {"shutdown"} /\ "worker" \in Task \ {"shutdown"} /\ "sampler" # "worker"
  BY TaskNames DEF General, Core, Loops
<1>1. Runs(Wake("sampler")) /\ Alive("sampler") /\ open' = open /\ save' = save
  BY <1>0, RunsOnce DEF SamplerSamples, Resumed
<1>2. PICK known \in BOOLEAN :
        /\ items' = IF known THEN Put(items, "data") ELSE items
        /\ \/ event /\ Finished("sampler", "ok", IF known THEN IfAlive("worker") ELSE {})
           \/ ~event /\ Returned(Wake("sampler"), IF known THEN IfAlive("worker") ELSE {}) /\ UNCHANGED <<at, cancelled>>
  BY <1>0, SamplerEffects
<1> DEFINE tasks == IF known THEN IfAlive("worker") ELSE {}
<1>3. tasks \in SUBSET (Task \ {"shutdown"})
  BY <1>0 DEF IfAlive
<1> HIDE DEF tasks
<1>4. Aside("sampler", tasks)
  <2>1. CASE Finished("sampler", "ok", tasks)
    BY <1>0, <1>1, <1>3, <2>1, AsideEnds DEF Ended
  <2>2. CASE Returned(Wake("sampler"), tasks) /\ UNCHANGED <<at, cancelled>>
    <3>1. Moved("sampler")
      BY <2>2 DEF Moved
    <3> QED BY <1>0, <1>1, <1>3, <2>2, <3>1, AsideReturns
  <2> QED BY <1>2, <2>1, <2>2 DEF tasks
<1>5. Stage \notin Stopping /\ NoStop(items')
  <2>1. Stage \notin Stopping
    BY <1>1 DEF Order, SamplerInv
  <2> QED BY <1>2, <2>1, PutsNoStop
<1> QED BY <1>0, <1>1, <1>3, <1>4, <1>5, AsideKeeps

\* While packets are handled the handler is not stopped.
LEMMA OrderListener ==
  ASSUME General, Order, PlainPacket \/ SessionStart \/ Classification \/ Finalized \/ \E r \in Receivers : PacketOfReceiver(r)
  PROVE  Order'
<1>0. Loops /\ "listener" \in Task \ {"shutdown"} /\ "worker" \in Task \ {"shutdown"} /\ "listener" # "worker"
      /\ Receivers \subseteq Task \ {"shutdown"}
  BY TaskNames DEF General, Core, Loops
<1>1. Runs(Wake("listener")) /\ "listener" \notin cancelled /\ open' = open /\ cancelled' = cancelled
  BY DEF PlainPacket, SessionStart, Classification, Finalized, PacketOfReceiver, ListenerRecords, Resumed, recorder
<1>2. Alive("listener")
  BY <1>0, <1>1, RunsOnce
<1>3. Stage \notin {"save"} \cup Later
  BY <1>1, <1>2 DEF Order, ListenerInv
<1>4. Stage \notin Stopping
  BY <1>3 DEF Later
<1>5. save' = save \/ save' = "running"
  BY DEF PlainPacket, SessionStart, Classification, Finalized, PacketOfReceiver
<1>6. NoStop(items')
  <2>1. items' \in {items, Put(items, "data"), Append(Put(items, "data"), "finalize")}
    BY DEF PlainPacket, SessionStart, Classification, Finalized, PacketOfReceiver, ListenerRecords, recorder
  <2> QED BY <1>4, <2>1, PutsNoStop
<1>7. Moved("listener")
  <2>1. CASE at' = at
    BY <2>1 DEF Moved
  <2>2. CASE Classification \/ Finalized
    <3>1. PICK p \in {"finalize", "recv"} : at' = [at EXCEPT !["listener"] = p]
      BY <2>2 DEF Classification, Finalized
    <3> QED BY <1>2, <3>1 DEF Moved, Points, Ended
  <2> QED BY <2>1, <2>2 DEF PlainPacket, SessionStart, PacketOfReceiver
<1>8. PICK tasks \in SUBSET (Task \ {"shutdown"}) : Returned(Wake("listener"), tasks)
  <2>1. CASE PlainPacket \/ SessionStart \/ Classification
    <3>1. IfAlive("worker") \in SUBSET (Task \ {"shutdown"})
      BY <1>0 DEF IfAlive
    <3> QED BY <1>0, <2>1, <3>1, ListenerEffects
  <2>2. CASE Finalized
    BY <1>0, <2>2, ListenerEffects
  <2>3. ASSUME NEW r \in Receivers, PacketOfReceiver(r)
        PROVE  \E tasks \in SUBSET (Task \ {"shutdown"}) : Returned(Wake("listener"), tasks)
    <3>1. (IfAlive("worker") \cup IF at[r] = "get" THEN {r} ELSE {}) \in SUBSET (Task \ {"shutdown"})
      BY <1>0 DEF IfAlive
    <3> QED BY <1>0, <2>3, <3>1, ListenerEffects
  <2> QED BY <2>1, <2>2, <2>3
<1>9. Aside("listener", tasks)
  BY <1>0, <1>1, <1>3, <1>5, <1>7, <1>8, AsideReturns
<1> QED BY <1>0, <1>1, <1>4, <1>6, <1>8, <1>9, AsideKeeps

\* A task of which nothing is put ends or suspends again.
LEMMA OrderEnds ==
  ASSUME General, Order, NEW t \in Task \ {"shutdown", "worker"}, Runs(Wake(t)), NEW o \in Ended, Finished(t, o, {}),
         o = "cancelled" => t \in cancelled /\ t # "listener", UNCHANGED <<save, items, open>>
  PROVE  Order'
<1>1. Aside(t, {})
  BY AsideEnds
<1> QED BY <1>1, AsideKeeps

\* And for one that suspends again.
LEMMA OrderReturns ==
  ASSUME General, Order, NEW t \in Task \ {"shutdown", "worker", "listener"}, Runs(Wake(t)), Returned(Wake(t), {}), Moved(t),
         cancelled' = cancelled \/ cancelled' = cancelled \ {t}, UNCHANGED <<save, items, open>>
  PROVE  Order'
<1>1. Aside(t, {})
  BY AsideReturns
<1> QED BY <1>1, AsideKeeps

\* The cancelled listener, the web server, the receivers and the cancelled keep the order.
LEMMA OrderOthers ==
  ASSUME General, Order,
         \/ ListenerCancelled \/ WebStarts \/ WebEnds
         \/ \E r \in Receivers : ReceiverTakes(r) \/ ReceiverLoops(r)
         \/ \E t \in Task : Cancelled(t)
  PROVE  Order'
<1>0. /\ Loops /\ Core /\ "listener" \in Task \ {"shutdown", "worker"} /\ "web" \in Task \ {"shutdown", "worker", "listener"}
      /\ Receivers \subseteq Task \ {"shutdown", "worker", "listener"}
  BY TaskNames DEF General, Core, Loops
<1>1. ASSUME ListenerCancelled PROVE Order'
  <2>1. Finished("listener", "ok", {}) /\ Runs(Wake("listener")) /\ UNCHANGED <<save, items, open>>
    BY <1>0, <1>1, ListenerEffects DEF ListenerCancelled, recorder
  <2> QED BY <1>0, <2>1, OrderEnds DEF Ended
<1>2. ASSUME WebStarts \/ WebEnds PROVE Order'
  <2>1. Runs(Wake("web")) /\ UNCHANGED <<save, items, open>>
    BY <1>2 DEF WebStarts, WebEnds, Resumed, recorder
  <2>2. ASSUME NEW o \in {"ok", "error", "refused"}, Finished("web", o, {}) PROVE Order'
    BY <1>0, <2>1, <2>2, OrderEnds DEF Ended
  <2>3. ASSUME Returned(Wake("web"), {}), at' = [at EXCEPT !["web"] = "serving"], cancelled' = cancelled PROVE Order'
    <3>1. Alive("web")
      BY <1>0, <2>1, RunsOnce
    <3>2. Moved("web")
      BY <2>3, <3>1 DEF Moved, Points, Ended
    <3> QED BY <1>0, <2>1, <2>3, <3>2, OrderReturns
  <2> QED BY <1>0, <1>2, <2>2, <2>3, WebEffects
<1>3. ASSUME NEW r \in Receivers, ReceiverTakes(r) \/ ReceiverLoops(r) PROVE Order'
  <2>1. Runs(Wake(r)) /\ UNCHANGED <<save, items, open>>
    BY <1>3 DEF ReceiverTakes, ReceiverLoops, Resumed, recorder
  <2>2. CASE ReceiverLoops(r) /\ event
    <3>1. Finished(r, "ok", {})
      BY <1>0, <2>2, ReceiverEffects
    <3> QED BY <1>0, <2>1, <3>1, OrderEnds DEF Ended
  <2>3. CASE ReceiverTakes(r) \/ (ReceiverLoops(r) /\ ~event)
    <3>1. Returned(Wake(r), {}) /\ Alive(r)
      BY <1>0, <2>1, <2>3, ReceiverEffects, RunsOnce
    <3>2. (cancelled' = cancelled \/ cancelled' = cancelled \ {r}) /\ \E p \in {"busy", "get"} : at' = [at EXCEPT ![r] = p]
      BY <2>3 DEF ReceiverTakes, ReceiverLoops
    <3>3. Moved(r)
      BY <3>1, <3>2 DEF Moved, Points, Ended
    <3> QED BY <1>0, <2>1, <3>1, <3>2, <3>3, OrderReturns
  <2> QED BY <1>3, <2>2, <2>3
<1>4. ASSUME NEW t \in Task, Cancelled(t) PROVE Order'
  <2>1. Runs(Wake(t)) /\ t \in cancelled /\ t # "listener" /\ UNCHANGED <<save, items, open>>
    BY <1>4 DEF Cancelled, recorder
  <2>2. t \in {"sampler", "publisher"}
    BY <2>1 DEF Order, CancelledInv
  <2>3. Finished(t, "cancelled", {})
    BY <1>0, <1>4, CancelledEffects
  <2> QED BY <1>4, <2>1, <2>2, <2>3, OrderEnds DEF Ended
<1> QED BY <1>1, <1>2, <1>3, <1>4

-----------------------------------------------------------------------------
\* What a step may not do to the race: bring the loop's end nearer, take the shutdown back.
NoNearer ==
    /\ at'["sampler"] = "cancelled" => at["sampler"] = "cancelled"
    /\ \A c \in {ChildDone("sampler"), Wake("main"), StopLoop} :
         (c \in Pending' => c \in Pending) /\ (c \in Current' => c \in Current)
    /\ phase' = "stopping" => phase = "stopping"
NotBack ==
    /\ (Soon1 => Soon1') /\ (Reached1 => Reached1') /\ (Reached2 => Reached2')
    /\ (Soon2 => Soon2' \/ Reached3') /\ (Reached3 => Reached3')
    /\ (Soon3 => Soon3' \/ Reached4') /\ (Reached4 => Reached4')

\* Such a step keeps the race; it is over when the worker has ended.
LEMMA RaceKept ==
  ASSUME RaceInv, NoNearer, NotBack
  PROVE  RaceInv'
BY DEF RaceInv, NoNearer, NotBack

LEMMA RaceWon ==
  ASSUME ~Alive("worker")'
  PROVE  RaceInv'
<1>1. Reached4'
  BY DEF Reached4
<1>2. Reached4' => RaceInv'
  BY NothingLate, PTL
<1> QED BY <1>1, <1>2

\* The shutdown at its next point, in the same callback or when it is woken again.
Onward(p, tasks) ==
    /\ at' = [at EXCEPT !["shutdown"] = p] /\ p \in Points
    /\ tasks \in SUBSET (Task \ {"shutdown"})
    /\ Runs(Wake("shutdown"))
    /\ \/ Went(tasks)
       \/ Returned(Wake("shutdown"), tasks) /\ p \notin WithinCallback
       \/ Finished("shutdown", "ok", tasks) /\ p = "ok"

\* What the shutdown's step leaves of the loop and of the other tasks.
LEMMA OnwardKeeps ==
  ASSUME General, Order, NEW p, NEW tasks, Onward(p, tasks)
  PROVE  /\ Stage' = p
         /\ \A u \in Task : u # "shutdown" => at'[u] = at[u] /\ (Alive(u)' <=> Alive(u))
         /\ SamplerJoined \notin Pending /\ SamplerJoined \notin Pending' /\ ShutdownWoken /\ Wake("shutdown") \in Current
         /\ NoNearer
         /\ p \in WithinCallback => Runs(Wake("shutdown"))'
         /\ ~Went(tasks) => ~ShutdownWoken'
         /\ \A u \in tasks : Wake(u) \in Pending'
<1>0. Core /\ QueueInv /\ "shutdown" \in Task /\ "sampler" \in Task /\ "sampler" # "shutdown"
  BY TaskNames DEF General, Core
<1>1. /\ Stage' = p
      /\ \A u \in Task : u # "shutdown" => at'[u] = at[u] /\ (Alive(u)' <=> Alive(u))
  BY <1>0 DEF Onward, Core, Stage, Alive
<1>2. Wake("shutdown") \in Pending /\ Wake("shutdown") \in Current
  BY <1>0, Running DEF Onward
<1>3. SamplerJoined \notin Pending
  BY <1>2 DEF Order, SamplerInv, ShutdownWoken
<1>4. /\ phase' = phase
      /\ \A c \in Pending' : c \in Pending \/ c \in Wakers(tasks) \/ c = ChildDone("shutdown")
      /\ \A c \in Current' : c \in Current
      /\ \A c \in Wakers(tasks) : c \in Pending'
      /\ p \in WithinCallback => Runs(Wake("shutdown"))'
  BY DEF Onward, Went, Added, Returned, Finished, Replaced, WithinCallback
<1>5. \A c \in Wakers(tasks) : \E u \in tasks : c = Wake(u)
  BY DEF Wakers
<1>6. tasks \subseteq Task /\ "shutdown" \notin tasks /\ "main" \notin tasks
  BY TaskNames DEF Onward
<1>7. /\ \A c \in {ChildDone("sampler"), Wake("main"), StopLoop, SamplerJoined} : c \in Pending' => c \in Pending
  BY <1>4, <1>5, <1>6, CallbacksDiffer
<1>8. ~Went(tasks) => ~ShutdownWoken'
  BY <1>5, <1>6, CallbacksDiffer DEF Onward, Returned, Finished, Replaced, ShutdownWoken
<1>9. \A u \in tasks : Wake(u) \in Pending'
  BY <1>4 DEF Wakers
<1> QED BY <1>0, <1>1, <1>2, <1>3, <1>4, <1>7, <1>8, <1>9 DEF NoNearer, ShutdownWoken

\* Before the sampler is cancelled: the worker is there and the race has not begun.
LEMMA OnwardEarly ==
  ASSUME General, Order, NEW p, NEW tasks, Onward(p, tasks),
         Stage \in Early \cup {"save", "stop service"},
         p \in (Early \ {"receive"}) \cup {"save", "stop service", "sampler", "stop recorder"},
         UNCHANGED <<items, open, save>>,
         cancelled' \subseteq cancelled \cup {"listener", "sampler"},
         "sampler" \in cancelled' => p = "sampler",
         p = "stop recorder" => ~Alive("sampler"),
         p = "sampler" => ~Went(tasks),
         p \in {"save"} \cup Later => "listener" \in cancelled' \/ ~Alive("listener"),
         p \in Later => save # "running",
         p = "save" => ~Went(tasks)
  PROVE  Order'
<1>0. Core /\ CancelledInv /\ ListenerInv /\ SamplerInv /\ WorkerInv /\ RaceInv
  BY DEF General, Order
<1>1. /\ Stage' = p
      /\ \A u \in Task : u # "shutdown" => at'[u] = at[u] /\ (Alive(u)' <=> Alive(u))
      /\ SamplerJoined \notin Pending /\ SamplerJoined \notin Pending'
      /\ NoNearer
      /\ p \in WithinCallback => Runs(Wake("shutdown"))'
      /\ ~Went(tasks) => ~ShutdownWoken'
  BY OnwardKeeps
<1>2. /\ "shutdown" \in Task /\ {"worker", "sampler", "listener", "publisher"} \subseteq Task \ {"shutdown"}
  BY TaskNames
<1>3. at'["shutdown"] = p /\ p \notin Ended
  BY <1>1 DEF Stage, Early, Ended
<1>4. Alive("worker") /\ Alive("worker")'
  BY <1>0, <1>1, <1>2 DEF WorkerInv, Early
<1>5. /\ Stage \notin {"sleep", "ok"} /\ Stage \notin Stopping /\ Stage # "sampler"
      /\ p \notin {"answer", "close publisher", "sleep", "ok"}
  BY DEF Early, Stopping
<1>6. CancelledInv'
  <2>1. cancelled' \subseteq {"listener", "sampler", "publisher"} /\ "publisher" \notin cancelled'
    BY <1>0, <1>5 DEF CancelledInv
  <2>2. \A t \in Task : at'[t] = "cancelled" => t \in {"sampler", "publisher"}
    BY <1>0, <1>1, <1>2, <1>3 DEF CancelledInv, Ended
  <2>3. at'["publisher"] # "cancelled"
    BY <1>0, <1>1, <1>2, <1>5 DEF CancelledInv
  <2>4. p \in Early \cup {"save"} \cup Later
    BY DEF Later, Stopping
  <2> QED BY <1>1, <2>1, <2>2, <2>3, <2>4 DEF CancelledInv
<1>7. ListenerInv'
  BY <1>0, <1>1, <1>2 DEF ListenerInv
<1>8. SamplerInv'
  BY <1>1, <1>2, <1>5 DEF SamplerInv, Stopping
<1>9. WorkerInv'
  BY <1>0, <1>1, <1>4, <1>5 DEF WorkerInv, Stopping
<1>10. RaceInv'
  <2>1. ~Soon1 /\ ~Soon2 /\ ~Soon3 /\ ~Reached1 /\ ~Reached2 /\ ~Reached3 /\ ~Reached4
    <3>1. SamplerJoined \notin Current
      BY <1>0, <1>1, CurrentIsPending DEF Core
    <3> QED BY <1>1, <1>4, <1>5, <3>1 DEF Soon1, Soon2, Soon3, Reached1, Reached2, Reached3, Reached4, Stopping
  <2>2. NotBack
    BY <2>1 DEF NotBack
  <2> QED BY <1>0, <1>1, <2>2, RaceKept
<1> QED BY <1>6, <1>7, <1>8, <1>9, <1>10 DEF Order

-----------------------------------------------------------------------------
\* The shutdown keeps the order until it has cancelled the sampler.
LEMMA OrderStopsFirst ==
  ASSUME General, Order, ShutdownReceives \/ StopsWeb \/ StopsHandler \/ StopsService
  PROVE  Order'
<1>0. /\ Loops /\ CancelledInv /\ ListenerInv /\ at \in [Task -> Points] /\ "shutdown" \in Task
      /\ Receivers \subseteq Task \ {"shutdown"} /\ {"listener", "sampler"} \subseteq Task \ {"shutdown"}
  BY TaskNames DEF General, Core, Loops, Order
<1>1. ASSUME ShutdownReceives PROVE Order'
  <2>1. /\ Stage = "receive" /\ Runs(Wake("shutdown")) /\ Moves("stop web") /\ cancelled' = cancelled \ {"shutdown"}
        /\ UNCHANGED <<items, open, save>> /\ Went({r \in Receivers : at[r] = "get"})
    BY <1>0, <1>1, ShutdownEffects DEF ShutdownReceives, Stage, recorder
  <2>2. Onward("stop web", {r \in Receivers : at[r] = "get"})
    BY <1>0, <2>1 DEF Onward, Moves, Points
  <2>3. "sampler" \notin cancelled
    BY <1>0, <2>1 DEF CancelledInv
  <2> QED BY <2>1, <2>2, <2>3, OnwardEarly DEF Early, Later, Stopping
<1>2. ASSUME StopsWeb PROVE Order'
  <2>1. /\ Stage = "stop web" /\ Runs(Wake("shutdown")) /\ UNCHANGED <<cancelled, items, open, save>>
    BY <1>2 DEF StopsWeb, ShutdownAt, Resumed, Stage, recorder
  <2>2. "sampler" \notin cancelled
    BY <1>0, <2>1 DEF CancelledInv
  <2>3. CASE Moves("stop handler") /\ Went({})
    <3>1. Onward("stop handler", {})
      BY <2>1, <2>3 DEF Onward, Moves, Points
    <3> QED BY <2>1, <2>2, <3>1, OnwardEarly DEF Early, Later, Stopping
  <2>4. CASE Moves("web") /\ Returned(Wake("shutdown"), {})
    <3>1. Onward("web", {})
      BY <2>1, <2>4 DEF Onward, Moves, Points, WithinCallback
    <3> QED BY <2>1, <2>2, <3>1, OnwardEarly DEF Early, Later, Stopping
  <2> QED BY <1>0, <1>2, <2>3, <2>4, ShutdownEffects
<1>3. ASSUME StopsHandler PROVE Order'
  <2>1. /\ Stage = "stop handler" /\ Runs(Wake("shutdown")) /\ UNCHANGED <<items, open, save>>
    BY <1>3 DEF StopsHandler, ShutdownAt, Resumed, Stage, recorder
  <2>2. "sampler" \notin cancelled
    BY <1>0, <2>1 DEF CancelledInv
  <2> DEFINE tasks == IfAlive("listener")
  <2>3. /\ cancelled' = cancelled \cup tasks
        /\ \/ save = "running" /\ Moves("save") /\ Returned(Wake("shutdown"), tasks)
           \/ save # "running" /\ Moves("stop service") /\ Went(tasks)
    BY <1>0, <1>3, ShutdownEffects
  <2>4. /\ tasks \subseteq {"listener"} /\ tasks \in SUBSET (Task \ {"shutdown"})
        /\ "listener" \in cancelled' \/ ~Alive("listener")
    BY <1>0, <2>3 DEF IfAlive
  <2> HIDE DEF tasks
  <2>5. "sampler" \notin cancelled' /\ cancelled' \subseteq cancelled \cup {"listener", "sampler"}
    BY <2>2, <2>3, <2>4
  <2>6. CASE save = "running" /\ Moves("save") /\ Returned(Wake("shutdown"), tasks)
    <3>1. Onward("save", tasks)
      BY <2>1, <2>4, <2>6 DEF Onward, Moves, Points, WithinCallback
    <3>2. ~Went(tasks)
      BY <2>1, <2>4, <2>6, <1>0, CallbacksDiffer, Running DEF Went, Added, Returned, Replaced, Wakers, Loops
    <3> QED BY <2>1, <2>4, <2>5, <3>1, <3>2, OnwardEarly DEF Early, Later, Stopping
  <2>7. CASE save # "running" /\ Moves("stop service") /\ Went(tasks)
    <3>1. Onward("stop service", tasks)
      BY <2>1, <2>4, <2>7 DEF Onward, Moves, Points
    <3> QED BY <2>1, <2>4, <2>5, <2>7, <3>1, OnwardEarly DEF Early, Later, Stopping
  <2> QED BY <2>3, <2>6, <2>7
<1>4. ASSUME StopsService PROVE Order'
  <2>1. /\ Stage = "stop service" /\ Runs(Wake("shutdown")) /\ UNCHANGED <<items, open, save>>
    BY <1>4 DEF StopsService, ShutdownAt, Resumed, Stage, recorder
  <2>2. /\ "sampler" \notin cancelled /\ save # "running"
        /\ "listener" \in cancelled \/ ~Alive("listener")
    BY <1>0, <2>1 DEF CancelledInv, ListenerInv, Later
  <2>3. CASE cancelled' = cancelled \cup {"sampler"} /\ Moves("sampler") /\ Returned(Wake("shutdown"), {"sampler"})
    <3>1. Onward("sampler", {"sampler"})
      BY <1>0, <2>1, <2>3 DEF Onward, Moves, Points, WithinCallback
    <3>2. ~Went({"sampler"})
      BY <2>1, <2>3, <1>0, CallbacksDiffer, Running DEF Went, Added, Returned, Replaced, Wakers, Loops
    <3> QED BY <2>1, <2>2, <2>3, <3>1, <3>2, OnwardEarly
  <2>4. CASE ~Alive("sampler") /\ UNCHANGED cancelled /\ Moves("stop recorder") /\ Went({})
    <3>1. Onward("stop recorder", {})
      BY <2>1, <2>4 DEF Onward, Moves, Points
    <3> QED BY <2>1, <2>2, <2>4, <3>1, OnwardEarly
  <2> QED BY <1>0, <1>4, <2>3, <2>4, ShutdownEffects
<1> QED BY <1>1, <1>2, <1>3, <1>4

\* An await of the shutdown is over.
LEMMA OrderResumes ==
  ASSUME General, Order, ShutdownResumes
  PROVE  Order'
<1>0. /\ Loops /\ Core /\ CancelledInv /\ ListenerInv /\ SamplerInv /\ WorkerInv /\ RaceInv
      /\ "shutdown" \in Task /\ {"worker", "sampler", "listener", "publisher"} \subseteq Task \ {"shutdown"}
  BY TaskNames DEF General, Core, Loops, Order
<1>1. /\ Stage \in {"web", "save", "sampler", "answer"} /\ Runs(Wake("shutdown"))
      /\ at' = [at EXCEPT !["shutdown"] = NextStage[Stage]] /\ Went({})
      /\ UNCHANGED <<cancelled, items, open, save>>
  BY <1>0, NextStages, ShutdownEffects DEF ShutdownResumes, Resumed, Stage, Moves, recorder
<1>2. Onward(NextStage[Stage], {})
  BY <1>1, NextStages DEF Onward, Points
<1>3. /\ Stage' = NextStage[Stage]
      /\ \A u \in Task : u # "shutdown" => at'[u] = at[u] /\ (Alive(u)' <=> Alive(u))
      /\ SamplerJoined \notin Pending /\ SamplerJoined \notin Pending' /\ ShutdownWoken /\ Wake("shutdown") \in Current
      /\ NoNearer
      /\ NextStage[Stage] \in WithinCallback => Runs(Wake("shutdown"))'
  BY <1>2, OnwardKeeps
<1>4. CASE Stage = "web"
  <2>1. "sampler" \notin cancelled
    BY <1>0, <1>4 DEF CancelledInv
  <2> QED BY <1>1, <1>2, <1>4, <2>1, NextStages, OnwardEarly DEF Early, Later, Stopping
<1>5. CASE Stage = "save"
  <2>1. "sampler" \notin cancelled
    BY <1>0, <1>5 DEF CancelledInv
  <2>2. save # "running" /\ ("listener" \in cancelled \/ ~Alive("listener"))
    BY <1>0, <1>3, <1>5 DEF ListenerInv
  <2> QED BY <1>1, <1>2, <1>5, <2>1, <2>2, NextStages, OnwardEarly DEF Early, Later, Stopping
<1>6. CASE Stage \in {"sampler", "answer"}
  <2>1. /\ Stage' \in {"stop recorder", "close publisher"} /\ Runs(Wake("shutdown"))'
        /\ (Stage' = "stop recorder" <=> Stage = "sampler") /\ at'["shutdown"] = Stage'
    BY <1>3, <1>6, NextStages DEF WithinCallback, Stage
  <2>2. ~Alive("sampler") /\ (Stage = "answer" => ~Alive("worker"))
    BY <1>0, <1>3, <1>6 DEF SamplerInv, WorkerInv, Stopping
  <2>3. "sampler" \notin cancelled
    BY <1>0, <2>2 DEF Loops, EndedInv
  <2>4. CancelledInv'
    <3>1. \A t \in Task : at'[t] = "cancelled" => t \in {"sampler", "publisher"}
      BY <1>0, <1>3, <2>1 DEF CancelledInv
    <3>2. "publisher" \notin cancelled /\ at'["publisher"] # "cancelled"
      BY <1>0, <1>3, <1>6 DEF CancelledInv
    <3>3. cancelled' = cancelled /\ cancelled \subseteq {"listener", "sampler", "publisher"}
      BY <1>0, <1>1 DEF CancelledInv
    <3> QED BY <2>1, <2>3, <3>1, <3>2, <3>3 DEF CancelledInv, Later, Stopping
  <2>5. ListenerInv'
    BY <1>0, <1>1, <1>3, <1>6, <2>1 DEF ListenerInv, Later, Stopping
  <2>6. SamplerInv'
    BY <1>0, <1>3, <2>1, <2>2 DEF SamplerInv
  <2>7. WorkerInv'
    <3>1. CASE Stage = "sampler"
      <4>1. Alive("worker")
        BY <1>0, <3>1 DEF WorkerInv
      <4> QED BY <1>0, <1>1, <1>3, <2>1, <3>1, <4>1 DEF WorkerInv
    <3>2. CASE Stage = "answer"
      <4>1. items' = <<>> /\ ~open' /\ ~Alive("worker")' /\ Stage' = "close publisher"
        BY <1>0, <1>1, <1>3, <1>6, <2>1, <2>2, <3>2 DEF WorkerInv
      <4>2. StopIsLast(items') /\ NoStop(items')
        BY <4>1, NothingPut
      <4> QED BY <4>1, <4>2 DEF WorkerInv
    <3> QED BY <1>6, <3>1, <3>2
  <2>8. RaceInv'
    <3>1. CASE Stage = "sampler"
      <4>1. SamplerJoined \notin Current /\ Stage' = "stop recorder" /\ (Alive("worker")' <=> Alive("worker"))
        BY <1>0, <1>3, <2>1, <3>1, CurrentIsPending DEF Core
      <4>2. NotBack
        BY <3>1, <4>1 DEF NotBack, Soon1, Soon2, Soon3, Reached1, Reached2, Reached3, Reached4
      <4> QED BY <1>0, <1>3, <4>2, RaceKept
    <3>2. CASE Stage = "answer"
      <4>1. ~Alive("worker")'
        BY <1>0, <1>3, <2>2, <3>2
      <4> QED BY <4>1, RaceWon
    <3> QED BY <1>6, <3>1, <3>2
  <2> QED BY <2>4, <2>5, <2>6, <2>7, <2>8 DEF Order
<1> QED BY <1>1, <1>4, <1>5, <1>6

\* The recorder's stop item, and what comes after its answer.
LEMMA StopPut ==
  ASSUME NEW q \in Seq(Item), NoStop(q)
  PROVE  StopIsLast(Append(q, "stop")) /\ EndsInStop(Append(q, "stop"))
<1> DEFINE w == Append(q, "stop")
<1>1. "stop" \in Item /\ Len(q) \in Nat
  BY DEF Item
<1>2. /\ w # <<>> /\ Len(w) = Len(q) + 1 /\ w[Len(q) + 1] = "stop"
      /\ \A i \in 1..Len(q) : w[i] = q[i]
  BY <1>1, AppendProperties
<1> HIDE DEF w
<1>3. \A i \in 1..Len(w) : i \in 1..Len(q) \/ i = Len(q) + 1
  BY <1>1, <1>2
<1>4. StopIsLast(w)
  BY <1>2, <1>3 DEF StopIsLast, NoStop
<1>5. EndsInStop(w)
  BY <1>2 DEF EndsInStop
<1> QED BY <1>4, <1>5 DEF w

\* It keeps the order from the recorder on.
LEMMA OrderStopsLast ==
  ASSUME General, Order, StopsRecorder \/ ClosesPublisher \/ ShutdownEnds
  PROVE  Order'
<1>0. /\ Loops /\ Core /\ CancelledInv /\ ListenerInv /\ SamplerInv /\ WorkerInv /\ RaceInv /\ items \in Seq(Item)
      /\ "shutdown" \in Task /\ {"worker", "sampler", "listener", "publisher"} \subseteq Task \ {"shutdown"}
  BY TaskNames DEF General, Core, Loops, Order, ItemsInv
<1>1. ASSUME NEW p \in {"answer", "sleep", "ok"}, NEW tasks, Onward(p, tasks), ~Went(tasks),
             Stage \in Stopping, save' = save, p = "answer" \/ ~Alive("worker"),
             p = "answer" => Stage = "stop recorder",
             cancelled' \subseteq cancelled \cup {"publisher"}, "listener" \in cancelled => "listener" \in cancelled',
             "publisher" \in cancelled' => p \in {"sleep", "ok"}, Stage \in {"sleep", "ok"} => p \in {"sleep", "ok"}
      PROVE  CancelledInv' /\ ListenerInv' /\ SamplerInv' /\ RaceInv'
  <2>1. /\ Stage' = p
        /\ \A u \in Task : u # "shutdown" => at'[u] = at[u] /\ (Alive(u)' <=> Alive(u))
        /\ SamplerJoined \notin Pending /\ SamplerJoined \notin Pending'
        /\ NoNearer /\ ~ShutdownWoken'
    BY <1>1, OnwardKeeps
  <2>2. at'["shutdown"] = p
    BY <2>1 DEF Stage
  <2>3. ~Alive("sampler") /\ Stage \in Later
    BY <1>0, <1>1 DEF SamplerInv, Later
  <2>4. "sampler" \notin cancelled'
    BY <1>0, <1>1, <2>3 DEF Loops, EndedInv
  <2>5. CancelledInv'
    <3>1. \A t \in Task : at'[t] = "cancelled" => t \in {"sampler", "publisher"}
      BY <1>0, <2>1, <2>2 DEF CancelledInv
    <3>2. at'["publisher"] = "cancelled" => p \in {"sleep", "ok"}
      BY <1>0, <1>1, <2>1 DEF CancelledInv
    <3>3. cancelled' \subseteq {"listener", "sampler", "publisher"}
      BY <1>0, <1>1 DEF CancelledInv
    <3> QED BY <1>1, <2>1, <2>4, <3>1, <3>2, <3>3 DEF CancelledInv, Later, Stopping, WithinCallback
  <2>6. ListenerInv'
    BY <1>0, <1>1, <2>1, <2>3 DEF ListenerInv
  <2>7. SamplerInv'
    BY <1>0, <2>1, <2>3 DEF SamplerInv
  <2>8. RaceInv'
    <3>1. CASE ~Alive("worker")
      <4>1. ~Alive("worker")'
        BY <1>0, <2>1, <3>1
      <4> QED BY <4>1, RaceWon
    <3>2. CASE p = "answer" /\ Stage = "stop recorder"
      <4>1. SamplerJoined \notin Current /\ Stage' = "answer" /\ (Alive("worker")' <=> Alive("worker"))
        BY <1>0, <2>1, <3>2, CurrentIsPending DEF Core
      <4>2. NotBack
        BY <3>2, <4>1 DEF NotBack, Soon1, Soon2, Soon3, Reached1, Reached2, Reached3, Reached4
      <4> QED BY <1>0, <2>1, <4>2, RaceKept
    <3> QED BY <1>1, <3>1, <3>2
  <2> QED BY <2>5, <2>6, <2>7, <2>8
<1>2. ASSUME NEW tasks \in SUBSET (Task \ {"shutdown"}), Runs(Wake("shutdown")),
             Returned(Wake("shutdown"), tasks) \/ Finished("shutdown", "ok", tasks)
      PROVE  ~Went(tasks)
  BY <1>0, <1>2, CallbacksDiffer, Running DEF Went, Added, Returned, Finished, Replaced, Wakers, Loops
<1>3. ASSUME StopsRecorder PROVE Order'
  <2>1. /\ Stage = "stop recorder" /\ Runs(Wake("shutdown")) /\ Moves("answer") /\ items' = Append(items, "stop")
        /\ UNCHANGED <<cancelled, open, save>> /\ Returned(Wake("shutdown"), IfAlive("worker"))
    BY <1>0, <1>3, ShutdownEffects DEF StopsRecorder, ShutdownAt, Resumed, Stage
  <2>2. IfAlive("worker") \in SUBSET (Task \ {"shutdown"})
    BY <1>0 DEF IfAlive
  <2>3. Onward("answer", IfAlive("worker"))
    BY <2>1, <2>2 DEF Onward, Moves, Points, WithinCallback
  <2>4. ~Went(IfAlive("worker"))
    BY <1>2, <2>1, <2>2
  <2>5. "publisher" \notin cancelled
    BY <1>0, <2>1 DEF CancelledInv
  <2>6. CancelledInv' /\ ListenerInv' /\ SamplerInv' /\ RaceInv'
    BY <1>1, <2>1, <2>3, <2>4, <2>5 DEF Stopping
  <2>7. Alive("worker") /\ NoStop(items)
    BY <1>0, <2>1 DEF WorkerInv
  <2>8. Stage' = "answer" /\ ~ShutdownWoken' /\ Wake("worker") \in Pending' /\ Alive("worker")'
    BY <1>0, <2>3, <2>4, <2>7, OnwardKeeps DEF IfAlive
  <2>9. StopIsLast(items') /\ EndsInStop(items')
    BY <1>0, <2>1, <2>7, StopPut
  <2>10. WorkerInv'
    BY <2>8, <2>9 DEF WorkerInv
  <2> QED BY <2>6, <2>10 DEF Order
<1>4. ASSUME NEW p \in {"sleep", "ok"}, Stage' = p, Alive("worker")' <=> Alive("worker"),
             Stage \in {"close publisher", "sleep"}, UNCHANGED <<items, open>>
      PROVE  WorkerInv'
  <2>1. ~Alive("worker") /\ NoStop(items) /\ items = <<>> /\ ~open
    BY <1>0, <1>4 DEF WorkerInv
  <2> QED BY <1>0, <1>4, <2>1 DEF WorkerInv
<1>5. ASSUME ClosesPublisher PROVE Order'
  <2>1. /\ Stage = "close publisher" /\ Runs(Wake("shutdown")) /\ Moves("sleep")
        /\ UNCHANGED <<items, open, save>> /\ Returned(Wake("shutdown"), IfAlive("publisher"))
        /\ cancelled' = cancelled \cup IfAlive("publisher")
    BY <1>0, <1>5, ShutdownEffects DEF ClosesPublisher, ShutdownAt, Resumed, Stage, recorder
  <2>2. IfAlive("publisher") \in SUBSET (Task \ {"shutdown"}) /\ IfAlive("publisher") \subseteq {"publisher"}
    BY <1>0 DEF IfAlive
  <2>3. Onward("sleep", IfAlive("publisher"))
    BY <2>1, <2>2 DEF Onward, Moves, Points, WithinCallback
  <2>4. ~Went(IfAlive("publisher"))
    BY <1>2, <2>1, <2>2
  <2>5. ~Alive("worker")
    BY <1>0, <2>1 DEF WorkerInv
  <2>6. CancelledInv' /\ ListenerInv' /\ SamplerInv' /\ RaceInv'
    BY <1>1, <2>1, <2>2, <2>3, <2>4, <2>5 DEF Stopping
  <2>7. Stage' = "sleep" /\ (Alive("worker")' <=> Alive("worker"))
    BY <1>0, <2>3, OnwardKeeps
  <2>8. WorkerInv'
    BY <1>4, <2>1, <2>7
  <2> QED BY <2>6, <2>8 DEF Order
<1>6. ASSUME ShutdownEnds PROVE Order'
  <2>1. /\ Stage = "sleep" /\ Runs(Wake("shutdown")) /\ UNCHANGED <<items, open, save>> /\ Finished("shutdown", "ok", {})
    BY <1>0, <1>6, ShutdownEffects DEF ShutdownEnds, ShutdownAt, Resumed, Stage, recorder
  <2>2. at' = [at EXCEPT !["shutdown"] = "ok"] /\ cancelled' = cancelled \ {"shutdown"}
    BY <2>1 DEF Finished
  <2>3. Onward("ok", {})
    BY <2>1, <2>2 DEF Onward, Points, Ended
  <2>4. ~Went({})
    BY <1>2, <2>1
  <2>5. ~Alive("worker")
    BY <1>0, <2>1 DEF WorkerInv
  <2>6. CancelledInv' /\ ListenerInv' /\ SamplerInv' /\ RaceInv'
    BY <1>1, <2>1, <2>2, <2>3, <2>4, <2>5 DEF Stopping
  <2>7. Stage' = "ok" /\ (Alive("worker")' <=> Alive("worker"))
    BY <1>0, <2>3, OnwardKeeps
  <2>8. WorkerInv'
    BY <1>4, <2>1, <2>7
  <2> QED BY <2>6, <2>8 DEF Order
<1> QED BY <1>3, <1>5, <1>6

-----------------------------------------------------------------------------
\* Steps of the loop and of the main task, and what is polled: no task moves.
LEMMA LoopKeeps ==
  ASSUME General, Order, UNCHANGED <<at, cancelled, items, open>>, save' \in {save, "done", "late"},
         ~Runs(Wake("shutdown")),
         Wake("worker") \in Pending => Wake("worker") \in Pending',
         SamplerJoined \in Pending' => SamplerJoined \in Pending,
         ShutdownWoken' => \/ ShutdownWoken
                           \/ Stage = "sampler" /\ ~Alive("sampler") /\ SamplerJoined \notin Pending'
                           \/ Stage \in {"receive", "web", "sleep"}
                           \/ Stage = "save" /\ save' # "running"
  PROVE  CancelledInv' /\ ListenerInv' /\ SamplerInv' /\ WorkerInv'
<1>1. Stage' = Stage /\ \A t : Alive(t)' <=> Alive(t)
  BY StillProgress DEF Stage
<1>2. CancelledInv /\ ListenerInv /\ SamplerInv /\ WorkerInv
  BY DEF Order
<1>3. CancelledInv'
  BY <1>1, <1>2 DEF CancelledInv
<1>4. ListenerInv'
  BY <1>1, <1>2 DEF ListenerInv
<1>5. SamplerInv'
  BY <1>1, <1>2 DEF SamplerInv
<1>6. WorkerInv'
  BY <1>1, <1>2 DEF WorkerInv
<1> QED BY <1>3, <1>4, <1>5, <1>6

\* The sampler's end wakes the shutdown before the gather has told the main task.
LEMMA OrderJoined ==
  ASSUME General, Order, Joined
  PROVE  Order'
<1>0. Loops /\ Core /\ SamplerInv /\ WorkerInv /\ RaceInv /\ "sampler" \in Task
  BY TaskNames DEF General, Core, Loops, Order
<1>1. UNCHANGED <<at, cancelled, items, open, save>> /\ Runs(SamplerJoined) /\ Returned(SamplerJoined, {"shutdown"})
  BY <1>0, JoinedEffects DEF Joined, recorder
<1>2. /\ phase' = phase
      /\ \A c : c \in Pending' <=> (c \in Pending /\ c # SamplerJoined) \/ c = Wake("shutdown")
      /\ \A c : c \in Current' <=> c \in Current /\ c # SamplerJoined
  BY <1>1 DEF Returned, Replaced, Wakers
<1>3. SamplerJoined \in Pending
  BY <1>0, <1>1, Running DEF Loops
<1>4. Stage = "sampler" /\ ~ShutdownWoken /\ ~Alive("sampler")
  BY <1>0, <1>3 DEF SamplerInv, Loops, EndedInv
<1>5. SamplerJoined \notin Pending'
  BY <1>2, CallbacksDiffer
<1>6. ~Runs(Wake("shutdown")) /\ (Wake("worker") \in Pending => Wake("worker") \in Pending')
  BY <1>1, <1>2, CallbacksDiffer DEF Runs
<1>7. CancelledInv' /\ ListenerInv' /\ SamplerInv' /\ WorkerInv'
  BY <1>1, <1>4, <1>5, <1>6, LoopKeeps
<1>8. RaceInv'
  <2>1. Wake("shutdown") \notin Current /\ Alive("worker")
    BY <1>0, <1>4, CurrentIsPending DEF ShutdownWoken, WorkerInv, Core
  <2>2. ~Soon2 /\ ~Soon3 /\ ~Reached3 /\ ~Reached4
    BY <1>4, <2>1 DEF Soon2, Soon3, Reached3, Reached4
  <2>3. Wake("main") \notin Current /\ StopLoop \notin Pending /\ StopLoop \notin Current /\ phase # "stopping"
    BY <1>0, <2>2 DEF RaceInv
  <2>4. Wake("main") \notin Current' /\ StopLoop \notin Pending' /\ StopLoop \notin Current' /\ phase' # "stopping"
    BY <1>2, <2>3, CallbacksDiffer
  <2>5. Reached2'
    BY <1>1, <1>2, <1>4 DEF Reached2, Stage, ShutdownWoken
  <2> QED BY <2>4, <2>5 DEF RaceInv, Reached1
<1> QED BY <1>7, <1>8 DEF Order

\* A callback of the main task or of its gather returns: the shutdown is as far as it was.
LEMMA HeadDropped ==
  ASSUME General, Order, UNCHANGED <<at, cancelled, items, open, save>>,
         NEW head, Runs(head), head # SamplerJoined, \A t \in Task : head # Wake(t),
         NEW set, Replaced(head, set), \A c \in set : c \in {Wake("main"), StopLoop}
  PROVE  CancelledInv' /\ ListenerInv' /\ SamplerInv' /\ WorkerInv' /\ NotBack
<1>0. "shutdown" \in Task /\ "worker" \in Task /\ "main" \notin Task
  BY TaskNames
<1>1. /\ \A c : c \in Pending' <=> (c \in Pending /\ c # head) \/ c \in set
      /\ \A c : c \in Current' <=> c \in Current /\ c # head
  BY DEF Replaced
<1>2. \A c \in {Wake("shutdown"), Wake("worker"), SamplerJoined} :
        (c \in Pending' <=> c \in Pending) /\ (c \in Current' <=> c \in Current)
  BY <1>0, <1>1, CallbacksDiffer
<1>3. ~Runs(Wake("shutdown"))
  BY <1>0 DEF Runs
<1>4. CancelledInv' /\ ListenerInv' /\ SamplerInv' /\ WorkerInv'
  BY <1>2, <1>3, LoopKeeps DEF ShutdownWoken
<1>5. Stage' = Stage /\ \A t : Alive(t)' <=> Alive(t)
  BY StillProgress DEF Stage
<1>6. NotBack
  BY <1>2, <1>5 DEF NotBack, Soon1, Soon2, Soon3, Reached1, Reached2, Reached3, Reached4, ShutdownWoken
<1> QED BY <1>4, <1>6

\* The gather, the main task and the end of the loop keep the order.
LEMMA OrderGather ==
  ASSUME General, Order, ~Failed', NEW t \in Task, GatherLearns(t)
  PROVE  Order'
<1>0. Loops /\ Core /\ CancelledInv /\ WorkerInv /\ RaceInv /\ GatherInv
  BY DEF General, Core, Loops, Order
<1> DEFINE set == IF gathered = "none" /\ at[t] # "ok" THEN {Wake("main")} ELSE {}
<1>1. /\ UNCHANGED <<phase, at, cancelled, items, open, save>> /\ Runs(ChildDone(t))
      /\ Replaced(ChildDone(t), set)
  BY <1>0, GatherEffects DEF GatherLearns, recorder
<1>2. /\ \A c \in set : c = Wake("main") /\ at[t] # "ok"
  OBVIOUS
<1> HIDE DEF set
<1>3. CancelledInv' /\ ListenerInv' /\ SamplerInv' /\ WorkerInv' /\ NotBack
  BY <1>1, <1>2, HeadDropped, CallbacksDiffer
<1>4. /\ \A c : c \in Pending' <=> (c \in Pending /\ c # ChildDone(t)) \/ c \in set
      /\ \A c : c \in Current' <=> c \in Current /\ c # ChildDone(t)
  BY <1>1 DEF Replaced
<1>5. CASE set = {}
  <2>1. NoNearer
    BY <1>1, <1>4, <1>5 DEF NoNearer
  <2>2. RaceInv'
    BY <1>0, <1>3, <2>1, RaceKept
  <2> QED BY <1>3, <2>2 DEF Order
<1>6. CASE set # {}
  <2>1. at[t] # "ok" /\ ChildDone(t) \in Pending /\ ChildDone(t) \in Current
    BY <1>0, <1>1, <1>2, <1>6, Running DEF Loops
  <2>2. at[t] \in Ended
    BY <1>0, <2>1 DEF EndedInv, Alive, Loops
  <2>3. ~Failed
    BY <1>1, StillProgress
  <2>4. at[t] = "cancelled"
    BY <2>1, <2>2, <2>3 DEF Ended, Failed
  <2>5. CASE t = "publisher"
    <3>1. ~Alive("worker")'
      BY <1>0, <1>1, <2>4, <2>5, StillProgress DEF CancelledInv, WorkerInv
    <3> QED BY <1>3, <3>1, RaceWon DEF Order
  <2>6. CASE t = "sampler"
    <3>1. Soon1 \/ Reached2
      BY <1>0, <2>1, <2>4, <2>6 DEF RaceInv
    <3>2. Soon1' \/ Reached2'
      BY <1>3, <3>1 DEF NotBack
    <3>3. /\ at'["sampler"] = "cancelled" => at["sampler"] = "cancelled"
          /\ \A c \in {ChildDone("sampler"), StopLoop} :
               (c \in Pending' => c \in Pending) /\ (c \in Current' => c \in Current)
          /\ Wake("main") \in Current' => Wake("main") \in Current
          /\ phase' = phase
      BY <1>1, <1>2, <1>4, CallbacksDiffer
    <3>4. RaceInv'
      BY <1>0, <1>3, <3>2, <3>3 DEF RaceInv, NotBack
    <3> QED BY <1>3, <3>4 DEF Order
  <2> QED BY <1>0, <2>4, <2>5, <2>6 DEF CancelledInv
<1> QED BY <1>5, <1>6

LEMMA OrderMain ==
  ASSUME General, Order, ~Failed', MainEnds
  PROVE  Order'
<1>0. Loops /\ Core /\ RaceInv /\ GatherInv
  BY DEF General, Core, Loops, Order
<1>1. UNCHANGED <<at, gathered, cancelled, items, open, save>> /\ Runs(Wake("main"))
  BY DEF MainEnds, recorder
<1>2. gathered # "refused"
  BY <1>0, <1>1, StillProgress DEF GatherInv
<1>3. Replaced(Wake("main"), {StopLoop}) /\ phase' = phase
  BY <1>0, <1>2, MainEffects
<1>4. Wake("main") # SamplerJoined /\ \A t \in Task : Wake("main") # Wake(t)
  BY CallbacksDiffer, TaskNames
<1>5. CancelledInv' /\ ListenerInv' /\ SamplerInv' /\ WorkerInv' /\ NotBack
  BY <1>1, <1>3, <1>4, HeadDropped
<1>6. Soon2 \/ Reached3
  BY <1>0, <1>1, Running DEF RaceInv, Loops
<1>7. Soon2' \/ Reached3'
  BY <1>5, <1>6 DEF NotBack
<1>8. /\ at'["sampler"] = "cancelled" => at["sampler"] = "cancelled"
      /\ \A c \in {ChildDone("sampler"), Wake("main")} :
           (c \in Pending' => c \in Pending) /\ (c \in Current' => c \in Current)
      /\ StopLoop \in Current' => StopLoop \in Current
  BY <1>1, <1>3, CallbacksDiffer DEF Replaced
<1>9. RaceInv'
  BY <1>0, <1>3, <1>5, <1>7, <1>8 DEF RaceInv, NotBack
<1> QED BY <1>5, <1>9 DEF Order

LEMMA OrderStops ==
  ASSUME General, Order, Stops
  PROVE  Order'
<1>0. Loops /\ Core /\ RaceInv
  BY DEF General, Core, Loops, Order
<1>1. UNCHANGED <<at, cancelled, items, open, save>> /\ Runs(StopLoop) /\ Replaced(StopLoop, {})
  BY <1>0, StopEffects DEF Stops, recorder
<1>2. CancelledInv' /\ ListenerInv' /\ SamplerInv' /\ WorkerInv' /\ NotBack
  BY <1>1, CallbacksDiffer, HeadDropped
<1>3. Soon3 \/ Reached4
  BY <1>0, <1>1, Running DEF RaceInv, Loops
<1>4. Soon3' \/ Reached4'
  BY <1>2, <1>3 DEF NotBack
<1>5. /\ at'["sampler"] = "cancelled" => at["sampler"] = "cancelled"
      /\ \A c \in {ChildDone("sampler"), Wake("main"), StopLoop} :
           (c \in Pending' => c \in Pending) /\ (c \in Current' => c \in Current)
  BY <1>1 DEF Replaced
<1>6. RaceInv'
  BY <1>0, <1>2, <1>4, <1>5 DEF RaceInv, NotBack
<1> QED BY <1>2, <1>6 DEF Order

-----------------------------------------------------------------------------
\* What happens outside keeps the order.
LEMMA OrderPolled ==
  ASSUME General, Order, Polled
  PROVE  Order'
<1>0. Loops /\ Core /\ SamplerInv /\ RaceInv
  BY DEF General, Core, Loops, Order
<1>1. /\ UNCHANGED <<phase, at, cancelled, items, open>> /\ left = 0 /\ left' = 0
      /\ save' \in {save, "done", "late"}
  BY <1>0, PolledEffects
<1>2. PICK tasks \in SUBSET Task :
        /\ Added(Wakers(tasks))
        /\ "shutdown" \in tasks => \/ Stage \in {"receive", "web", "sleep"}
                                   \/ Stage = "save" /\ save' # "running"
  <2>1. CASE Added({})
    <3>1. Wakers({}) = {}
      BY DEF Wakers
    <3> QED BY <2>1, <3>1
  <2>2. ASSUME NEW t \in Task, Added({Wake(t)}),
               t = "shutdown" => \/ at[t] \in {"receive", "web", "sleep"}
                                 \/ at[t] = "save" /\ save' # "running"
        PROVE  \E tasks \in SUBSET Task :
                 /\ Added(Wakers(tasks))
                 /\ "shutdown" \in tasks => \/ Stage \in {"receive", "web", "sleep"}
                                            \/ Stage = "save" /\ save' # "running"
    <3>1. Wakers({t}) = {Wake(t)}
      BY DEF Wakers
    <3> WITNESS {t} \in SUBSET Task
    <3> QED BY <2>2, <3>1 DEF Stage
  <2> QED BY <1>0, <2>1, <2>2, PolledEffects
<1>3. /\ \A c \in Pending : c \in Pending'
      /\ \A c \in Pending' : c \in Pending \/ \E u \in tasks : c = Wake(u)
  BY <1>2 DEF Added, Wakers
<1>4. Current = {} /\ Current' = {} /\ ~Runs(Wake("shutdown"))
  BY <1>1 DEF Current, Runs
<1>5. /\ \A c \in {ChildDone("sampler"), Wake("main"), StopLoop, SamplerJoined} : c \in Pending' => c \in Pending
      /\ ShutdownWoken' => ShutdownWoken \/ "shutdown" \in tasks
  BY <1>3, CallbacksDiffer, TaskNames DEF ShutdownWoken
<1>6. CancelledInv' /\ ListenerInv' /\ SamplerInv' /\ WorkerInv'
  BY <1>1, <1>2, <1>3, <1>4, <1>5, LoopKeeps
<1>7. NoNearer
  BY <1>1, <1>4, <1>5 DEF NoNearer
<1>8. NotBack
  <2>1. Stage' = Stage /\ (Alive("worker")' <=> Alive("worker"))
    BY <1>1, StillProgress DEF Stage
  <2> QED BY <1>3, <1>4, <2>1 DEF NotBack, Soon1, Soon2, Soon3, Reached1, Reached2, Reached3, Reached4, ShutdownWoken
<1>9. RaceInv'
  BY <1>0, <1>7, <1>8, RaceKept
<1> QED BY <1>6, <1>9 DEF Order

\* An iteration runs what was scheduled: what the shutdown had reached, it goes beyond soon.
LEMMA OrderIterates ==
  ASSUME General, Order, phase = "running", Iterates
  PROVE  Order'
<1>0. Loops /\ Core /\ CancelledInv /\ SamplerInv /\ WorkerInv /\ RaceInv
  BY DEF General, Core, Loops, Order
<1>1. UNCHANGED <<phase, at, cancelled, items, open, save>> /\ left = 0
  BY DEF Iterates, Polling, recorder
<1>2. /\ Current = {}
      /\ \A c : c \in Pending' <=> c \in Pending
      /\ \A c : c \in Current' <=> c \in Pending
  BY <1>0, IteratingEffects
<1>3. ~Runs(Wake("shutdown"))
  BY <1>1 DEF Runs
<1>4. CancelledInv' /\ ListenerInv' /\ SamplerInv' /\ WorkerInv'
  BY <1>1, <1>2, <1>3, LoopKeeps DEF ShutdownWoken
<1>5. Stage' = Stage /\ (Alive("worker")' <=> Alive("worker"))
  BY <1>1, StillProgress DEF Stage
<1>6. ~Soon1 /\ ~Soon3 /\ ~Soon2
  BY <1>0, <1>2, <1>3 DEF Soon1, Soon2, Soon3, CancelledInv, WithinCallback
<1>7. /\ Reached1 => Soon1' \/ Reached2'
      /\ Reached2 => Soon2' \/ Reached3'
      /\ Reached3 => Soon3' \/ Reached4'
      /\ (Reached1 => Reached1') /\ (Reached2 => Reached2') /\ (Reached3 => Reached3')
  BY <1>0, <1>2, <1>5 DEF WorkerInv, Soon1, Soon2, Soon3, Reached1, Reached2, Reached3, Reached4, ShutdownWoken
<1>8. RaceInv'
  BY <1>0, <1>1, <1>2, <1>6, <1>7 DEF RaceInv
<1> QED BY <1>4, <1>8 DEF Order

\* When everything is cancelled, the shutdown has had the recorder's answer.
LEMMA CancelsClean ==
  ASSUME General, Order, CancelsAll
  PROVE  Clean'
<1>0. Loops /\ Core /\ ListenerInv /\ SamplerInv /\ WorkerInv /\ RaceInv /\ FlagsOK
  BY DEF General, Core, Loops, Order
<1>1. /\ left = 0 /\ phase = "stopping" /\ UNCHANGED <<at, items, open>>
      /\ cancelled \subseteq cancelled' /\ save' = IF save = "running" THEN "cut" ELSE save
  BY DEF CancelsAll, recorder
<1>2. Current = {}
  BY <1>1 DEF Current
<1>3. ~Alive("worker")
  BY <1>0, <1>1, <1>2 DEF RaceInv, Soon3, Reached4
<1>4. /\ items = <<>> /\ ~open /\ Stage \in {"answer", "close publisher", "sleep", "ok"}
  BY <1>0, <1>3 DEF WorkerInv
<1>5. Stage \in Stopping /\ Stage \in Later /\ Stage \in StopStages
  BY <1>4 DEF Stopping, Later, StopStages, Ended
<1>6. ~Alive("sampler") /\ ("listener" \in cancelled \/ ~Alive("listener")) /\ save \in {"none", "done", "late"}
  BY <1>0, <1>5 DEF SamplerInv, ListenerInv, FlagsOK
<1>7. Stage' = Stage /\ \A t : Alive(t)' <=> Alive(t)
  BY <1>1, StillProgress DEF Stage
<1> QED BY <1>1, <1>3, <1>4, <1>5, <1>6, <1>7 DEF Clean

-----------------------------------------------------------------------------
\* A task that has ended stays as it ended.
LEMMA EndedStays ==
  ASSUME General, [Next]_vars
  PROVE  \A u \in Task : ~Alive(u) => at'[u] = at[u]
<1>0. Loops /\ Core /\ "shutdown" \in Task /\ {"worker", "sampler", "listener", "web"} \subseteq Task \ {"shutdown"}
      /\ Receivers \subseteq Task \ {"shutdown"}
  BY TaskNames DEF General, Core, Loops
<1>1. ASSUME NEW t \in Task, Alive(t), NEW p, at' = [at EXCEPT ![t] = p]
      PROVE  \A u \in Task : ~Alive(u) => at'[u] = at[u]
  BY <1>0, <1>1 DEF Core
<1>2. CASE at' = at
  BY <1>2
<1>3. CASE Tasks
  <2>1. ASSUME NEW t \in Task \ {"shutdown"}, Runs(Wake(t)), NEW p, at' = [at EXCEPT ![t] = p]
        PROVE  \A u \in Task : ~Alive(u) => at'[u] = at[u]
    BY <1>0, <1>1, <2>1, RunsOnce
  <2>2. CASE WorkerWrites \/ WorkerFinalizes \/ WorkerStops \/ WorkerWaits
    <3>1. Runs(Wake("worker")) /\ (at' = at \/ \E p : at' = [at EXCEPT !["worker"] = p])
      BY <2>2 DEF WorkerWrites, WorkerFinalizes, WorkerStops, WorkerWaits, Resumed, Ends
    <3> QED BY <1>0, <1>2, <2>1, <3>1
  <2>3. CASE SamplerSamples
    <3>1. Runs(Wake("sampler")) /\ (at' = at \/ \E p : at' = [at EXCEPT !["sampler"] = p])
      BY <2>3 DEF SamplerSamples, Resumed, Ends
    <3> QED BY <1>0, <1>2, <2>1, <3>1
  <2>4. CASE PlainPacket \/ SessionStart \/ \E r \in Receivers : PacketOfReceiver(r)
    BY <1>2, <2>4 DEF PlainPacket, SessionStart, PacketOfReceiver
  <2>5. CASE Classification \/ Finalized \/ ListenerCancelled
    <3>1. Runs(Wake("listener")) /\ \E p : at' = [at EXCEPT !["listener"] = p]
      BY <2>5 DEF Classification, Finalized, ListenerCancelled, Resumed, Ends
    <3> QED BY <1>0, <2>1, <3>1
  <2>6. ASSUME NEW r \in Receivers, ReceiverTakes(r) \/ ReceiverLoops(r)
        PROVE  \A u \in Task : ~Alive(u) => at'[u] = at[u]
    <3>1. Runs(Wake(r)) /\ \E p : at' = [at EXCEPT ![r] = p]
      BY <2>6 DEF ReceiverTakes, ReceiverLoops, Resumed, Ends
    <3> QED BY <1>0, <2>1, <3>1
  <2>7. CASE WebStarts \/ WebEnds
    <3>1. Runs(Wake("web")) /\ \E p : at' = [at EXCEPT !["web"] = p]
      BY <2>7 DEF WebStarts, WebEnds, Resumed, Ends
    <3> QED BY <1>0, <2>1, <3>1
  <2>8. ASSUME NEW t \in Task, Cancelled(t)
        PROVE  \A u \in Task : ~Alive(u) => at'[u] = at[u]
    <3>1. Alive(t) /\ at' = [at EXCEPT ![t] = "cancelled"]
      BY <1>0, <2>8, CancelledEffects DEF Finished
    <3> QED BY <1>1, <3>1
  <2> QED BY <1>3, <2>2, <2>3, <2>4, <2>5, <2>6, <2>7, <2>8 DEF Tasks
<1>4. CASE Shutdown
  <2>1. Stage \notin Ended /\ \E p : Moves(p) \/ at' = [at EXCEPT !["shutdown"] = p]
    <3>1. CASE ShutdownReceives \/ StopsWeb \/ StopsHandler \/ StopsService \/ StopsRecorder
      BY <3>1 DEF ShutdownReceives, StopsWeb, StopsHandler, StopsService, StopsRecorder, ShutdownAt, Stage, Ended
    <3>2. CASE ClosesPublisher \/ ShutdownResumes \/ ShutdownEnds
      BY <3>2, NextStages DEF ClosesPublisher, ShutdownResumes, ShutdownEnds, Ends, ShutdownAt, Stage, Ended
    <3> QED BY <1>4, <3>1, <3>2 DEF Shutdown
  <2> QED BY <1>0, <1>1, <2>1 DEF Moves, Alive, Stage
<1>5. CASE Outside \/ Timers \/ Awaited
  BY <1>0, <1>2, <1>5, PolledEffects DEF Outside, Timers, Awaited, Polled
<1>6. CASE Runtime
  BY <1>2, <1>6 DEF Runtime, Iterates, Joined, MainEnds, Stops, CancelsAll, Exits, GatherLearns
<1>7. CASE UNCHANGED vars
  BY <1>2, <1>7 DEF vars
<1> QED BY <1>3, <1>4, <1>5, <1>6, <1>7 DEF Next

\* So a failure is never forgotten.
LEMMA FailedStays ==
  ASSUME General, [Next]_vars, Failed
  PROVE  Failed'
BY EndedStays DEF Failed, Alive, Ended

-----------------------------------------------------------------------------
\* Whatever is cancelled last, the recording and the save are left alone.
LEMMA CleanStep ==
  ASSUME General, Clean, [Next]_vars
  PROVE  Clean'
<1>0. /\ Loops /\ Core /\ "shutdown" \in Task /\ {"worker", "sampler", "listener", "web"} \subseteq Task \ {"shutdown"}
      /\ Receivers \subseteq Task \ {"shutdown", "worker", "sampler", "listener", "web"}
  BY TaskNames DEF General, Core, Loops
<1>1. \A u \in Task : ~Alive(u) => at'[u] = at[u]
  BY EndedStays
<1>2. \A u \in {"worker", "sampler", "listener"} : ~Alive(u) => ~Alive(u)'
  BY <1>0, <1>1 DEF Alive
<1>3. ~Runs(Wake("worker")) /\ ~Runs(Wake("sampler")) /\ ~Resumed("listener")
  BY <1>0, RunsOnce DEF Clean, Resumed
<1>4. ASSUME UNCHANGED <<items, open>>, save' \in {save, "done", "late"}, Stage' \in StopStages,
             "listener" \in cancelled => "listener" \in cancelled' \/ ~Alive("listener")'
      PROVE  Clean'
  BY <1>2, <1>4 DEF Clean
<1>5. CASE Tasks
  <2>1. /\ ~WorkerWrites /\ ~WorkerFinalizes /\ ~WorkerStops /\ ~WorkerWaits /\ ~SamplerSamples
        /\ ~PlainPacket /\ ~SessionStart /\ ~Classification /\ ~Finalized /\ \A r \in Receivers : ~PacketOfReceiver(r)
    BY <1>3 DEF WorkerWrites, WorkerFinalizes, WorkerStops, WorkerWaits, SamplerSamples, PlainPacket, SessionStart,
                Classification, Finalized, PacketOfReceiver, ListenerRecords, Resumed
  <2>2. ASSUME NEW t \in Task, t # "listener", NEW p, at' = [at EXCEPT ![t] = p], t = "shutdown" => p \in Ended,
               cancelled' = cancelled \/ cancelled' = cancelled \ {t}, UNCHANGED <<items, open, save>>
        PROVE  Clean'
    <3>1. Stage' \in StopStages
      BY <1>0, <2>2 DEF Clean, Stage, StopStages, Core
    <3> QED BY <1>4, <2>2, <3>1
  <2>3. CASE ListenerCancelled
    <3>1. at' = [at EXCEPT !["listener"] = "ok"] /\ UNCHANGED <<items, open, save>>
      BY <2>3 DEF ListenerCancelled, Ends, recorder
    <3>2. ~Alive("listener")' /\ Stage' = Stage
      BY <1>0, <3>1 DEF Alive, Ended, Stage, Core
    <3> QED BY <1>4, <3>1, <3>2 DEF Clean
  <2>4. ASSUME NEW r \in Receivers, ReceiverTakes(r) \/ ReceiverLoops(r) PROVE Clean'
    <3>1. /\ \E p : at' = [at EXCEPT ![r] = p]
          /\ cancelled' = cancelled \/ cancelled' = cancelled \ {r}
          /\ UNCHANGED <<items, open, save>>
      BY <2>4 DEF ReceiverTakes, ReceiverLoops, Ends, recorder
    <3> QED BY <1>0, <2>2, <3>1
  <2>5. CASE WebStarts \/ WebEnds
    <3>1. /\ \E p : at' = [at EXCEPT !["web"] = p]
          /\ cancelled' = cancelled \/ cancelled' = cancelled \ {"web"}
          /\ UNCHANGED <<items, open, save>>
      BY <2>5 DEF WebStarts, WebEnds, Ends, recorder
    <3> QED BY <1>0, <2>2, <3>1
  <2>6. ASSUME NEW t \in Task, Cancelled(t) PROVE Clean'
    <3>1. /\ at' = [at EXCEPT ![t] = "cancelled"] /\ t # "listener"
          /\ cancelled' = cancelled \ {t} /\ UNCHANGED <<items, open, save>>
      BY <2>6 DEF Cancelled, Ends, recorder
    <3> QED BY <2>2, <3>1 DEF Ended
  <2> QED BY <1>5, <2>1, <2>3, <2>4, <2>5, <2>6 DEF Tasks
<1>6. CASE Shutdown
  <2>1. Stage \in StopStages
    BY DEF Clean
  <2>2. /\ ~ShutdownReceives /\ ~StopsWeb /\ ~StopsHandler /\ ~StopsService /\ ~StopsRecorder
    BY <2>1 DEF ShutdownReceives, StopsWeb, StopsHandler, StopsService, StopsRecorder, ShutdownAt, Stage, StopStages, Ended
  <2>3. ASSUME NEW p \in StopStages, at' = [at EXCEPT !["shutdown"] = p], UNCHANGED <<items, open, save>>,
               "listener" \in cancelled => "listener" \in cancelled'
        PROVE  Clean'
    <3>1. Stage' \in StopStages
      BY <1>0, <2>3 DEF Stage, Core
    <3> QED BY <1>4, <2>3, <3>1
  <2>4. CASE ClosesPublisher
    <3>1. /\ at' = [at EXCEPT !["shutdown"] = "sleep"] /\ UNCHANGED <<items, open, save>>
          /\ "listener" \in cancelled => "listener" \in cancelled'
      BY <2>4 DEF ClosesPublisher, Moves, recorder
    <3> QED BY <2>3, <3>1 DEF StopStages
  <2>5. CASE ShutdownResumes
    <3>1. /\ at["shutdown"] = "answer" /\ UNCHANGED <<items, open, save, cancelled>>
          /\ at' = [at EXCEPT !["shutdown"] = "close publisher"]
      BY <2>1, <2>5, NextStages DEF ShutdownResumes, Moves, recorder, Stage, StopStages, Ended
    <3> QED BY <2>3, <3>1 DEF StopStages
  <2>6. CASE ShutdownEnds
    <3>1. /\ at' = [at EXCEPT !["shutdown"] = "ok"] /\ UNCHANGED <<items, open, save>>
          /\ cancelled' = cancelled \ {"shutdown"}
      BY <2>6 DEF ShutdownEnds, Ends, recorder
    <3> QED BY <1>0, <2>3, <3>1 DEF StopStages, Ended
  <2> QED BY <1>6, <2>2, <2>4, <2>5, <2>6 DEF Shutdown
<1>7. ASSUME UNCHANGED <<at, items, open>>, save' \in {save, "done", "late"}, cancelled \subseteq cancelled'
      PROVE  Clean'
  BY <1>4, <1>7 DEF Clean, Stage
<1>8. CASE Outside \/ Timers \/ Awaited
  BY <1>0, <1>7, <1>8, PolledEffects DEF Outside, Timers, Awaited, Polled
<1>9. CASE Runtime
  <2>1. UNCHANGED <<at, items, open>> /\ cancelled \subseteq cancelled'
    BY <1>9 DEF Runtime, Iterates, Joined, MainEnds, Stops, CancelsAll, Exits, GatherLearns, recorder
  <2>2. save' = save
    BY <1>9 DEF Runtime, Iterates, Joined, MainEnds, Stops, CancelsAll, Exits, GatherLearns, Clean
  <2> QED BY <1>7, <2>1, <2>2
<1>10. CASE UNCHANGED vars
  BY <1>7, <1>10 DEF vars
<1> QED BY <1>5, <1>6, <1>8, <1>9, <1>10 DEF Next

\* Stuttering keeps the order.
LEMMA OrderStutters ==
  ASSUME Order, UNCHANGED vars
  PROVE  Order'
<1>1. UNCHANGED <<at, phase, ready, left, cancelled, items, open, save>>
  BY DEF vars
<1>2. /\ Stage' = Stage /\ Pending' = Pending /\ Current' = Current /\ (ShutdownWoken' <=> ShutdownWoken)
      /\ (\A c : Runs(c)' <=> Runs(c)) /\ \A t : Alive(t)' <=> Alive(t)
  BY <1>1 DEF Stage, Pending, Of, Current, ShutdownWoken, Runs, Alive
<1>3. /\ (Soon1' <=> Soon1) /\ (Soon2' <=> Soon2) /\ (Soon3' <=> Soon3)
      /\ (Reached1' <=> Reached1) /\ (Reached2' <=> Reached2) /\ (Reached3' <=> Reached3) /\ (Reached4' <=> Reached4)
  BY <1>2 DEF Soon1, Soon2, Soon3, Reached1, Reached2, Reached3, Reached4
<1>4. CancelledInv' /\ ListenerInv' /\ SamplerInv' /\ WorkerInv'
  BY <1>1, <1>2 DEF Order, CancelledInv, ListenerInv, SamplerInv, WorkerInv
<1>5. RaceInv'
  BY <1>1, <1>2, <1>3 DEF Order, RaceInv
<1> QED BY <1>4, <1>5 DEF Order

\* The order holds when the process starts.
LEMMA OrderlyInit ==
  ASSUME Init
  PROVE  Orderly
<1>1. /\ ready = <<Wake("web")>> /\ left = 0 /\ cancelled = {} /\ phase = "running"
      /\ items = <<>> /\ save = "none" /\ Stage = "receive"
      /\ \A t \in Task : Alive(t)
      /\ "worker" \in Task /\ "sampler" \in Task /\ "publisher" \in Task
  BY TaskNames DEF Init, Stage, Alive, Ended
<1>2. Pending = {Wake("web")} /\ Current = {}
  BY <1>1 DEF Pending, Current, Of
<1>3. /\ ~ShutdownWoken /\ SamplerJoined \notin Pending /\ Wake("main") \notin Pending /\ StopLoop \notin Pending
  BY <1>2, CallbacksDiffer DEF ShutdownWoken
<1>4. CancelledInv
  BY <1>1 DEF CancelledInv, Early, WithinCallback, Alive, Ended
<1>5. ListenerInv
  BY <1>1 DEF ListenerInv, Later, Stopping
<1>6. SamplerInv
  BY <1>1, <1>3 DEF SamplerInv, Stopping
<1>7. WorkerInv
  BY <1>1, NothingPut DEF WorkerInv
<1>8. RaceInv
  BY <1>1, <1>2, <1>3 DEF RaceInv, Alive, Ended
<1> QED BY <1>1, <1>4, <1>5, <1>6, <1>7, <1>8 DEF Order, Orderly

\* No task ends the loop by itself.
LEMMA PhaseKept ==
  ASSUME Tasks \/ Shutdown
  PROVE  phase' = phase
<1>1. CASE Tasks
  BY <1>1 DEF Tasks, WorkerWrites, WorkerFinalizes, WorkerStops, WorkerWaits, SamplerSamples, PlainPacket,
     SessionStart, Classification, Finalized, ListenerCancelled, PacketOfReceiver, ReceiverTakes, ReceiverLoops,
     WebStarts, WebEnds, Cancelled, Ends, Yields, GoesOn, loop
<1>2. CASE Shutdown
  BY <1>2 DEF Shutdown, ShutdownReceives, StopsWeb, StopsHandler, StopsService, StopsRecorder, ClosesPublisher,
     ShutdownResumes, ShutdownEnds, Ends, Yields, GoesOn, loop
<1> QED BY <1>1, <1>2

\* Every step keeps the order, and what is clean at the end, unless a task fails.
LEMMA OrderlyStep ==
  ASSUME General, Orderly, [Next]_vars, ~Failed'
  PROVE  Orderly'
<1>0. Loops /\ Core /\ phase \in {"running", "stopping", "draining", "exited"}
  BY DEF General, Core, Loops
<1>1. CASE phase \in {"draining", "exited"}
  <2>1. Clean'
    BY <1>1, CleanStep DEF Orderly
  <2>2. phase' \in {"draining", "exited"}
    <3>1. ~MainEnds /\ ~Stops
      <4>1. Wake("main") \notin Pending /\ StopLoop \notin Pending
        BY <1>0, <1>1 DEF Core, GatherInv
      <4> QED BY <1>0, <4>1, Running DEF MainEnds, Stops, Loops
    <3>2. CASE Tasks \/ Shutdown
      BY <1>1, <3>2, PhaseKept
    <3>4. CASE Outside \/ Timers \/ Awaited
      BY <1>0, <1>1, <3>4, PolledEffects DEF Outside, Timers, Awaited, Polled
    <3>5. CASE Runtime
      BY <1>1, <3>1, <3>5 DEF Runtime, Iterates, Joined, CancelsAll, Exits, GatherLearns, Yields
    <3>6. CASE UNCHANGED vars
      BY <1>1, <3>6 DEF vars
    <3> QED BY <3>2, <3>4, <3>5, <3>6 DEF Next
  <2> QED BY <2>1, <2>2 DEF Orderly
<1>2. CASE phase \in {"running", "stopping"}
  <2>1. Order
    BY <1>2 DEF Orderly
  <2>2. CASE CancelsAll
    <3>1. Clean' /\ phase' = "draining"
      BY <2>1, <2>2, CancelsClean DEF CancelsAll
    <3> QED BY <3>1 DEF Orderly
  <2>3. CASE ~CancelsAll
    <3>1. Order'
      <4>1. CASE Tasks
        BY <2>1, <4>1, OrderWorker, OrderSampler, OrderListener, OrderOthers DEF Tasks
      <4>2. CASE Shutdown
        BY <2>1, <4>2, OrderStopsFirst, OrderStopsLast, OrderResumes DEF Shutdown
      <4>3. CASE Outside \/ Timers \/ Awaited
        BY <2>1, <4>3, OrderPolled DEF Outside, Timers, Awaited, Polled
      <4>4. CASE Runtime
        <5>1. Iterates => phase = "running"
          BY <1>2 DEF Iterates, Polling
        <5>2. ~Exits
          BY <1>2 DEF Exits
        <5> QED BY <2>1, <2>3, <4>4, <5>1, <5>2, OrderIterates, OrderJoined, OrderGather, OrderMain, OrderStops DEF Runtime
      <4>5. CASE UNCHANGED vars
        BY <2>1, <4>5, OrderStutters
      <4> QED BY <4>1, <4>2, <4>3, <4>4, <4>5 DEF Next
    <3>2. phase' \notin {"draining", "exited"}
      <4>1. CASE Tasks \/ Shutdown
        BY <1>2, <4>1, PhaseKept
      <4>3. CASE Outside \/ Timers \/ Awaited
        BY <1>0, <1>2, <4>3, PolledEffects DEF Outside, Timers, Awaited, Polled
      <4>4. CASE Runtime
        BY <1>2, <2>3, <4>4 DEF Runtime, Iterates, Joined, Exits, GatherLearns, Yields, MainEnds, Stops
      <4>5. CASE UNCHANGED vars
        BY <1>2, <4>5 DEF vars
      <4> QED BY <4>1, <4>3, <4>4, <4>5 DEF Next
    <3> QED BY <3>1, <3>2 DEF Orderly
  <2> QED BY <2>2, <2>3
<1> QED BY <1>0, <1>1, <1>2

\* A backend of which no task failed has exited with its recording finalized, nothing left in the
\* recorder's queue and its just-in-case save not cut off (pits_n_giggles.py _shutdown_tasks over
\* service.py stop): the shutdown outruns the end of the main task that its own cancellations cause.
THEOREM OrderlyExit == Spec => []OrderlyExitIsClean
<1>1. Init => Failed \/ Orderly
  BY OrderlyInit
<1>2. General /\ (Failed \/ Orderly) /\ [Next]_vars => (Failed \/ Orderly)'
  BY OrderlyStep, FailedStays
<1>3. Failed \/ Orderly => OrderlyExitIsClean
  BY DEF Orderly, Clean, OrderlyExitIsClean
<1>4. Spec => Init /\ [][Next]_vars
  BY DEF Spec
<1> QED BY <1>1, <1>2, <1>3, <1>4, GeneralHolds, PTL

=============================================================================
