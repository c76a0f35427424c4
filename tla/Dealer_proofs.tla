---------------------------- MODULE Dealer_proofs ----------------------------
(***************************************************************************)
(* Dealer for any requests and fires, any loss and any restarts of the peer. *)
(*                                                                          *)
(* A request's id is at one place at most: it travels from the queue of     *)
(* calls over toPeer, busy, toUs and answer to the result of some call and  *)
(* never back (Once).  The send lock is held exactly while a reply is       *)
(* pending (Locked), and while nobody gave up the only id on the way is     *)
(* that of the pending call (Matched).                                      *)
(***************************************************************************)
EXTENDS Dealer, SequenceTheorems, TLAPS

In(m, s) == \E i \in 1..Len(s) : s[i] = m
Distinct(s, kind) == \A i, j \in 1..Len(s) : s[i].kind = kind /\ s[i] = s[j] => i = j

\* A link carries commands one way, replies and acks the other.
Directed ==
  /\ \A i \in 1..Len(toPeer) : toPeer[i].kind \in {"request", "fire"}
  /\ busy # None => busy.kind \in {"request", "fire"}
  /\ \A i \in 1..Len(toUs) : toUs[i].kind \in {"reply", "ack"}

Locked ==
  /\ holder = pending
  /\ \A c \in Calls : caller[c] = "sent" <=> c = pending
  /\ pending = None => answer = None
  /\ answer = Failed => closed

\* Who waits for the lock waits once.
Waiting ==
  /\ \A i \in 1..Len(queue) : caller[queue[i]] = "queued"
  /\ \A i, j \in 1..Len(queue) : queue[i] = queue[j] => i = j

Returned(c) == \E d \in Calls : result[d] = c

\* The places of a request's id, each of them excluding the ones after it.
Once ==
  /\ Distinct(toPeer, "request") /\ Distinct(toUs, "reply")
  /\ \A c \in Calls :
       /\ In(Request(c), toPeer) => busy # Request(c) /\ ~In(Reply(c), toUs) /\ answer # c /\ ~Returned(c)
       /\ busy = Request(c) => ~In(Reply(c), toUs) /\ answer # c /\ ~Returned(c)
       /\ In(Reply(c), toUs) => answer # c /\ ~Returned(c)
       /\ answer = c => ~Returned(c)
       /\ caller[c] \in {"idle", "queued"} =>
            /\ ~In(Request(c), toPeer) /\ busy # Request(c) /\ ~In(Reply(c), toUs)
            /\ answer # c /\ ~Returned(c)

Matched ==
  ~late =>
    /\ answer \in {None, Failed, pending}
    /\ ~closed => \A c \in Calls : In(Request(c), toPeer) \/ busy = Request(c) \/ In(Reply(c), toUs) => c = pending

Inv == TypeOK /\ Directed /\ Locked /\ Waiting /\ Once /\ Matched /\ NoReplyTwice /\ AnswersMatch

-----------------------------------------------------------------------------
(* Queues of messages, and what is in them.                                 *)

\* A message more at the end of a queue: it is in, the others stay as they are.
LEMMA AppendFacts ==
  ASSUME NEW S, NEW s \in Seq(S), NEW m \in S
  PROVE  /\ Append(s, m) \in Seq(S)
         /\ \A x : In(x, Append(s, m)) <=> In(x, s) \/ x = m
         /\ \A i \in 1..Len(Append(s, m)) : Append(s, m)[i] = m \/ \E j \in 1..Len(s) : Append(s, m)[i] = s[j]
         /\ \A kind : Distinct(s, kind) /\ (In(m, s) => m.kind # kind) => Distinct(Append(s, m), kind)
<1> DEFINE t == Append(s, m)
<1>1. /\ t \in Seq(S) /\ Len(t) = Len(s) + 1 /\ Len(s) \in Nat
      /\ \A i \in 1..Len(s) : t[i] = s[i]
      /\ t[Len(s) + 1] = m
  BY AppendProperties
<1> HIDE DEF t
<1>2. \A i \in 1..Len(t) : i \in 1..Len(s) \/ i = Len(s) + 1
  BY <1>1
<1>3. \A x : In(x, t) <=> In(x, s) \/ x = m
  <2> TAKE x
  <2>1. ASSUME In(x, t) PROVE In(x, s) \/ x = m
    BY <1>1, <1>2, <2>1 DEF In
  <2>2. ASSUME In(x, s) PROVE In(x, t)
    BY <1>1, <2>2 DEF In
  <2>3. In(m, t)
    BY <1>1 DEF In
  <2> QED BY <2>1, <2>2, <2>3
<1>4. ASSUME NEW kind, Distinct(s, kind), In(m, s) => m.kind # kind
      PROVE  Distinct(t, kind)
  BY <1>1, <1>2, <1>4 DEF Distinct, In
<1>5. \A i \in 1..Len(t) : t[i] = m \/ \E j \in 1..Len(s) : t[i] = s[j]
  BY <1>1, <1>2
<1> QED BY <1>1, <1>3, <1>4, <1>5 DEF t

\* The first message taken from a queue: it is out, nothing comes in.
LEMMA TailFacts ==
  ASSUME NEW S, NEW s \in Seq(S), s # <<>>
  PROVE  /\ Tail(s) \in Seq(S) /\ Head(s) \in S /\ Head(s) = s[1] /\ 1 \in 1..Len(s) /\ In(Head(s), s)
         /\ \A x : In(x, Tail(s)) => In(x, s)
         /\ \A i \in 1..Len(Tail(s)) : i + 1 \in 1..Len(s) /\ Tail(s)[i] = s[i + 1]
         /\ \A kind : Distinct(s, kind) => /\ Distinct(Tail(s), kind)
                                           /\ Head(s).kind = kind => ~In(Head(s), Tail(s))
<1>1. /\ Tail(s) \in Seq(S) /\ Len(Tail(s)) = Len(s) - 1 /\ Len(s) \in Nat \ {0}
      /\ \A i \in 1..Len(Tail(s)) : Tail(s)[i] = s[i + 1]
      /\ Head(s) = s[1] /\ s[1] \in S
  BY HeadTailProperties
<1>2. \A i \in 1..Len(Tail(s)) : i + 1 \in 1..Len(s) /\ i + 1 # 1
  BY <1>1
<1>3. 1 \in 1..Len(s)
  BY <1>1
<1>4. \A x : In(x, Tail(s)) => In(x, s)
  BY <1>1, <1>2 DEF In
<1>5. ASSUME NEW kind, Distinct(s, kind)
      PROVE  Distinct(Tail(s), kind) /\ (Head(s).kind = kind => ~In(Head(s), Tail(s)))
  <2>1. ASSUME NEW i \in 1..Len(Tail(s)), NEW j \in 1..Len(Tail(s)), Tail(s)[i].kind = kind, Tail(s)[i] = Tail(s)[j]
        PROVE  i = j
    <3>1. s[i + 1].kind = kind /\ s[i + 1] = s[j + 1]
      BY <1>1, <2>1
    <3>2. i + 1 = j + 1
      BY <1>2, <1>5, <3>1 DEF Distinct
    <3> QED BY <3>2
  <2>2. ASSUME Head(s).kind = kind, NEW i \in 1..Len(Tail(s)), Tail(s)[i] = Head(s) PROVE FALSE
    <3>1. s[1].kind = kind /\ s[1] = s[i + 1]
      BY <1>1, <2>2
    <3>2. 1 = i + 1
      BY <1>2, <1>3, <1>5, <3>1 DEF Distinct
    <3> QED BY <1>2, <3>2
  <2> QED BY <2>1, <2>2 DEF Distinct, In
<1> QED BY <1>1, <1>2, <1>3, <1>4, <1>5 DEF In

\* A message is known by its kind and its id.
LEMMA Shape ==
  ASSUME NEW m \in Message
  PROVE  /\ m # None
         /\ m.kind \in {"request", "reply"} => m.id \in Calls
         /\ m.kind = "request" => m = Request(m.id)
         /\ m.kind = "reply" => m = Reply(m.id)
         /\ m.kind \in {"fire", "ack"} => m.id \in Fires /\ \A c \in Calls : m # Request(c) /\ m # Reply(c)
<1>1. m # None
  BY NoneAssumption
<1>2. CASE m \in [kind : {"request", "reply"}, id : Calls]
  <2>1. m = [kind |-> m.kind, id |-> m.id] /\ m.id \in Calls /\ m.kind \in {"request", "reply"}
    BY <1>2
  <2> QED BY <1>1, <2>1 DEF Request, Reply
<1>3. CASE m \in [kind : {"fire", "ack"}, id : Fires]
  <2>1. m = [kind |-> m.kind, id |-> m.id] /\ m.id \in Fires /\ m.kind \in {"fire", "ack"}
    BY <1>3
  <2>2. \A c \in Calls : m # Request(c) /\ m # Reply(c)
    BY <2>1 DEF Request, Reply
  <2> QED BY <1>1, <2>1, <2>2
<1> QED BY <1>2, <1>3, NoneAssumption DEF Message

LEMMA Messages ==
  ASSUME NEW c \in Calls
  PROVE  /\ Request(c) \in Message /\ Reply(c) \in Message
         /\ Request(c) # None /\ Reply(c) # None /\ Request(c) # Reply(c)
         /\ Request(c).kind = "request" /\ Reply(c).kind = "reply"
         /\ Request(c).id = c /\ Reply(c).id = c
         /\ \A d \in Calls : /\ Request(c) = Request(d) => c = d
                             /\ Reply(c) = Reply(d) => c = d
                             /\ Request(c) # Reply(d)
BY NoneAssumption DEF Message, Request, Reply

\* A caller taken out of the lock's queue: the others keep waiting, once each.
LEMMA RemovedFacts ==
  ASSUME NEW S, NEW s \in Seq(S), NEW k \in 1..Len(s), \A i, j \in 1..Len(s) : s[i] = s[j] => i = j
  PROVE  LET t == RemoveAt(s, k)
         IN /\ t \in Seq(S)
            /\ \A i \in 1..Len(t) : t[i] # s[k] /\ \E j \in 1..Len(s) : t[i] = s[j]
            /\ \A i, j \in 1..Len(t) : t[i] = t[j] => i = j
<1> DEFINE a == SubSeq(s, 1, k - 1)
           b == SubSeq(s, k + 1, Len(s))
           t == RemoveAt(s, k)
           from(i) == IF i < k THEN i ELSE i + 1
<1>1. Len(s) \in Nat /\ k \in Nat
  OBVIOUS
<1>2. a \in Seq(S) /\ Len(a) = k - 1 /\ \A i \in 1..(k - 1) : a[i] = s[i]
  BY <1>1
<1>3. b \in Seq(S) /\ Len(b) = Len(s) - k /\ \A i \in 1..(Len(s) - k) : b[i] = s[k + i]
  BY <1>1
<1>4. t = a \o b
  BY DEF RemoveAt
<1> HIDE DEF a, b, t
<1>5. /\ t \in Seq(S) /\ Len(t) = Len(s) - 1
      /\ \A i \in 1..Len(t) : t[i] = IF i <= k - 1 THEN a[i] ELSE b[i - (k - 1)]
  BY <1>1, <1>2, <1>3, <1>4
<1>6. \A i \in 1..Len(t) : from(i) \in 1..Len(s) /\ from(i) # k /\ t[i] = s[from(i)]
  <2> TAKE i \in 1..Len(t)
  <2>1. CASE i < k
    <3>1. i \in 1..(k - 1) /\ from(i) = i /\ i # k /\ i \in 1..Len(s)
      BY <1>1, <1>5, <2>1
    <3>2. t[i] = a[i] /\ a[i] = s[i]
      BY <1>1, <1>2, <1>5, <3>1
    <3> QED BY <3>1, <3>2
  <2>2. CASE ~(i < k)
    <3>1. i - (k - 1) \in 1..(Len(s) - k) /\ from(i) = i + 1 /\ i + 1 # k /\ i + 1 \in 1..Len(s)
      BY <1>1, <1>5, <2>2
    <3>2. t[i] = b[i - (k - 1)]
      <4>1. t[i] = IF i <= k - 1 THEN a[i] ELSE b[i - (k - 1)]
        BY <1>5
      <4>2. ~(i <= k - 1)
        BY <1>1, <1>5, <2>2
      <4> QED BY ONLY <4>1, <4>2
    <3>3. b[i - (k - 1)] = s[k + (i - (k - 1))] /\ k + (i - (k - 1)) = i + 1
      BY <1>1, <1>3, <1>5, <3>1
    <3> QED BY <3>1, <3>2, <3>3
  <2> QED BY <2>1, <2>2
<1>7. \A i, j \in 1..Len(t) : from(i) = from(j) => i = j
  BY <1>1, <1>5
<1> HIDE DEF from
<1>8. \A i \in 1..Len(t) : t[i] # s[k] /\ \E j \in 1..Len(s) : t[i] = s[j]
  BY <1>6
<1>9. \A i, j \in 1..Len(t) : t[i] = t[j] => i = j
  BY <1>6, <1>7
<1> QED BY <1>5, <1>8, <1>9 DEF t

-----------------------------------------------------------------------------
(* The invariant, step by step.                                             *)

LEMMA InitInv == Init => Inv
<1> SUFFICES ASSUME Init PROVE Inv
  OBVIOUS
<1>1. TypeOK
  <2>1. <<>> \in Seq(Message) /\ <<>> \in Seq(Calls)
    OBVIOUS
  <2> QED BY <2>1 DEF Init, TypeOK
<1>2. 1..Len(toPeer) = {} /\ 1..Len(toUs) = {} /\ 1..Len(queue) = {}
  BY DEF Init
<1>3. Directed /\ Locked /\ Waiting /\ Matched /\ NoReplyTwice /\ AnswersMatch
  BY <1>2, NamesAssumption, Messages DEF Init, Directed, Locked, Waiting, Matched, In, NoReplyTwice, AnswersMatch
<1>4. \A c \in Calls : ~Returned(c) /\ answer # c /\ busy # Request(c)
  BY NamesAssumption, Messages DEF Init, Returned
<1>5. Once
  BY <1>2, <1>4 DEF Once, Distinct, In
<1> QED BY <1>1, <1>3, <1>5 DEF Inv

\* A request gets the lock: its id is nowhere yet, and nothing else is pending.
LEMMA SendInv ==
  ASSUME Inv, NEW c \in Calls, caller[c] \in {"idle", "queued"}, holder = None, Send(c),
         UNCHANGED <<closed, toUs, busy, fired, late>>,
         queue' \in Seq(Calls), \A i \in 1..Len(queue') : caller[queue'[i]] = "queued" /\ queue'[i] # c,
         \A i, j \in 1..Len(queue') : queue'[i] = queue'[j] => i = j
  PROVE  Inv'
<1>1. CASE closed
  <2>1. /\ caller' = [caller EXCEPT ![c] = "done"] /\ result' = [result EXCEPT ![c] = Failed]
        /\ UNCHANGED <<holder, pending, answer, toPeer, closed, toUs, busy, fired, late>>
    BY <1>1 DEF Send
  <2>2. TypeOK'
    BY <2>1 DEF Inv, TypeOK
  <2>3. Directed' /\ Matched' /\ Waiting'
    BY <2>1 DEF Inv, TypeOK, Directed, Matched, Waiting, In
  <2>4. Locked'
    BY <2>1, NamesAssumption DEF Inv, TypeOK, Locked
  <2>5. \A d \in Calls : Returned(d)' => Returned(d)
    BY <2>1, NamesAssumption DEF Inv, TypeOK, Returned
  <2>6. Once'
    BY <2>1, <2>5 DEF Inv, TypeOK, Once, Distinct, In
  <2>7. NoReplyTwice' /\ AnswersMatch'
    BY <2>1, NamesAssumption DEF Inv, TypeOK, NoReplyTwice, AnswersMatch
  <2> QED BY <2>2, <2>3, <2>4, <2>6, <2>7 DEF Inv
<1>2. CASE ~closed
  <2>1. /\ caller' = [caller EXCEPT ![c] = "sent"] /\ holder' = c /\ pending' = c /\ answer' = None
        /\ toPeer' = Append(toPeer, Request(c))
        /\ UNCHANGED <<result, closed, toUs, busy, fired, late>>
    BY <1>2 DEF Send
  <2>2. toPeer \in Seq(Message) /\ Request(c) \in Message
    BY Messages DEF Inv, TypeOK
  <2>3. TypeOK'
    BY <2>1, <2>2, AppendFacts DEF Inv, TypeOK
  <2>4. /\ \A x : In(x, toPeer') <=> In(x, toPeer) \/ x = Request(c)
        /\ \A i \in 1..Len(toPeer') : toPeer'[i] = Request(c) \/ \E j \in 1..Len(toPeer) : toPeer'[i] = toPeer[j]
        /\ Distinct(toPeer, "request") /\ ~In(Request(c), toPeer) => Distinct(toPeer', "request")
    BY <2>1, <2>2, AppendFacts
  <2>5. Directed'
    BY <2>1, <2>4, Messages DEF Inv, Directed
  <2>6. Locked' /\ Waiting'
    BY <2>1, NamesAssumption DEF Inv, TypeOK, Locked, Waiting
  <2>7. \A d \in Calls : In(Request(d), toPeer') <=> In(Request(d), toPeer) \/ d = c
    BY <2>4, Messages
  <2>8. Once'
    <3>1. \A d \in Calls : answer' # d /\ (Returned(d)' <=> Returned(d)) /\ (In(Reply(d), toUs)' <=> In(Reply(d), toUs))
      BY <2>1, NamesAssumption DEF Returned, In
    <3>2. ~In(Request(c), toPeer) /\ busy # Request(c) /\ ~In(Reply(c), toUs) /\ ~Returned(c)
      BY DEF Inv, Once
    <3>3. Distinct(toPeer', "request") /\ Distinct(toUs, "reply")'
      BY <2>1, <2>4, <3>2 DEF Inv, Once, Distinct
    <3>4. \A d \in Calls : caller'[d] \in {"idle", "queued"} => d # c /\ caller[d] \in {"idle", "queued"}
      BY <2>1 DEF Inv, TypeOK
    <3>5. UNCHANGED busy
      BY <2>1
    <3> HIDE DEF Returned, In
    <3> QED BY <2>7, <3>1, <3>2, <3>3, <3>4, <3>5 DEF Inv, Once
  <2>9. Matched'
    <3>1. pending = None
      BY DEF Inv, Locked
    <3>2. \A d \in Calls : d # None
      BY NamesAssumption
    <3> QED BY <1>2, <2>1, <2>7, <3>1, <3>2 DEF Inv, Matched, In
  <2>10. NoReplyTwice' /\ AnswersMatch'
    BY <2>1 DEF Inv, NoReplyTwice, AnswersMatch
  <2> QED BY <2>3, <2>5, <2>6, <2>8, <2>9, <2>10 DEF Inv
<1> QED BY <1>1, <1>2

LEMMA AskInv == ASSUME Inv, NEW c \in Calls, Ask(c) PROVE Inv'
<1>1. caller[c] = "idle" /\ UNCHANGED <<closed, toUs, busy, fired, late>>
  BY DEF Ask
<1>2. CASE LockFree
  <2>1. holder = None /\ queue = <<>> /\ queue' = <<>> /\ Send(c)
    BY <1>2 DEF Ask, LockFree
  <2> QED BY <1>1, <2>1, SendInv
<1>3. CASE ~LockFree
  <2>1. /\ caller' = [caller EXCEPT ![c] = "queued"] /\ queue' = Append(queue, c)
        /\ UNCHANGED <<result, holder, pending, answer, toPeer, closed, toUs, busy, fired, late>>
    BY <1>3 DEF Ask
  <2>2. /\ queue \in Seq(Calls) /\ queue' \in Seq(Calls) /\ Len(queue') = Len(queue) + 1 /\ Len(queue) \in Nat
        /\ \A i \in 1..Len(queue) : queue'[i] = queue[i]
        /\ queue'[Len(queue) + 1] = c
    BY <2>1, AppendProperties DEF Inv, TypeOK
  <2>3. \A i \in 1..Len(queue) : queue[i] \in Calls /\ queue[i] # c
    BY <1>1, <2>2 DEF Inv, Waiting
  <2>4. \A i \in 1..Len(queue') : i \in 1..Len(queue) \/ i = Len(queue) + 1
    BY <2>2
  <2>5. TypeOK'
    BY <2>1, <2>2 DEF Inv, TypeOK
  <2>6. Waiting'
    BY <2>1, <2>2, <2>3, <2>4 DEF Inv, TypeOK, Waiting
  <2>7. Locked' /\ Directed' /\ Matched' /\ NoReplyTwice' /\ AnswersMatch'
    BY <1>1, <2>1, NamesAssumption DEF Inv, TypeOK, Locked, Directed, Matched, In, NoReplyTwice, AnswersMatch
  <2>8. Once'
    BY <1>1, <2>1 DEF Inv, TypeOK, Once, Distinct, In, Returned
  <2> QED BY <2>5, <2>6, <2>7, <2>8 DEF Inv
<1> QED BY <1>2, <1>3

LEMMA WakeInv == ASSUME Inv, Wake PROVE Inv'
<1>1. /\ holder = None /\ queue # <<>> /\ queue' = Tail(queue) /\ Send(Head(queue))
      /\ UNCHANGED <<closed, toUs, busy, fired, late>>
  BY DEF Wake
<1>2. /\ queue \in Seq(Calls) /\ Head(queue) \in Calls /\ Head(queue) = queue[1] /\ 1 \in 1..Len(queue)
      /\ queue' \in Seq(Calls)
      /\ \A i \in 1..Len(queue') : i + 1 \in 1..Len(queue) /\ queue'[i] = queue[i + 1]
  BY <1>1, TailFacts DEF Inv, TypeOK
<1>3. caller[Head(queue)] = "queued"
  BY <1>2 DEF Inv, Waiting
<1>4. \A i \in 1..Len(queue') : caller[queue'[i]] = "queued" /\ queue'[i] # Head(queue)
  <2> TAKE i \in 1..Len(queue')
  <2>1. i \in Nat /\ i # 0
    BY <1>2
  <2> QED BY <1>2, <2>1 DEF Inv, Waiting
<1>5. \A i, j \in 1..Len(queue') : queue'[i] = queue'[j] => i = j
  <2> TAKE i, j \in 1..Len(queue')
  <2>1. queue'[i] = queue'[j] => i + 1 = j + 1
    BY <1>2 DEF Inv, Waiting
  <2> QED BY <1>2, <2>1
<1> QED BY <1>1, <1>2, <1>3, <1>4, <1>5, SendInv
\* A request returns.  When nobody gave up, what it returns is the reply to its own id, and
\* that id is no longer on the way.
LEMMA LeaveInv ==
  ASSUME Inv, NEW c \in Calls, caller[c] = "sent", NEW res \in {answer, Failed}, res # None, Leave(c, res),
         UNCHANGED <<queue, closed, link, fired>>,
         late' \in BOOLEAN, ~late' => ~late /\ answer # None
  PROVE  Inv'
<1>1. /\ caller' = [caller EXCEPT ![c] = "done"] /\ result' = [result EXCEPT ![c] = res]
      /\ holder' = None /\ pending' = None /\ answer' = None
      /\ UNCHANGED <<queue, closed, toPeer, toUs, busy, fired>>
  BY DEF Leave, link
<1>2. c = pending /\ \A d \in Calls : d # None /\ d # Failed
  BY NamesAssumption DEF Inv, Locked
<1>3. TypeOK'
  BY <1>1 DEF Inv, TypeOK
<1>4. Directed'
  BY <1>1 DEF Inv, Directed
<1>5. Locked' /\ Waiting'
  BY <1>1, <1>2, NamesAssumption DEF Inv, TypeOK, Locked, Waiting
<1>6. \A d \in Calls : Returned(d)' => Returned(d) \/ answer = d
  BY <1>1, <1>2 DEF Inv, TypeOK, Returned
<1>7. Once'
  <2>1. \A d \in Calls : answer' # d
    BY <1>1, <1>2
  <2>2. \A d \in Calls : caller'[d] \in {"idle", "queued"} => caller[d] \in {"idle", "queued"}
    BY <1>1 DEF Inv, TypeOK
  <2>3. \A m : (In(m, toPeer)' <=> In(m, toPeer)) /\ (In(m, toUs)' <=> In(m, toUs))
    BY <1>1 DEF In
  <2>4. Distinct(toPeer, "request")' /\ Distinct(toUs, "reply")'
    BY <1>1 DEF Inv, Once, Distinct
  <2>5. UNCHANGED <<busy, toPeer, toUs>>
    BY <1>1
  <2> QED BY <1>6, <2>1, <2>2, <2>3, <2>4, <2>5 DEF Inv, Once
<1>8. Matched'
  <2>1. SUFFICES ASSUME ~late', ~closed, NEW d \in Calls,
                        In(Request(d), toPeer) \/ busy = Request(d) \/ In(Reply(d), toUs)
                 PROVE  FALSE
    BY <1>1 DEF Matched, In
  <2>2. d = c
    BY <1>2, <2>1 DEF Inv, Matched
  <2>3. answer = c
    BY <1>2, <2>1 DEF Inv, Matched, Locked
  <2> QED BY <2>1, <2>2, <2>3 DEF Inv, Once
<1>9. NoReplyTwice'
  BY <1>1, <1>2 DEF Inv, TypeOK, NoReplyTwice, Once, Returned
<1>10. AnswersMatch'
  BY <1>1, <1>2 DEF Inv, TypeOK, AnswersMatch, Matched
<1> QED BY <1>3, <1>4, <1>5, <1>7, <1>8, <1>9, <1>10 DEF Inv

LEMMA ResumeInv == ASSUME Inv, NEW c \in Calls, Resume(c) PROVE Inv'
BY LeaveInv DEF Resume, Inv, TypeOK

LEMMA TimeOutInv == ASSUME Inv, NEW c \in Calls, TimeOut(c) PROVE Inv'
BY LeaveInv, NamesAssumption DEF TimeOut

LEMMA CancelInv == ASSUME Inv, NEW c \in Calls, Cancel(c) PROVE Inv'
<1>1. CASE caller[c] = "sent"
  <2>1. Leave(c, Failed) /\ late' = (late \/ answer = None) /\ UNCHANGED <<queue, closed, link, fired>>
    BY <1>1 DEF Cancel
  <2>2. late' \in BOOLEAN /\ (~late' => ~late /\ answer # None)
    BY <2>1 DEF Inv, TypeOK
  <2> QED BY <1>1, <2>1, <2>2, LeaveInv, NamesAssumption
<1>2. CASE caller[c] = "queued"
  <2>1. PICK k \in 1..Len(queue) : queue[k] = c /\ queue' = RemoveAt(queue, k)
    BY <1>2 DEF Cancel, Inv, TypeOK
  <2>2. /\ caller' = [caller EXCEPT ![c] = "done"] /\ result' = [result EXCEPT ![c] = Failed]
        /\ UNCHANGED <<holder, pending, answer, closed, toPeer, toUs, busy, fired, late>>
    BY <1>2 DEF Cancel, link
  <2>3. /\ queue' \in Seq(Calls)
        /\ \A i \in 1..Len(queue') : queue'[i] # c /\ \E j \in 1..Len(queue) : queue'[i] = queue[j]
        /\ \A i, j \in 1..Len(queue') : queue'[i] = queue'[j] => i = j
    BY <2>1, RemovedFacts DEF Inv, TypeOK, Waiting
  <2>4. TypeOK'
    BY <2>2, <2>3 DEF Inv, TypeOK
  <2>5. Waiting'
    BY <2>2, <2>3 DEF Inv, TypeOK, Waiting
  <2>6. Locked' /\ Directed' /\ Matched'
    BY <1>2, <2>2 DEF Inv, TypeOK, Locked, Directed, Matched, In
  <2>7. \A d \in Calls : Returned(d)' => Returned(d)
    BY <2>2, NamesAssumption DEF Inv, TypeOK, Returned
  <2>8. Once'
    BY <1>2, <2>2, <2>7 DEF Inv, TypeOK, Once, Distinct, In
  <2>9. NoReplyTwice' /\ AnswersMatch'
    BY <2>2, NamesAssumption DEF Inv, TypeOK, NoReplyTwice, AnswersMatch
  <2> QED BY <2>4, <2>5, <2>6, <2>8, <2>9 DEF Inv
<1> QED BY <1>1, <1>2 DEF Cancel

-----------------------------------------------------------------------------
(* The link.                                                                *)

\* A step that only moves messages: no id comes in, none is doubled, and each that moves goes
\* to a place further on.  The places of the ids tell the rest of the invariant.
LEMMA LinkInv ==
  ASSUME Inv, UNCHANGED <<caller, result, lock, pending, late>>, closed => closed',
         TypeOK', Directed',
         Distinct(toPeer', "request"), Distinct(toUs', "reply"),
         pending' = None => answer' = None, answer' = Failed => closed',
         \/ answer' \in {answer, Failed}
         \/ ~closed /\ \E c \in Calls : answer' = c /\ In(Reply(c), toUs) /\ ~In(Reply(c), toUs'),
         \A c \in Calls :
           /\ In(Request(c), toPeer') => In(Request(c), toPeer)
           /\ busy' = Request(c) => busy = Request(c) \/ (In(Request(c), toPeer) /\ ~In(Request(c), toPeer'))
           /\ In(Reply(c), toUs') => In(Reply(c), toUs) \/ (busy = Request(c) /\ busy' # Request(c))
  PROVE  Inv'
<1>1. UNCHANGED <<caller, result, queue, holder, pending, late>>
  BY DEF lock
<1>2. Locked' /\ Waiting' /\ NoReplyTwice' /\ AnswersMatch'
  BY <1>1 DEF Inv, Locked, Waiting, NoReplyTwice, AnswersMatch
<1>3. \A c \in Calls : (Returned(c)' <=> Returned(c)) /\ c # Failed
  BY <1>1, NamesAssumption DEF Returned
<1>4. \A c \in Calls : answer' = c => answer = c \/ (~closed /\ In(Reply(c), toUs) /\ ~In(Reply(c), toUs'))
  BY <1>3
<1>5. \A m : (In(m, toPeer)' <=> In(m, toPeer')) /\ (In(m, toUs)' <=> In(m, toUs'))
  BY DEF In
<1>6. Distinct(toPeer, "request")' /\ Distinct(toUs, "reply")'
  BY DEF Distinct
<1>7. Once'
  BY <1>1, <1>3, <1>4, <1>5, <1>6 DEF Inv, Once
<1>8. Matched'
  <2>1. answer' \in Calls \cup {None, Failed}
    BY DEF TypeOK
  <2> QED BY <1>1, <1>4, <1>5, <2>1 DEF Inv, Matched
<1> QED BY <1>2, <1>7, <1>8 DEF Inv
LEMMA FireInv == ASSUME Inv, NEW f \in Fires, Fire(f) PROVE Inv'
<1> DEFINE m == [kind |-> "fire", id |-> f]
<1>1. /\ toPeer' = Append(toPeer, m) /\ fired' = fired \cup {f}
      /\ UNCHANGED <<caller, result, lock, pending, answer, closed, toUs, busy, late>>
  BY DEF Fire
<1>2. m \in Message /\ m.kind = "fire" /\ toPeer \in Seq(Message)
  BY DEF Message, Inv, TypeOK
<1> HIDE DEF m
<1>3. /\ toPeer' \in Seq(Message)
      /\ \A x : In(x, toPeer') <=> In(x, toPeer) \/ x = m
      /\ \A i \in 1..Len(toPeer') : toPeer'[i] = m \/ \E j \in 1..Len(toPeer) : toPeer'[i] = toPeer[j]
      /\ Distinct(toPeer, "request") => Distinct(toPeer', "request")
  BY <1>1, <1>2, AppendFacts
<1>4. TypeOK'
  BY <1>1, <1>3 DEF Inv, TypeOK, lock
<1>5. Directed'
  BY <1>1, <1>2, <1>3 DEF Inv, Directed
<1>6. \A c \in Calls : m # Request(c)
  BY <1>2, Shape
<1>7. Distinct(toPeer', "request") /\ Distinct(toUs', "reply") /\ \A x : In(x, toUs') <=> In(x, toUs)
  BY <1>1, <1>3 DEF Inv, Once
<1>8. (pending' = None => answer' = None) /\ (answer' = Failed => closed')
  BY <1>1 DEF Inv, Locked
<1> QED BY <1>1, <1>3, <1>4, <1>5, <1>6, <1>7, <1>8, LinkInv

LEMMA ReceiveInv == ASSUME Inv, Receive PROVE Inv'
<1> DEFINE m == Head(toUs)
<1>1. /\ ~closed /\ toUs # <<>> /\ toUs' = Tail(toUs)
      /\ answer' = IF ~IsAck(m) /\ pending # None /\ answer = None THEN m.id ELSE answer
      /\ UNCHANGED <<caller, result, lock, pending, closed, toPeer, busy, fired, late>>
  BY DEF Receive
<1>2. /\ toUs' \in Seq(Message) /\ m \in Message /\ m = toUs[1] /\ 1 \in 1..Len(toUs) /\ In(m, toUs)
      /\ \A x : In(x, toUs') => In(x, toUs)
      /\ \A i \in 1..Len(toUs') : i + 1 \in 1..Len(toUs) /\ toUs'[i] = toUs[i + 1]
      /\ Distinct(toUs, "reply") => Distinct(toUs', "reply") /\ (m.kind = "reply" => ~In(m, toUs'))
  BY <1>1, TailFacts DEF Inv, TypeOK
<1> HIDE DEF m
<1>3. m.kind \in {"reply", "ack"}
  BY <1>2 DEF Inv, Directed
<1>4. m.kind = "reply" => m.id \in Calls /\ m = Reply(m.id) /\ ~In(m, toUs')
  BY <1>2, Shape DEF Inv, Once
<1>5. answer' = answer \/ \E c \in Calls : answer' = c /\ In(Reply(c), toUs) /\ ~In(Reply(c), toUs')
  BY <1>1, <1>2, <1>3, <1>4 DEF IsAck
<1>6. TypeOK'
  BY <1>1, <1>2, <1>5 DEF Inv, TypeOK, lock
<1>7. Directed'
  BY <1>1, <1>2 DEF Inv, Directed
<1>8. Distinct(toPeer', "request") /\ Distinct(toUs', "reply") /\ \A x : In(x, toPeer') <=> In(x, toPeer)
  BY <1>1, <1>2 DEF Inv, Once
<1>9. (pending' = None => answer' = None) /\ (answer' = Failed => closed')
  BY <1>1, <1>5, NamesAssumption DEF Inv, Locked
<1> QED BY <1>1, <1>2, <1>5, <1>6, <1>7, <1>8, <1>9, LinkInv

LEMMA CloseInv == ASSUME Inv, Close PROVE Inv'
<1>1. /\ closed' = TRUE /\ toUs' = <<>>
      /\ answer' = IF pending # None /\ answer = None THEN Failed ELSE answer
      /\ UNCHANGED <<caller, result, lock, pending, toPeer, busy, fired, late>>
  BY DEF Close
<1>2. toUs' \in Seq(Message) /\ 1..Len(toUs') = {}
  BY <1>1
<1>3. TypeOK'
  BY <1>1, <1>2 DEF Inv, TypeOK, lock
<1>4. Directed'
  BY <1>1, <1>2 DEF Inv, Directed
<1>5. Distinct(toPeer', "request") /\ Distinct(toUs', "reply")
  BY <1>1, <1>2 DEF Inv, Once, Distinct
<1>6. \A x : ~In(x, toUs') /\ (In(x, toPeer') <=> In(x, toPeer))
  BY <1>1, <1>2 DEF In
<1>7. pending' = None => answer' = None
  BY <1>1 DEF Inv, Locked
<1> QED BY <1>1, <1>3, <1>4, <1>5, <1>6, <1>7, LinkInv

LEMMA PeerTakesInv == ASSUME Inv, PeerTakes PROVE Inv'
<1> DEFINE m == Head(toPeer)
           ack == [kind |-> "ack", id |-> m.id]
<1>1. /\ busy = None /\ toPeer # <<>> /\ busy' = m /\ toPeer' = Tail(toPeer)
      /\ toUs' = IF m.kind = "fire" THEN Append(toUs, ack) ELSE toUs
      /\ UNCHANGED <<caller, result, lock, pending, answer, closed, fired, late>>
  BY DEF PeerTakes
<1>2. /\ toPeer' \in Seq(Message) /\ m \in Message /\ m = toPeer[1] /\ 1 \in 1..Len(toPeer) /\ In(m, toPeer)
      /\ \A x : In(x, toPeer') => In(x, toPeer)
      /\ \A i \in 1..Len(toPeer') : i + 1 \in 1..Len(toPeer) /\ toPeer'[i] = toPeer[i + 1]
      /\ Distinct(toPeer, "request") => Distinct(toPeer', "request") /\ (m.kind = "request" => ~In(m, toPeer'))
  BY <1>1, TailFacts DEF Inv, TypeOK
<1> HIDE DEF m
<1>3. m.kind \in {"request", "fire"}
  BY <1>2 DEF Inv, Directed
<1>4. m.kind = "fire" => ack \in Message /\ ack.kind = "ack"
  <2>1. m.kind = "fire" => m.id \in Fires
    BY <1>2, Shape
  <2> QED BY <2>1 DEF Message
<1> HIDE DEF ack
<1>5. /\ toUs' \in Seq(Message)
      /\ \A x : In(x, toUs') => In(x, toUs) \/ (x = ack /\ m.kind = "fire")
      /\ \A i \in 1..Len(toUs') : (toUs'[i] = ack /\ m.kind = "fire") \/ \E j \in 1..Len(toUs) : toUs'[i] = toUs[j]
      /\ Distinct(toUs', "reply")
  <2>1. toUs \in Seq(Message) /\ Distinct(toUs, "reply")
    BY DEF Inv, TypeOK, Once
  <2>2. CASE m.kind = "fire"
    BY <1>1, <1>4, <2>1, <2>2, AppendFacts
  <2>3. CASE m.kind # "fire"
    BY <1>1, <2>1, <2>3
  <2> QED BY <2>2, <2>3
<1>6. TypeOK'
  BY <1>1, <1>2, <1>5 DEF Inv, TypeOK, lock
<1>7. Directed'
  BY <1>1, <1>2, <1>3, <1>4, <1>5 DEF Inv, Directed
<1>8. \A c \in Calls : In(Reply(c), toUs') => In(Reply(c), toUs)
  BY <1>4, <1>5, Shape
<1>9. \A c \in Calls : m = Request(c) => m.kind = "request"
  BY Messages
<1>10. Distinct(toPeer', "request") /\ \A c \in Calls : busy' = Request(c) => In(Request(c), toPeer) /\ ~In(Request(c), toPeer')
  BY <1>1, <1>2, <1>9 DEF Inv, Once
<1>11. (pending' = None => answer' = None) /\ (answer' = Failed => closed')
  BY <1>1 DEF Inv, Locked
<1> QED BY <1>1, <1>2, <1>5, <1>6, <1>7, <1>8, <1>10, <1>11, LinkInv

LEMMA PeerFinishesInv == ASSUME Inv, PeerFinishes PROVE Inv'
<1>1. /\ busy # None /\ busy' = None /\ toUs' = Replied(busy)
      /\ UNCHANGED <<caller, result, lock, pending, answer, closed, toPeer, fired, late>>
  BY DEF PeerFinishes
<1>2. busy \in Message /\ toUs \in Seq(Message) /\ Distinct(toUs, "reply")
  BY <1>1 DEF Inv, TypeOK, Once
<1>3. /\ toUs' \in Seq(Message) /\ Distinct(toUs', "reply")
      /\ \A i \in 1..Len(toUs') : toUs'[i].kind = "reply" \/ \E j \in 1..Len(toUs) : toUs'[i] = toUs[j]
      /\ \A c \in Calls : In(Reply(c), toUs') => In(Reply(c), toUs) \/ busy = Request(c)
  <2>1. CASE busy.kind = "request"
    <3>1. busy.id \in Calls /\ busy = Request(busy.id) /\ toUs' = Append(toUs, Reply(busy.id))
      BY <1>1, <1>2, <2>1, Shape DEF Replied
    <3>2. Reply(busy.id) \in Message /\ Reply(busy.id).kind = "reply" /\ ~In(Reply(busy.id), toUs)
      BY <3>1, Messages DEF Inv, Once
    <3>3. \A c \in Calls : Reply(c) = Reply(busy.id) => c = busy.id
      BY <3>1, Messages
    <3>4. \A x : In(x, toUs') <=> In(x, toUs) \/ x = Reply(busy.id)
      BY <1>2, <3>1, <3>2, AppendFacts
    <3>5. /\ toUs' \in Seq(Message) /\ Distinct(toUs', "reply")
          /\ \A i \in 1..Len(toUs') : toUs'[i] = Reply(busy.id) \/ \E j \in 1..Len(toUs) : toUs'[i] = toUs[j]
      BY <1>2, <3>1, <3>2, AppendFacts
    <3> QED BY <3>1, <3>2, <3>3, <3>4, <3>5
  <2>2. CASE busy.kind # "request"
    BY <1>1, <1>2, <2>2 DEF Replied
  <2> QED BY <2>1, <2>2
<1>4. TypeOK'
  BY <1>1, <1>3 DEF Inv, TypeOK, lock
<1>5. Directed'
  BY <1>1, <1>3 DEF Inv, Directed
<1>6. \A c \in Calls : busy' # Request(c)
  BY <1>1, Messages
<1>7. Distinct(toPeer', "request") /\ \A x : In(x, toPeer') <=> In(x, toPeer)
  BY <1>1 DEF Inv, Once
<1>8. (pending' = None => answer' = None) /\ (answer' = Failed => closed')
  BY <1>1 DEF Inv, Locked
<1> QED BY <1>1, <1>3, <1>4, <1>5, <1>6, <1>7, <1>8, LinkInv

LEMMA PeerRestartsInv == ASSUME Inv, PeerRestarts PROVE Inv'
<1>1. busy' = None /\ UNCHANGED <<caller, result, lock, pending, answer, closed, toPeer, toUs, fired, late>>
  BY DEF PeerRestarts
<1>2. TypeOK' /\ Directed'
  BY <1>1 DEF Inv, TypeOK, Directed, lock
<1>3. \A c \in Calls : busy' # Request(c)
  BY <1>1, Messages
<1>4. Distinct(toPeer', "request") /\ Distinct(toUs', "reply") /\ \A x : (In(x, toPeer') <=> In(x, toPeer)) /\ (In(x, toUs') <=> In(x, toUs))
  BY <1>1 DEF Inv, Once
<1>5. (pending' = None => answer' = None) /\ (answer' = Failed => closed')
  BY <1>1 DEF Inv, Locked
<1> QED BY <1>1, <1>2, <1>3, <1>4, <1>5, LinkInv

LEMMA DropInv == ASSUME Inv, Drop PROVE Inv'
<1>1. UNCHANGED <<caller, result, lock, pending, answer, closed, busy, fired, late>>
  BY DEF Drop
<1>2. toPeer \in Seq(Message) /\ toUs \in Seq(Message) /\ Distinct(toPeer, "request") /\ Distinct(toUs, "reply")
  BY DEF Inv, TypeOK, Once
<1>3. /\ toPeer' \in Seq(Message) /\ Distinct(toPeer', "request") /\ \A x : In(x, toPeer') => In(x, toPeer)
      /\ \A i \in 1..Len(toPeer') : \E j \in 1..Len(toPeer) : toPeer'[i] = toPeer[j]
      /\ toUs' \in Seq(Message) /\ Distinct(toUs', "reply") /\ \A x : In(x, toUs') => In(x, toUs)
      /\ \A i \in 1..Len(toUs') : \E j \in 1..Len(toUs) : toUs'[i] = toUs[j]
  <2>1. CASE toPeer # <<>> /\ toPeer' = Tail(toPeer) /\ UNCHANGED toUs
    BY <1>2, <2>1, TailFacts
  <2>2. CASE toUs # <<>> /\ toUs' = Tail(toUs) /\ UNCHANGED toPeer
    BY <1>2, <2>2, TailFacts
  <2> QED BY <2>1, <2>2 DEF Drop
<1>4. TypeOK'
  BY <1>1, <1>3 DEF Inv, TypeOK, lock
<1>5. Directed'
  BY <1>1, <1>3 DEF Inv, Directed
<1>6. (pending' = None => answer' = None) /\ (answer' = Failed => closed')
  BY <1>1 DEF Inv, Locked
<1> QED BY <1>1, <1>3, <1>4, <1>5, <1>6, LinkInv

LEMMA StepInv == ASSUME Inv, [Next]_vars PROVE Inv'
<1>1. CASE UNCHANGED vars
  BY <1>1 DEF vars, lock, link, Inv, TypeOK, Directed, Locked, Waiting, Once, Distinct, In, Returned, Matched,
              NoReplyTwice, AnswersMatch
<1>2. CASE Next
  BY <1>2, AskInv, ResumeInv, TimeOutInv, CancelInv, FireInv, WakeInv, ReceiveInv, CloseInv,
     PeerTakesInv, PeerFinishesInv, PeerRestartsInv, DropInv DEF Next
<1> QED BY <1>1, <1>2

LEMMA Invariance == Spec => []Inv
BY InitInv, StepInv, PTL DEF Spec

-----------------------------------------------------------------------------
\* Every state of the dealer, the router and the peer is well-typed: what a reply puts into
\* the pending future is always a reply, because acks are told from replies by their sentinel.
THEOREM TypeCorrect == Spec => []TypeOK
BY Invariance, PTL DEF Inv

\* Whatever is lost, late, cancelled or restarted, one reply never answers two requests.
THEOREM RepliesUsedOnce == Spec => []NoReplyTwice
BY Invariance, PTL DEF Inv

\* For any number of callers, fires and restarts: until a request() gives up, each gets the
\* reply to its own command, although replies carry no id.
THEOREM RepliesMatch == Spec => []AnswersMatch
BY Invariance, PTL DEF Inv
=============================================================================
