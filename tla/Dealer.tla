------------------------------- MODULE Dealer -------------------------------
(***************************************************************************)
(* Request/reply and fire-and-forget over the router: IpcDealerAsync of     *)
(* lib/ipc/router_dealer (the MCP server's dealer), IpcRouter between, and   *)
(* the dealer of the peer (the backend), which serves commands one by one.  *)
(*                                                                          *)
(* One event loop runs the callers of request() and the receive loop; a     *)
(* step is what a task does between two awaits.  The router keeps the order *)
(* of each direction, drops what it cannot deliver, and its messages carry  *)
(* no correlation id: the id of a message below is what the peer's handler  *)
(* puts into the payload, which the dealer never reads.                     *)
(***************************************************************************)
EXTENDS Naturals, Sequences, SequencesExt

CONSTANTS
  Calls,   \* request()s, each made once
  Fires,   \* fire()s, each made once
  None,    \* Python's None
  Failed   \* an error dict: timeout, cancellation, send error

ASSUME NamesAssumption ==
  /\ Calls \cap Fires = {} /\ {None, Failed} \cap (Calls \cup Fires) = {} /\ None # Failed

VARIABLES
  caller,  \* where each request() is
  result,  \* what it returned
  queue,   \* self._send_lock: tasks waiting for it, in order
  holder,  \* the task that has it
  pending, \* self._pending_reply: the call whose future it is
  answer,  \* what that future was set to
  closed,  \* close() has run: socket closed, receive loop cancelled
  toPeer, toUs, \* messages on the way, each direction through the router
  busy,    \* the command the peer's receive loop is handling
  fired,   \* fires made
  late     \* history: a request() has given up while its answer might still come

link == <<toPeer, toUs, busy>>
lock == <<queue, holder>>
vars == <<caller, result, lock, pending, answer, closed, link, fired, late>>

Message == [kind : {"request", "reply"}, id : Calls] \cup [kind : {"fire", "ack"}, id : Fires]
ASSUME NoneAssumption == None \notin Message

Request(c) == [kind |-> "request", id |-> c]
Reply(c) == [kind |-> "reply", id |-> c]

TypeOK ==
  /\ caller \in [Calls -> {"idle", "queued", "sent", "done"}]
  /\ result \in [Calls -> Calls \cup {None, Failed}]
  /\ queue \in Seq(Calls)
  /\ {holder, pending} \subseteq Calls \cup {None}
  /\ answer \in Calls \cup {None, Failed}
  /\ closed \in BOOLEAN /\ late \in BOOLEAN
  /\ toPeer \in Seq(Message) /\ toUs \in Seq(Message)
  /\ busy \in Message \cup {None}
  /\ fired \subseteq Fires

Init ==
  /\ caller = [c \in Calls |-> "idle"] /\ result = [c \in Calls |-> None]
  /\ queue = <<>> /\ holder = None /\ pending = None /\ answer = None
  /\ closed = FALSE /\ toPeer = <<>> /\ toUs = <<>> /\ busy = None
  /\ fired = {} /\ late = FALSE

-----------------------------------------------------------------------------
(* request().                                                               *)

\* The future is stored and the command sent; on a closed socket the send raises.
Send(c) ==
  IF closed THEN /\ caller' = [caller EXCEPT ![c] = "done"]
                 /\ result' = [result EXCEPT ![c] = Failed]
                 /\ UNCHANGED <<holder, pending, answer, toPeer>>
  ELSE /\ caller' = [caller EXCEPT ![c] = "sent"]
       /\ holder' = c /\ pending' = c /\ answer' = None
       /\ toPeer' = Append(toPeer, Request(c))
       /\ UNCHANGED result

\* Mutant: request() without its lock.
LockFree_Always == TRUE

LockFree == holder = None /\ queue = <<>>

Ask(c) ==
  /\ caller[c] = "idle"
  /\ IF LockFree THEN Send(c) /\ UNCHANGED queue
     ELSE /\ caller' = [caller EXCEPT ![c] = "queued"]
          /\ queue' = Append(queue, c)
          /\ UNCHANGED <<result, holder, pending, answer, toPeer>>
  /\ UNCHANGED <<closed, toUs, busy, fired, late>>

\* The lock passes to the task that has waited longest.
Wake ==
  /\ holder = None /\ queue # <<>>
  /\ queue' = Tail(queue)
  /\ Send(Head(queue))
  /\ UNCHANGED <<closed, toUs, busy, fired, late>>

\* The end of request(): the finally clause and the release of the lock.
Leave(c, res) ==
  /\ caller' = [caller EXCEPT ![c] = "done"]
  /\ result' = [result EXCEPT ![c] = res]
  /\ holder' = None /\ pending' = None /\ answer' = None

Resume(c) ==
  /\ caller[c] = "sent" /\ pending = c /\ answer # None
  /\ Leave(c, answer)
  /\ UNCHANGED <<queue, closed, link, fired, late>>

\* Mutant: the timeout leaves the lock taken.
TimeOut_KeepsLock(c) ==
  /\ caller[c] = "sent" /\ answer = None
  /\ caller' = [caller EXCEPT ![c] = "done"]
  /\ result' = [result EXCEPT ![c] = Failed]
  /\ pending' = None /\ answer' = None /\ late' = TRUE
  /\ UNCHANGED <<lock, closed, link, fired>>

TimeOut(c) ==
  /\ caller[c] = "sent" /\ answer = None
  /\ Leave(c, Failed)
  /\ late' = TRUE
  /\ UNCHANGED <<queue, closed, link, fired>>

\* The caller's task is cancelled: request() answers with an error, also when the reply is
\* there already; a caller that still waits for the lock leaves the queue.
Cancel(c) ==
  \/ /\ caller[c] = "sent"
     /\ Leave(c, Failed)
     /\ late' = (late \/ answer = None)
     /\ UNCHANGED <<queue, closed, link, fired>>
  \/ /\ caller[c] = "queued"
     /\ caller' = [caller EXCEPT ![c] = "done"]
     /\ result' = [result EXCEPT ![c] = Failed]
     /\ \E i \in DOMAIN queue : queue[i] = c /\ queue' = RemoveAt(queue, i)
     /\ UNCHANGED <<holder, pending, answer, closed, link, fired, late>>

Fire(f) ==
  /\ f \notin fired /\ ~closed
  /\ fired' = fired \cup {f}
  /\ toPeer' = Append(toPeer, [kind |-> "fire", id |-> f])
  /\ UNCHANGED <<caller, result, lock, pending, answer, closed, toUs, busy, late>>

-----------------------------------------------------------------------------
(* The receive loop and close().                                            *)

\* Mutant: the sentinel byte is not looked at.
IsAck_Never(m) == FALSE

IsAck(m) == m.kind = "ack"

\* An ack is counted, a reply goes to the pending future if it has no result, or is dropped.
Receive ==
  /\ ~closed /\ toUs # <<>>
  /\ toUs' = Tail(toUs)
  /\ answer' = IF ~IsAck(Head(toUs)) /\ pending # None /\ answer = None THEN Head(toUs).id ELSE answer
  /\ UNCHANGED <<caller, result, lock, pending, closed, toPeer, busy, fired, late>>

Close ==
  /\ ~closed
  /\ closed' = TRUE
  /\ answer' = IF pending # None /\ answer = None THEN Failed ELSE answer
  /\ toUs' = <<>>
  /\ UNCHANGED <<caller, result, lock, pending, toPeer, busy, fired, late>>

-----------------------------------------------------------------------------
(* The peer and the router.                                                 *)

\* A fire is acknowledged before its handler runs.
PeerTakes ==
  /\ busy = None /\ toPeer # <<>>
  /\ busy' = Head(toPeer) /\ toPeer' = Tail(toPeer)
  /\ toUs' = IF busy'.kind = "fire" THEN Append(toUs, [kind |-> "ack", id |-> busy'.id]) ELSE toUs
  /\ UNCHANGED <<caller, result, lock, pending, answer, closed, fired, late>>

\* Mutant: an error while the reply is counted has it sent again.
Replied_Twice(m) == IF m.kind = "request" THEN Append(Append(toUs, Reply(m.id)), Reply(m.id)) ELSE toUs

\* What the handler, or the branch that finds none or catches its error, sends.
Replied(m) == IF m.kind = "request" THEN Append(toUs, Reply(m.id)) ELSE toUs

PeerFinishes ==
  /\ busy # None
  /\ busy' = None
  /\ toUs' = Replied(busy)
  /\ UNCHANGED <<caller, result, lock, pending, answer, closed, toPeer, fired, late>>

PeerRestarts ==
  /\ busy # None
  /\ busy' = None
  /\ UNCHANGED <<caller, result, lock, pending, answer, closed, toPeer, toUs, fired, late>>

\* An identity that is not connected, or a full queue.
Drop ==
  /\ \/ toPeer # <<>> /\ toPeer' = Tail(toPeer) /\ UNCHANGED toUs
     \/ toUs # <<>> /\ toUs' = Tail(toUs) /\ UNCHANGED toPeer
  /\ UNCHANGED <<caller, result, lock, pending, answer, closed, busy, fired, late>>

-----------------------------------------------------------------------------
Next ==
  \/ \E c \in Calls : Ask(c) \/ Resume(c) \/ TimeOut(c) \/ Cancel(c)
  \/ \E f \in Fires : Fire(f)
  \/ Wake \/ Receive \/ Close
  \/ PeerTakes \/ PeerFinishes \/ PeerRestarts \/ Drop

Spec == Init /\ [][Next]_vars

\* The event loop runs what is ready, and the ACK_TIMEOUT of a request elapses.
LiveSpec == Spec /\ WF_vars(Wake) /\ \A c \in Calls : WF_vars(Resume(c) \/ TimeOut(c))
-----------------------------------------------------------------------------
(* Properties.                                                              *)

\* As long as no request() gave up early, each gets the reply to its own command, although
\* replies carry no id: the lock lets one be in flight, and acks are told from replies.
AnswersMatch == late \/ \A c \in Calls : result[c] \in {None, Failed, c}

\* One reply never answers two requests, not even after timeouts and cancellations.
NoReplyTwice == \A c, d \in Calls : result[c] = result[d] => c = d \/ result[c] \in {None, Failed}

\* Every request() returns, whatever the router loses and however often the peer dies:
\* the caller ahead in the lock's queue always lets go of it.
CallsReturn == \A c \in Calls : caller[c] \in {"queued", "sent"} ~> caller[c] = "done"
=============================================================================
