---------------------------- MODULE BackendTasks ----------------------------
(***************************************************************************)
(* The tasks of the backend process and their shutdown (pits_n_giggles.py  *)
(* over asyncio): one event loop, one gather of all tasks in the main      *)
(* task, and a shutdown task that stops the others one by one.             *)
(*                                                                         *)
(* The loop is a queue "ready" of callbacks.  An iteration polls, that is, *)
(* what happened outside (a datagram, a timer, a request) schedules the    *)
(* tasks that wait for it, and then runs the callbacks that were ready     *)
(* when it began ("left" of them); what these schedule runs in the next    *)
(* one.  A callback that a task runs until its next await is one or more   *)
(* steps here, all with the callback still at the head of the queue, so    *)
(* that nothing comes between them.  That order matters: the shutdown      *)
(* cancels a task that the main task gathers, so the main task and with it *)
(* the loop are about to end while the shutdown still stops the recorder.  *)
(*                                                                         *)
(* Left out: the periodic publishers, the watchdogs, the dealer and the    *)
(* IPC server, which the shutdown does not wait for; signals; a recorder   *)
(* queue that is full when a finalize or stop item is put (Recorder).      *)
(* Bounds: MaxItems items in the recorder's queue, one unread message per  *)
(* receiver, one just-in-case save.                                        *)
(***************************************************************************)
EXTENDS Naturals, Sequences, FiniteSets

CONSTANTS
    Receivers,  \* the tasks that wait for messages: external API, forwarder, ...
    Failures,   \* what may fail: "start", "web"
    MaxItems    \* room in the recorder's queue

ASSUME ConstantsAssumption ==
    /\ Receivers \cap {"shutdown", "worker", "sampler", "listener", "publisher", "web", "main"} = {}
    /\ IsFiniteSet(Receivers)
    /\ Failures \subseteq {"start", "web"}
    /\ MaxItems \in Nat \ {0}

Task == {"shutdown", "worker", "sampler", "listener", "publisher", "web"} \cup Receivers

VARIABLES
    phase,      \* of asyncio.run: running, stopping, draining, exited
    ready,      \* the callbacks that are scheduled, in order
    left,       \* how many of them this iteration still runs
    at,         \* where each task is suspended, or how it ended
    cancelled,  \* the tasks in which CancelledError is to be raised
    gathered,   \* the outcome of the main task's gather
    event,      \* the shutdown event
    requested,  \* a message is, or was, in the shutdown queue
    mail,       \* the queue of each receiver
    items,      \* the queue of the recorder
    open,       \* the recorder holds an open session
    save        \* the just-in-case save

loop == <<phase, gathered, left, ready>>
recorder == <<items, open>>
signals == <<event, requested, mail>>
vars == <<phase, ready, left, at, cancelled, gathered, event, requested, mail, items, open, save>>

Ended == {"ok", "cancelled", "error", "refused"}
Alive(t) == at[t] \notin Ended

-----------------------------------------------------------------------------
(* The loop *)

Wake(t) == <<"wake", t>>
ChildDone(t) == <<"child", t>>
SamplerJoined == <<"joined", "sampler">>
StopLoop == <<"stop", "main">>
Callbacks == {"wake"} \X (Task \cup {"main"}) \cup {"child"} \X Task \cup {SamplerJoined, StopLoop}

Scheduled(t) == \E i \in DOMAIN ready : ready[i] = Wake(t)

InSomeOrder(tasks) == CHOOSE order \in [1..Cardinality(tasks) -> tasks] :
                         tasks = {order[i] : i \in DOMAIN order}

\* The callbacks that wake those of the tasks that are not scheduled already.
Wakes(tasks) ==
    LET order == InSomeOrder({t \in tasks : ~Scheduled(t)})
    IN  [i \in DOMAIN order |-> Wake(order[i])]

Polling == left = 0 /\ phase \in {"running", "draining"}
Runs(callback) == left > 0 /\ Head(ready) = callback
Resumed(t) == Runs(Wake(t)) /\ t \notin cancelled

\* The callback goes on, having scheduled others.
GoesOn(scheduled) ==
    ready' = ready \o scheduled /\ UNCHANGED <<left, phase, gathered>>

\* The callback returns, having scheduled others.
Yields(scheduled) ==
    ready' = Tail(ready) \o scheduled /\ left' = left - 1 /\ UNCHANGED <<phase, gathered>>

\* The task that runs ends: whoever gathers it is told, the main task first.
Ends(t, outcome, scheduled) ==
    /\ at' = [at EXCEPT ![t] = outcome]
    /\ cancelled' = cancelled \ {t}
    /\ Yields(scheduled \o <<ChildDone(t)>>
              \o IF t = "sampler" /\ at["shutdown"] = "sampler" THEN <<SamplerJoined>> ELSE <<>>)

Init ==
    /\ phase = "running" /\ gathered = "none"
    /\ ready = <<Wake("web")>> /\ left = 0
    /\ at = [t \in Task |->
               CASE t = "shutdown" -> "receive" [] t = "worker" -> "get"
                 [] t = "sampler" -> "sleep" [] t = "listener" -> "recv"
                 [] t = "publisher" -> "idle" [] t = "web" -> "start"
                 [] OTHER -> "get"]
    /\ cancelled = {}
    /\ event = FALSE /\ requested = FALSE /\ mail = [r \in Receivers |-> <<>>]
    /\ items = <<>> /\ open = FALSE
    /\ save = "none"

Iterates ==
    /\ Polling /\ ready # <<>>
    /\ left' = Len(ready)
    /\ UNCHANGED <<phase, ready, at, cancelled, gathered, signals, recorder, save>>

-----------------------------------------------------------------------------
(* What the loop polls *)

Happens(t) ==
    /\ Polling /\ ~Scheduled(t)
    /\ ready' = Append(ready, Wake(t))
    /\ UNCHANGED <<phase, left, gathered, at, cancelled, recorder>>

Datagram == at["listener"] = "recv" /\ Happens("listener") /\ UNCHANGED <<signals, save>>
SamplerTick == at["sampler"] = "sleep" /\ Happens("sampler") /\ UNCHANGED <<signals, save>>
ReceiverDone(r) == at[r] = "busy" /\ Happens(r) /\ UNCHANGED <<signals, save>>
WebStopped == at["shutdown"] = "web" /\ Happens("shutdown") /\ UNCHANGED <<signals, save>>
LastSleepOver == at["shutdown"] = "sleep" /\ Happens("shutdown") /\ UNCHANGED <<signals, save>>

\* serve() sees should_exit.
ServerExits ==
    /\ at["web"] = "serving" /\ at["shutdown"] \notin {"receive", "stop web"}
    /\ Happens("web")
    /\ UNCHANGED <<signals, save>>

\* The launcher asks for the shutdown.
Request ==
    /\ phase = "running" /\ ~requested
    /\ requested' = TRUE
    /\ IF at["shutdown"] = "receive"
         THEN Happens("shutdown")
         ELSE Polling /\ UNCHANGED <<loop, at, cancelled, recorder>>
    /\ UNCHANGED <<event, mail, save>>

\* The save ends, or the shutdown has waited five seconds for it.
SaveEnds ==
    /\ save = "running"
    /\ save' = "done"
    /\ IF at["shutdown"] = "save"
         THEN Happens("shutdown")
         ELSE Polling /\ UNCHANGED <<loop, at, cancelled, recorder>>
    /\ UNCHANGED signals

SaveTimesOut ==
    /\ save = "running" /\ at["shutdown"] = "save"
    /\ save' = "late"
    /\ Happens("shutdown")
    /\ UNCHANGED signals

-----------------------------------------------------------------------------
(* The recorder's queue and its worker *)

\* Mutant: the queue is not bounded.
Put_Unbounded(q, item) == Append(q, item)

\* put_nowait: what has no room is dropped.
Put(q, item) == IF Len(q) < MaxItems THEN Append(q, item) ELSE q
WorkerWake == IF Alive("worker") THEN Wakes({"worker"}) ELSE <<>>

\* Whoever awaits the future of an item is still there to be answered.
Awaits(t, point) == at[t] = point /\ t \notin cancelled

WorkerWrites ==
    /\ Resumed("worker") /\ items # <<>> /\ Head(items) = "data"
    /\ open' = TRUE /\ items' = Tail(items)
    /\ UNCHANGED <<loop, at, cancelled, signals, save>>

\* Answering a cancelled future is an error, that of the except branch too.
WorkerFinalizes ==
    /\ Resumed("worker") /\ items # <<>> /\ Head(items) = "finalize"
    /\ open' = FALSE /\ items' = Tail(items)
    /\ IF Awaits("listener", "finalize")
         THEN GoesOn(Wakes({"listener"})) /\ UNCHANGED <<at, cancelled>>
         ELSE Ends("worker", "error", <<>>)
    /\ UNCHANGED <<signals, save>>

\* Mutant: the worker returns without answering the stop item.
WorkerStops_Silent ==
    /\ Resumed("worker") /\ items # <<>> /\ Head(items) = "stop"
    /\ open' = FALSE /\ items' = Tail(items)
    /\ Ends("worker", "ok", <<>>)
    /\ UNCHANGED <<signals, save>>

WorkerStops ==
    /\ Resumed("worker") /\ items # <<>> /\ Head(items) = "stop"
    /\ open' = FALSE /\ items' = Tail(items)
    /\ IF Awaits("shutdown", "answer")
         THEN Ends("worker", "ok", Wakes({"shutdown"}))
         ELSE Ends("worker", "error", <<>>)
    /\ UNCHANGED <<signals, save>>

WorkerWaits ==
    /\ Resumed("worker") /\ items = <<>>
    /\ Yields(<<>>)
    /\ UNCHANGED <<at, cancelled, signals, recorder, save>>

-----------------------------------------------------------------------------
(* The sampler, the listener, the receivers and the web server *)

\* A sample if a session and a driver are known; the event is looked at last.
SamplerSamples ==
    /\ Resumed("sampler")
    /\ \E known \in BOOLEAN :
         LET wakes == IF known THEN WorkerWake ELSE <<>>
         IN  /\ items' = IF known THEN Put(items, "data") ELSE items
             /\ IF event
                  THEN Ends("sampler", "ok", wakes)
                  ELSE Yields(wakes) /\ UNCHANGED <<at, cancelled>>
    /\ UNCHANGED <<open, signals, save>>

\* Every datagram is recorded before its handler runs.
ListenerRecords ==
    /\ Resumed("listener") /\ at["listener"] = "recv"
    /\ items' = Put(items, "data")
    /\ UNCHANGED <<cancelled, event, requested, open>>

PlainPacket ==
    /\ ListenerRecords
    /\ Yields(WorkerWake)
    /\ UNCHANGED <<at, mail, save>>

\* A handler sends a message to a receiver.
PacketOfReceiver(r) ==
    /\ mail[r] = <<>>
    /\ ListenerRecords
    /\ mail' = [mail EXCEPT ![r] = <<"message">>]
    /\ Yields(WorkerWake \o IF at[r] = "get" THEN Wakes({r}) ELSE <<>>)
    /\ UNCHANGED <<at, save>>

\* A suspicious session start: what is known is saved in a task of its own.
SessionStart ==
    /\ save = "none"
    /\ ListenerRecords
    /\ save' = "running"
    /\ Yields(WorkerWake)
    /\ UNCHANGED <<at, mail>>

\* The classification waits for the worker to finalize the session.
Classification ==
    /\ Len(Put(items, "data")) < MaxItems
    /\ Resumed("listener") /\ at["listener"] = "recv"
    /\ items' = Append(Put(items, "data"), "finalize")
    /\ at' = [at EXCEPT !["listener"] = "finalize"]
    /\ Yields(WorkerWake)
    /\ UNCHANGED <<cancelled, signals, open, save>>

Finalized ==
    /\ Resumed("listener") /\ at["listener"] = "finalize"
    /\ at' = [at EXCEPT !["listener"] = "recv"]
    /\ Yields(<<>>)
    /\ UNCHANGED <<cancelled, signals, recorder, save>>

\* run() catches its cancellation and closes the transport.
ListenerCancelled ==
    /\ Runs(Wake("listener")) /\ "listener" \in cancelled
    /\ Ends("listener", "ok", <<>>)
    /\ UNCHANGED <<signals, recorder, save>>

ReceiverTakes(r) ==
    /\ Resumed(r) /\ at[r] = "get" /\ Head(mail[r]) = "message"
    /\ mail' = [mail EXCEPT ![r] = Tail(@)]
    /\ at' = [at EXCEPT ![r] = "busy"]
    /\ Yields(<<>>)
    /\ UNCHANGED <<cancelled, event, requested, recorder, save>>

\* receive() answers None when it is unblocked, and also when it is
\* cancelled; the loop around it then looks at the event.
ReceiverLoops(r) ==
    /\ Runs(Wake(r))
    /\ IF at[r] = "get"
         THEN r \notin cancelled => Head(mail[r]) = "unblock"
         ELSE r \notin cancelled
    /\ IF event
         THEN Ends(r, "ok", <<>>) /\ UNCHANGED mail
         ELSE /\ at' = [at EXCEPT ![r] = IF mail[r] = <<>> THEN "get" ELSE "busy"]
              /\ mail' = [mail EXCEPT ![r] = <<>>]
              /\ cancelled' = cancelled \ {r}
              /\ Yields(<<>>)
    /\ UNCHANGED <<event, requested, recorder, save>>

\* The port may be in use; then there is no server to stop.
WebStarts ==
    /\ Resumed("web") /\ at["web"] = "start"
    /\ \/ /\ at' = [at EXCEPT !["web"] = "serving"]
          /\ Yields(<<>>)
          /\ UNCHANGED cancelled
       \/ "start" \in Failures /\ Ends("web", "refused", <<>>)
    /\ UNCHANGED <<signals, recorder, save>>

WebEnds ==
    /\ Resumed("web") /\ at["web"] = "serving"
    /\ \/ Ends("web", "ok", <<>>)
       \/ "web" \in Failures /\ Ends("web", "error", <<>>)
    /\ UNCHANGED <<signals, recorder, save>>

\* The points at which CancelledError is caught, and the task goes on.
Swallows(t) == at[t] = "receive" \/ (t \in Receivers /\ at[t] = "get")

Cancelled(t) ==
    /\ Runs(Wake(t)) /\ t \in cancelled /\ t # "listener" /\ ~Swallows(t)
    /\ Ends(t, "cancelled", <<>>)
    /\ UNCHANGED <<signals, recorder, save>>

-----------------------------------------------------------------------------
(* The shutdown task, await by await *)

Moves(point) == at' = [at EXCEPT !["shutdown"] = point]
ShutdownAt(point) == Resumed("shutdown") /\ at["shutdown"] = point

\* Every queue gets one unblock item.
ShutdownReceives ==
    /\ Runs(Wake("shutdown")) /\ at["shutdown"] = "receive"
    /\ event' = TRUE
    /\ mail' = [r \in Receivers |-> Append(mail[r], "unblock")]
    /\ cancelled' = cancelled \ {"shutdown"}
    /\ Moves("stop web")
    /\ GoesOn(Wakes({r \in Receivers : at[r] = "get"}))
    /\ UNCHANGED <<requested, recorder, save>>

StopsWeb ==
    /\ ShutdownAt("stop web")
    /\ IF at["web"] = "refused"
         THEN Moves("stop handler") /\ UNCHANGED loop
         ELSE Moves("web") /\ Yields(<<>>)
    /\ UNCHANGED <<cancelled, signals, recorder, save>>

\* Mutant: the save is not waited for.
StopsHandler_NoWait ==
    /\ ShutdownAt("stop handler")
    /\ cancelled' = cancelled \cup {"listener"}
    /\ Moves("stop service")
    /\ GoesOn(IF Alive("listener") THEN Wakes({"listener"}) ELSE <<>>)
    /\ UNCHANGED <<signals, recorder, save>>

\* The listener is cancelled, not waited for; the save is waited for.
StopsHandler ==
    /\ ShutdownAt("stop handler")
    /\ LET stopped == IF Alive("listener") THEN {"listener"} ELSE {}
           wakes == IF Alive("listener") THEN Wakes({"listener"}) ELSE <<>>
       IN  /\ cancelled' = cancelled \cup stopped
           /\ IF save = "running"
                THEN Moves("save") /\ Yields(wakes)
                ELSE Moves("stop service") /\ GoesOn(wakes)
    /\ UNCHANGED <<signals, recorder, save>>

StopsService ==
    /\ ShutdownAt("stop service")
    /\ IF Alive("sampler")
         THEN /\ cancelled' = cancelled \cup {"sampler"}
              /\ Moves("sampler") /\ Yields(Wakes({"sampler"}))
         ELSE Moves("stop recorder") /\ UNCHANGED <<loop, cancelled>>
    /\ UNCHANGED <<signals, recorder, save>>

Joined ==
    /\ Runs(SamplerJoined)
    /\ Yields(Wakes({"shutdown"}))
    /\ UNCHANGED <<at, cancelled, signals, recorder, save>>

StopsRecorder ==
    /\ ShutdownAt("stop recorder")
    /\ items' = Append(items, "stop")
    /\ Moves("answer") /\ Yields(WorkerWake)
    /\ UNCHANGED <<cancelled, signals, open, save>>

ClosesPublisher ==
    /\ ShutdownAt("close publisher")
    /\ IF Alive("publisher")
         THEN /\ cancelled' = cancelled \cup {"publisher"}
              /\ Yields(Wakes({"publisher"}))
         ELSE Yields(<<>>) /\ UNCHANGED cancelled
    /\ Moves("sleep")
    /\ UNCHANGED <<signals, recorder, save>>

\* What the shutdown does next when an await returns.
NextStage ==
    [web |-> "stop handler", save |-> "stop service",
     sampler |-> "stop recorder", answer |-> "close publisher"]

ShutdownResumes ==
    /\ Resumed("shutdown") /\ at["shutdown"] \in DOMAIN NextStage
    /\ Moves(NextStage[at["shutdown"]])
    /\ UNCHANGED <<loop, cancelled, signals, recorder, save>>

ShutdownEnds ==
    /\ ShutdownAt("sleep")
    /\ Ends("shutdown", "ok", <<>>)
    /\ UNCHANGED <<signals, recorder, save>>

-----------------------------------------------------------------------------
(* The main task, and what asyncio.run does when it ends *)

\* The first task that fails or is cancelled decides the gather.
GatherLearns(t) ==
    /\ Runs(ChildDone(t))
    /\ ready' = Tail(ready) \o
         IF gathered = "none" /\ at[t] # "ok" THEN <<Wake("main")>> ELSE <<>>
    /\ gathered' = IF gathered = "none" /\ at[t] # "ok" THEN at[t] ELSE gathered
    /\ left' = left - 1
    /\ UNCHANGED <<phase, at, cancelled, signals, recorder, save>>

\* A cancelled gather is passed on as a shutdown request, a port in use by
\* sys.exit, which leaves the iteration at once.
MainEnds ==
    /\ Runs(Wake("main"))
    /\ requested' = (requested \/ gathered = "cancelled")
    /\ IF gathered = "refused"
         THEN ready' = Tail(ready) /\ left' = 0 /\ phase' = "stopping"
         ELSE ready' = Append(Tail(ready), StopLoop) /\ left' = left - 1 /\ UNCHANGED phase
    /\ UNCHANGED <<gathered, at, cancelled, event, mail, recorder, save>>

Stops ==
    /\ Runs(StopLoop)
    /\ ready' = Tail(ready) /\ left' = left - 1 /\ phase' = "stopping"
    /\ UNCHANGED <<gathered, at, cancelled, signals, recorder, save>>

\* All tasks that are left are cancelled, in no particular order: what counts
\* is which of them run before the shutdown task, the only one whose steps
\* look at the others.  If it waits for the sampler, it wakes with its end.
CancelsAll ==
    /\ left = 0 /\ phase = "stopping"
    /\ LET alive == {t \in Task : Alive(t)}
           woken == {t \in alive : ~Scheduled(t) /\ at[t] # "sampler"}
       IN  /\ cancelled' = cancelled \cup alive
           /\ \E first \in SUBSET (woken \ {"shutdown"}) :
                ready' = ready \o Wakes(first) \o Wakes(woken \cap {"shutdown"})
                               \o Wakes(woken \ (first \cup {"shutdown"}))
    /\ save' = IF save = "running" THEN "cut" ELSE save
    /\ phase' = "draining"
    /\ UNCHANGED <<left, gathered, at, signals, recorder>>

Exits ==
    /\ left = 0 /\ phase = "draining"
    /\ \A t \in Task : ~Alive(t)
    /\ phase' = "exited"
    /\ UNCHANGED <<ready, left, gathered, at, cancelled, signals, recorder, save>>

-----------------------------------------------------------------------------
Outside ==
    \/ Datagram \/ Request \/ SaveEnds
    \/ \E r \in Receivers : ReceiverDone(r)

Timers == SamplerTick \/ ServerExits

\* What the shutdown waits for outside the loop, one after the other.
Awaited == WebStopped \/ SaveTimesOut \/ LastSleepOver

Runtime == Iterates \/ Joined \/ MainEnds \/ Stops \/ CancelsAll \/ Exits \/ \E t \in Task : GatherLearns(t)

Tasks ==
    \/ WorkerWrites \/ WorkerFinalizes \/ WorkerStops \/ WorkerWaits
    \/ SamplerSamples
    \/ PlainPacket \/ SessionStart \/ Classification \/ Finalized \/ ListenerCancelled
    \/ \E r \in Receivers : PacketOfReceiver(r) \/ ReceiverTakes(r) \/ ReceiverLoops(r)
    \/ WebStarts \/ WebEnds
    \/ \E t \in Task : Cancelled(t)

Shutdown ==
    \/ ShutdownReceives \/ StopsWeb \/ StopsHandler \/ StopsService \/ StopsRecorder
    \/ ClosesPublisher \/ ShutdownResumes \/ ShutdownEnds

Next == Outside \/ Timers \/ Awaited \/ Runtime \/ Tasks \/ Shutdown

\* The loop runs what is ready.  It polls again and again, so the server that
\* has stopped and the timeouts of the shutdown are seen at last.
Fairness == WF_vars(Runtime \/ Tasks \/ Shutdown) /\ SF_vars(Awaited)

Spec == Init /\ [][Next]_vars /\ Fairness

-----------------------------------------------------------------------------
(* Properties *)

Failed == \E t \in Task : at[t] \in {"error", "refused"}

\* Every variable is in its type: in particular the recorder's queue holds at
\* most MaxItems items and the stop item.
TypeOK ==
    /\ phase \in {"running", "stopping", "draining", "exited"}
    /\ ready \in Seq(Callbacks) /\ left \in 0..Len(ready)
    /\ at \in [Task -> Ended \cup
         {"receive", "stop web", "web", "stop handler", "save", "stop service", "sampler",
          "stop recorder", "answer", "close publisher", "sleep", "get", "recv", "finalize",
          "idle", "start", "serving", "busy"}]
    /\ cancelled \subseteq Task
    /\ gathered \in {"none"} \cup Ended
    /\ event \in BOOLEAN /\ requested \in BOOLEAN
    /\ mail \in [Receivers -> {<<>>, <<"message">>, <<"unblock">>, <<"message", "unblock">>}]
    /\ items \in Seq({"data", "finalize", "stop"}) /\ Len(items) <= MaxItems + 1
    /\ open \in BOOLEAN
    /\ save \in {"none", "running", "done", "late", "cut"}

\* An orderly shutdown finalizes the recording, as the README of the program
\* promises, although stopping the sampler already brings down the main task
\* and the loop with it (pits_n_giggles.py _shutdown_tasks, service.py stop);
\* nothing was put behind the recorder's stop item; and a just-in-case save was
\* cut off after its five seconds only, never by the loop's end.
OrderlyExitIsClean ==
    phase = "exited" /\ ~Failed => ~open /\ items = <<>> /\ save \in {"none", "done", "late"}

\* A requested shutdown comes to an end, unless some task fails.
RequestedEnds == requested ~> phase = "exited" \/ Failed

\* A task that fails takes the process down: the launcher has exit codes and
\* messages for it (backend_mgr.py, the HTTP port in use).
FailureEnds == Failed ~> phase = "exited"
=============================================================================
