# F1 Dual Engineer: a TLA+ verification project

F1 Dual Engineer (a fork of Pits n' Giggles) records and displays the telemetry
that EA Sports F1 sends over UDP. It is about 67 000 lines of Python: a launcher
that runs child processes, a backend that ingests the telemetry, and readers of
what the backend publishes. This directory holds models of its concurrent and
fault-tolerant parts, the TLC configurations that check them and the TLAPS proofs
about them. `PROJECT.json` maps every definition to the lines it models and lists
runs, mutants, findings, hazards and theorems.

    tlc -workers 2 -config MCRecorder.cfg MCRecorder     # one run
    tlapm Recorder_proofs.tla                            # the proofs about one module

## 1. The system

    game --UDP--> receiver -> manager (parser, raw callback, frame gate) -> handler
                                 |                                            |
                                 v raw packets            session state <-----+
                     dual engineer service <-- sampler, HTTP --> web server, HUD, MCP
                        |  queue                                 (pub/sub broker, router)
                        v
                     recorder worker -> export folders, SQLite catalogue, careers
    launcher -> one manager per child process (start, stop, heartbeat, restart)

| part | state | operations | interacts through | what is hard |
|---|---|---|---|---|
| recorder (`lib/dual_engineer/recorder.py`) | bounded queue, open session, pending metadata, drop counters, export folders | enqueue, update_metadata, finalize, stop, worker | queue items with futures; SQLite; files | full queue, futures cancelled, failing steps, process end, two sessions, retention |
| service (`service.py`) | selection, live traces, last UID | packet and session callbacks, selection, sampler, exports, career ingestion | called by handler, HTTP and timer on one event loop | state read before a later callback, shutdown |
| career database (`career.py`), projection (`championship.py`) | SQLite tables | careers, events, corrections, imports, catalogue | called by service and recorder | repeated classification, corrections, two computations of the same points |
| handler (`telemetry_handler.py`) | classification flag, UID transitions | one callback per packet type | manager, session state, service, ITC queues | interleaved sessions, repeated final classification, lost start events |
| manager and frame gate (`lib/telemetry_manager`) | last UID, frame, types seen | one datagram at a time | callbacks | lost, repeated, reordered datagrams |
| session state (`session_state.py`, `data_per_driver`) | the session and 22 cars | process each packet | read by UI tasks | session changes, flashbacks, tyre changes reported by four packets in any order |
| backend tasks (`pits_n_giggles.py`, `intf_layer`) | task list, shutdown event | start, shutdown | gather, ITC | order of the shutdown, one task failing |
| ITC (`inter_task_communicator.py`) | named queues | send, receive, unblock | singleton | one sentinel per queue, cancellation swallowed |
| external API task (`external_api.py`) | one fetch in flight | fetch the pole lap | ITC, session state | a late answer |
| forwarder | sockets | forward, update_targets | handler | target removed while sending |
| watchdog timers (`lib/wdt`) | active flag, last kick | kick, run | callback to the owner | kick against expiry |
| router and dealers (`lib/ipc/router_dealer`) | send lock, pending reply | request, fire, receive loop, close | frames through the router | timeouts, late replies, peers that die |
| pub/sub and broker | publisher queue, connections | publish, subscribe, run | ZeroMQ | full queue, reconnection |
| parent/child IPC (`lib/ipc/reqrep`) | missed-heartbeat counter | heartbeat, shutdown, stats | ZeroMQ | the child's exit against the parent's |
| launcher managers (`apps/launcher/subsystems`) | process, flags, event, generation, restart count | start, stop, restart, automatic restart | threads, one lock, flags outside it | many threads, checks that are stale when used |
| HUD (`apps/hud`) | watchdog status, telemetry status, per overlay locked, active, hidden, visible | race tables, toggles, lock, layout | four threads, Qt signals | watchdog against kick, status ignored while unlocked |
| MCP server, save viewer, frontend | views | display | subscribers | little: they render |
| analyzers, predictors, parsers, config | none or local | pure functions | called | arithmetic |

What makes each part correct, in a sentence: the recorder never mixes sessions,
never forgets a folder, never presents a partial one as finished and accounts for
what it drops; the gate delivers in order and drops nothing else; a request gets its
own reply or an error, and returns; a manager has one child at most, restarts it a
bounded number of times and notices when it dies; the career counts a result once;
the handler hands on each session's classification once and with its own cars; wear is
booked under the tyres it was measured on; the shutdown finalizes the recording and
ends; the overlays show what watchdog, menu and user say.

## 2. The modules

| module | models | checked by | proofs |
|---|---|---|---|
| `RecordingArchive` | abstract: what the export directory may do | as a property of `Recorder` | `Recorder_proofs` |
| `Recorder` | `SessionRecorder`, its callers, the catalogue rows | `MCRecorder*.cfg` | `Recorder_proofs` |
| `FrameGate` | `SessionFrameGate` in front of the handlers | `MCFrameGate.cfg` | `SessionFlow_proofs` |
| `SessionFlow` | `F1TelemetryHandler`, the session part of `SessionState`, `externalApiTask` | `MCSessionFlow.cfg` | `SessionFlow_proofs` |
| `TyreStints` | laps and stints of one car: `DataPerDriver`, `TyreInfo`, pending events | `MCTyreStints.cfg` | `TyreStints_proofs` |
| `CareerLedger` | abstract: what the career companion promises | as a property of `Career` | `Career_proofs` |
| `Tables` | SQL's upsert, used by `CareerLedger` and `Career` | | |
| `Career` | the career tables, their ingestion, the projection | `MCCareer.cfg` | `Career_proofs` |
| `BackendTasks` | the tasks of the backend, asyncio's loop, the shutdown | `MCBackend*.cfg` | `BackendTasks_proofs` |
| `Dealer` | `IpcDealerAsync`, `IpcRouter`, a serving peer | `MCDealer.cfg` | `Dealer_proofs` |
| `Subsystem` | `PngAppMgrBase` and its threads | `MCSubsystem.cfg` | `Subsystem_proofs` |
| `Hud` | `OverlaysMgr`, `WatchDogTimerSync`, the overlays' visibility | `MCHud.cfg` | `Hud_proofs` |

### Recorder

All tasks share one asyncio loop. `await queue.get()` only suspends on an empty
queue, so the worker drains the queue without yielding: `worker = "busy"` means that
no other task moves. Queue items are records of their kind; `finalize` and `stop`
items carry a future, represented by the caller that waits (`receiver`, `shutdown`).
Each worker action is the whole branch of `_worker` with everything it calls:
`StoreData` is `_ensure_session` (which may finalize another session and create a
folder) followed by the write, as one step, because nothing else can run in between.
Steps that can raise are named (`FinalizeFaults`, `CreateFaults`), and `Finalized`,
`Created` and `Ensured` say what is left behind when the step *how* raised. `Restart`
ends the process at any point between two items and starts it again with the disk and
the database it left.

Histories: `offered`, `written`, `lost` (for the drop counters) and `orphans`.
Abstracted: contents, names, timestamps; `_storage_budget_available` is a free refusal
(`RefuseData`), `max_session_size_mb` a number of packets. A crash in the middle of a
worker step is represented by the failing steps followed by `Restart`.

### FrameGate

`Resets`, `Passes` and the three actions follow `should_accept`; the network is the
free choice of the next packet. `log` is the history of what passed since the last
reset. Only the enabled gate is modelled; a disabled one accepts everything.

### SessionFlow

What becomes of a session between its first packet and its classification. A packet is
one step: the receive loop awaits `on_final_classification` and handles nothing else
meanwhile. Sessions are numbered in the order they are played; any packet may be lost,
and a straggler, a packet of an earlier session or a late start event, may come in
between (the frame gate lets a packet of another UID pass). The guard against session
churn counts the transitions of the last minute and hour; `MinutePasses` and
`HourPasses` forget one. The external API task is its queue and the fetch in flight,
which a session change overtakes. `cars` is the set of sessions whose packets the
drivers' data was filled from: the callbacks that only copy a packet into a driver are
one action, `CarData`. Histories: `exports`, what was handed on, and `newest`.

### TyreStints

One car of an offline race. The game (`CompletesLap`, `ChangesTyres`, `GoesBack`) is the
environment; lap data, car damage, tyre sets, session history and final classification
sample it in any order, and the pages of the web server (`Read`) prune the stint history
whenever they like. A wear reading is a record of the set it was measured on and the
laps driven on it, so that a property can say what the numbers cannot: whose wear it is.
`pending` are the pending events of the manager of this kind of track: on most tracks a
car that stops has crossed the line, on a few (`weird`) the line comes after the garage,
and the change is booked in another order. `exact` is a history: no flashback, lost
round of packets or stint pruned away so far.

### Career and CareerLedger

A method of the database is one transaction and one step. `Classify` and `Ingest` are
two, since `on_final_classification` awaits the recorder before it reads the active
career: requests of the web pages (create, choose, import, correct) come in between.
`CareerLedger` keeps, for every career, the points a driver started with and the points
of each classified session, each session once and as it was last known; `Career`
implements it, with the tables mapped to the two functions. The projection of the
dashboard (`championship.py`) is another computation of the same points;
`ProjectionIsExact` is the action property that ingestion turns it into the standings.

### BackendTasks

The loop is a FIFO `ready` of callbacks; an iteration runs those that were ready when it
began (`left`), and what they schedule runs in the next one. The order of these hops is
the subject: `service.stop()` cancels the sampler, which the main task gathers too, so
the gather, the main task and with them the loop are on their way to the end while the
shutdown task still stops the recorder, an iteration ahead. A callback that a task runs
until its next await is one or more steps with that callback at the head of the queue.
`phase` is what `asyncio.run` does: run, cancel what is left, wait for it, exit. Tasks
that end wake the gather; the first failure or cancellation decides it.

Left out: the periodic publishers, the watchdog tasks, the dealer and the IPC server,
which the shutdown does not wait for; signals; a recorder queue that is full when a
finalize or stop item is put (that is in `Recorder`).

### Dealer

A step is what a coroutine does between two awaits. `queue` and `holder` are the FIFO
`asyncio.Lock`, `pending` and `answer` the future and its result, `toPeer` and `toUs`
the two directions through the router, which keeps their order and drops at will.
The peer is the backend's dealer: it takes a command, acknowledges a fire before the
handler, replies to a request after it, and may die while it handles one. Ids in
messages stand for payloads: the dealer does not read them.

### Subsystem

Threads of one manager: the operators (Qt thread and pool threads) and, for every
start, reader, monitor, heartbeat and possibly an automatic restart. `lock` is
`_process_lock`; everything the code reads or writes without it is a step of its own.
The heartbeat events are numbered by the start that made them (`hbStop`), because the
monitor keeps the event it captured while the heartbeat reads the attribute anew.
Time is abstracted: a delay or a timeout may end at any moment, so a request may time
out although the child is alive. `habit` is the program a manager runs: the tokens it
prints and the ways it may end by itself; it never changes, so that TLC looks at well
behaved and crashing programs without their mixtures. Every reader reads its own child
(the snapshot of `_capture_output` taken late is left out), and the PID token of
packaged builds too.

### Hud

Four threads. The subscriber thread (`sub`) kicks the watchdog with every race table and
applies what the table says of the menu; the watchdog's own thread (`wdt`) finds the
timeout exceeded. Both end in `_set_telemetry_active`, without a lock, so every read
and write of the shared fields is a step (`probe`, `callback`, `read`, `compare`, `set`,
`emit`). The launcher's commands and the game's buttons come from two more threads and
only emit a signal. The Qt thread takes the signals from its event queue and ends the
fades; what an overlay does with a command is one step, because no other thread touches
it. `fresh` abstracts time: the last kick is younger than the timeout or not. It becomes
old between two race tables only, since handling one takes less than the two seconds or
more of `wdt_timeout`.

Histories: `recalled`, the user called for an overlay since it was last told to hide;
`raced`, a kick met the watchdog's thread at work and its traces may remain. Left out:
the request channel that captures the layout (`window_mgr.py:129`), low-priority
commands (they only draw), high-frequency data, opacity, MFD pages, stopping, and the
settings without a watchdog or without hiding in the menu.

## 3. The runs

| run | question | bounds |
|---|---|---|
| `recorder` | one process life: accounting of folders, answers, counters; does `finalize()` always return | 2 sessions, queue of 2, one packet and one sample of either session besides any number of metadata and finalize items: the queue gets full, two sessions alternate, and a finalized one is reopened |
| `recorder_faults` | does the export directory behave as `RecordingArchive` when finalizing and registering may fail, the process may end and starts again, sessions repeat and exports expire | 2 sessions, queue of 1, 3 folders, so that one can expire while another is written; of the steps that may fail `files` (a finalization that closes the files and then fails for good) and `register` (a folder without its row). Every other failing step is covered by the two proved invariants |
| `frame_gate` | order, uniqueness, justified drops | 2 sessions, frames 0 to 3, 3 types: jumps of one and of two frames |
| `session_flow` | is each session exported once and with its own cars, is the pole lap its own, does the last classification come through | 2 sessions, windows of 1 and 2 transitions instead of 4 and 12 so that both refuse, 2 once-only packets, 1 straggler |
| `tyre_stints` | whose wear is booked, which laps belong to which stint, do the books catch up | 3 laps, 2 sets, 2 changes (a set may come back on), 1 trouble: a flashback, a page, or a lost round |
| `career` | do the tables implement the ledger, is the projection exact | 2 cars, a race and a sprint, 2 careers, 2 classifications, 2 edits: repeat and correction of one result, with another career active meanwhile |
| `backend` | is an orderly exit clean, does a requested shutdown end | 1 receiver (they differ in nothing the shutdown sees), recorder queue of 2, 1 unread message, 1 just-in-case save |
| `dealer` | own replies, no reply twice, does every request return | 3 requests, 2 fires, all interleavings and losses |
| `subsystem` | one hook per start, bounded restarts, no child left behind | 2 operators, either of whom makes one request (toggle, restart or close) after the first start, 2 starts, 1 automatic restart, no missable heartbeat, the two habits of `MCSubsystem` |
| `hud` | do the overlays show what they were told, and are they told what is so | one overlay and an unknown one, 3 commands, 1 event in the Qt queue when a table or a command comes: commands are unconditional and the queue has one consumer, so waiting in it equals coming later; only the two threads' emissions interleave, and these are not bounded |

Two runs are expected to find a violation, each of what the repository says:

| run | sentence | what happens |
|---|---|---|
| `recorder_partial_finalized` | `docs/DATA_FORMATS.md:18`, partial folders are never presented as finalized | a packet after the final classification reopens the session; its finalized row then names a partial folder |
| `backend_failure_hangs` | `apps/launcher/subsystems/backend_mgr.py:78-85`, exit reason of a child whose port is in use | the backend does not exit: `asyncio.run` cancels all tasks, `receive()` answers the cancellation of the shutdown task with `None`, the task goes through the shutdown and waits for ever for the recorder's worker, which was cancelled with the rest |

The models also have these behaviours, which no expected-violation run repeats:

- After a finalization that failed for good, the next item raises in the worker and ends
  it, and the backend with it (`Recorder`, worker `"dead"`), although
  `lib/telemetry_manager/manager.py:160` keeps recording from taking down ingestion.
- A finalize whose caller was cancelled makes the worker raise `InvalidStateError` when
  it answers; `BackendTasks` shows what becomes of it: the process ends with an error.
- A reply that comes after its timeout answers the next request if that is pending
  already (`Dealer`; `AnswersMatch` is stated for the time before anybody gave up).
- The monitor's check is stale when it takes the lock: a child started in between is
  forgotten and runs on (`base_mgr.py:523`). `OnlyTheMonitorForgets` says that this is
  the only way.
- The projection counts a session that was ingested already a second time, until the
  display changes (`service.py:252`).
- Without a start event and a start light, the cars of an earlier session stay and are
  exported with the next; stragglers do the same (`ExportHoldsOneSession`).
- A kick that meets the watchdog thread between `active = False` and its callback
  (`wdt_sync.py:67`, `:93`) leaves the watchdog active and the manager at "no data", so
  the overlays stay hidden while driving until the next silence; the two emissions in
  the wrong order leave them shown in silence. The next change made by one thread alone
  heals it. `ThreadsAgree`, `SilenceIsNoticed` and `DrivingIsShown` are stated without
  such a race (`raced`); TLC refutes `DrivingIsShown` when that condition is dropped.
- `_user_hidden` survives unlocking and locking: an overlay hidden by the user and then
  shown by unlocking is not restored after a menu.

Deadlock checking is off where the system may stop (`backend`, which exits; `recorder`,
which shuts down; `tyre_stints` and `session_flow`, whose game ends) or where a bound uses up
what callers may ask for (`career`, `dealer`, `subsystem`, `hud`). The bounds are small
because each property needs few actors to break: every mutant listed in `PROJECT.json`,
a plausible bug in one mapped definition, is found within them.

### Fairness

- `Recorder!Fairness`: the loop runs the worker when it can run (weak), and a caller that
  becomes ready again and again between drains eventually gets the loop (strong: asyncio
  runs ready callbacks in FIFO order, and a putter woken by a free slot may find it
  taken).
- `SessionFlow!Fairness`: the game repeats the session packet and, on its results screen,
  the classification; minutes and hours pass. Nothing is assumed of other packets.
- `TyreStints!Spec`: the game sends its packets over and over: as long as one of them
  would change the books, one does. Which one is not said.
- `BackendTasks!Fairness`: the loop runs what is ready (weak). What the shutdown waits for
  outside the loop, the server that stops and the timeouts of five seconds and one, is seen
  when the loop polls; other traffic keeps it busy in between, hence strong.
- `Dealer!LiveSpec`: ready tasks run and the `ACK_TIMEOUT` of a sent request elapses;
  nothing is assumed of router or peer, and nobody needs to cancel.
- `Hud!FairSpec`: the subscriber, the watchdog and the Qt thread run, and fades end.
  Neither race tables nor silence nor commands have to come.

## 4. The proofs

For all values of the constants, under the named assumptions of each module on them
(`None` is no UID, message or record; sets of names are disjoint; bounds are natural
numbers; operators and cars are finitely many; points are integers). Every safety invariant,
action property and refinement that a passing run checks is proved.

`Recorder_proofs`: every safety property of `Spec`, restarts and failing steps included.
`TypeOK`, `PartialsAreAccountedFor` and `NoMixing` come from `Inv`, since the last two are not
inductive alone: `TypeOK` with `DiskInv`, which says that folders are numbered in the order of
their creation and those beyond `nfolders` are absent (`Numbered`, so that a new folder never
hits an old one), that the open session's folder exists and belongs to the session's UID
(`OwnFolder`), and the two properties. `DiskInv` is stated over values rather than
variables, so that one lemma per operation (`FinalizedSound`, `CreatedSound`,
`EnsuredSound`, `StoredSound`) serves every action in which the operation occurs. On `Inv`
rest three more arguments.

- `DropsAreCounted`: packets offered are those written, waiting, dropped or lost, where
  those waiting are the positions of the queue that hold one; a lemma says by how much each
  queue operation changes that number.
- `RefinesArchive`: each step is a step of `RecordingArchive` or leaves the folders alone.
  It takes `Inv` to see that a finalization seals the folder still being written and that
  retention removes sealed ones only.
- `AnswerIsOwnSession` and `StoppedIsClean`: `FlowInv` keeps the order of things in the
  queue. A waiting caller has at most one request in it, the stop item is the last, and the
  receive task is gone before the recorder is stopped.

`SessionFlow_proofs`: `TypeOK`, `ExportHoldsOneSession`, `SuppressedIsExported`,
`PoleLapIsOwn`. `First` says that a session is shown exactly when its first update came;
`Order`, as long as nothing straggled, that what is shown or filled in is not newer than
the traffic and the cars not older than the last start; `Pipeline` follows the
notification of the session shown through queue, fetch and store, which is why a late
answer is always followed by another fetch.

The frame gate stands in front of the handler, so its proofs are at the end of the same module,
for any sets of UIDs, natural frame numbers and packet types: `GateTypeOK`, `DeliveredInOrder`,
`DropsAreJustified`. The invariant relates the three scalars to the history: no entry of the log
is above `lastFrame`, its last one has that frame, and the types seen are those of the current
frame's entries.

`TyreStints_proofs`: `TypeOK`, `StintsAreExact`, `ExportCoversTheRace`. The properties say nothing
while a change of tyres is pending, and just then the last stint may hold wear of other tyres, so
the invariant, `Typed /\ Known /\ Exactly`, is mostly about those moments. `Exactly` speaks of
the time before a flashback, a lost packet or a stint read away. It compares the four kinds of
packets with the game: what came since the last event is what the game says (`Synced`). It
follows a tyre change through its phases. `Settled`: the last stint is of the tyres on the car.
Where the line comes before the garage, the change is not detected or waits for the damage
(`Normal`). Where it comes after, the car is `Stopped` before the line, `Crossed` it with the lap
change not seen, or `Waits` for the damage, and meanwhile the lap change may have booked new
tyres' wear to the old stint (`Mixed`); then the maximum of the rolling history, which the
delayed change takes that entry from, has to be a measurement of the old tyres. Hence `Led` and
`Leads`, on what that history begins with in each phase, and `Ordered`, since it drops the old
measurements from the front only. `Running` ties the number of wear entries of the last stint to
the lap of the car. The program prunes in a loop over the stints; here the kept ones
are given by their numbers in increasing order (`InOrder`), and the lemmas about that
enumeration use a minimal counterexample. An exact export has nothing to
prune but stints that end before they start, and what is left covers the race (`Covers`).

`Dealer_proofs`: `TypeOK`, `NoReplyTwice`, `AnswersMatch`. Replies carry no id, so the
argument is about places: a request is at one place at most on its way from the queue of
calls to somebody's result and never goes back (`Once`), the send lock is held exactly
while a reply is pending (`Locked`), and while nobody gave up the only id on the way is
that of the pending call (`Matched`).

`Subsystem_proofs`: `TypeOK`, `HooksPerStart`, `AttemptsLimited`, `OnlyTheMonitorForgets`,
and `RunningHasProcess`, which `is_running` needs because three threads read it without
the lock. Beyond the latest start nothing exists (`Fresh`); a stop that holds the lock
has ended the child it lets go of, and a monitor that handles an exit has seen its own
child dead (`Known`); a hook needs a port token, and each start has one (`Hooked`); what
may still count an attempt is a start asked for, a live monitor or an automatic restart
on its way, and only a request adds one (`Tickets`, a sum of cardinalities that bounds
the restart count although limit and counter live in different threads).

`Hud_proofs`: `TypeOK`, `ShownAsTold`, `ThreadsAgree`. The first two are per overlay and
per command (`HandledAsTold`). `ThreadsAgree` needs to know where each thread is
(`SubPhase`, `WdtPhase`: the fields agree except between the watchdog's change and its
callback, where only one thread can be), that without a race one of them rests
(`NoOverlap`), and that the last status in the Qt queue, or the overlays' own if there is
none, is the manager's (`Followed`).

`BackendTasks_proofs`: `TypeOK` and `OrderlyExitIsClean`. No callback is in the ready queue
twice, so the queue is seen as two sets: what is scheduled (`Pending`), and what of it this
iteration still runs (`Current`). One lemma per action (`...Effects`) says which members it
adds and removes. `General` holds whatever fails: ended tasks are never woken, the recorder's
queue has room for the stop item, each receiver gets one unblock item. `Order` holds as long as
no task has failed. Its heart is `RaceInv`: the sampler that the shutdown cancels
brings down the gather, the main task and the loop, a callback per iteration, and the
shutdown is at each of these points in or before the iteration of its rival. So when the loop
cancels what is left, the recording is closed (`Clean`).

`Career_proofs`: `TypeOK`, `KeepsTheLedger`, `StandingsAreTheLedger`, `ProjectionIsExact`. The
invariant is what the schema declares and the code relies on: rows of their columns,
results of a career's own events and drivers (`Belongs`), one event of a session per
career (`OncePerSession`), and that the session being recorded is the one shown. Given
`OncePerSession`, there is exactly one book of the events (`IsBook`, `OneBook`), so a
transaction is shown to be the ledger's step by writing down the book after it. Standings are
sums over finite sets. Library theorems on induction take an operator and cannot be used
here; the lemmas on sums (the recursion behind `SumFunction` exists, is unique, and takes
its summands in any order and under any index) are proved by a minimal counterexample
instead, a smallest subset for which they fail. Then a sum over events is the sum over their
sessions, which is `StandingsAreTheLedger`, and an ingested result adds one summand to each
total: the rows of its keys, summed by team, are the earnings of its cars, which is
`ProjectionIsExact`.

Only model-checked: all liveness (`finalize()` returns, requests return, the last classification
comes through, the shutdown ends, the books catch up, silence and driving are noticed), which is
out of the prover's reach, and the two findings, which are counterexamples.

## 5. The plan

Done: `Recorder` and its abstraction, `FrameGate`, `SessionFlow`, `TyreStints`, `Career`
and its ledger, `BackendTasks`, `Dealer`, `Subsystem`, `Hud`, and the proofs above.

What is left, in this order:

1. `SyncDealer`: caller threads, inproc pipe and reply slot of `IpcDealerClient`.
2. `ChildHeartbeat`: parent and child counting each other's heartbeats
   (`sync_server.py:158`), composed with `Subsystem`; a hung child is stopped in the end.
3. The HUD's request channel: late answers go to the next request, the layout capture
   holds several of them (`window_mgr.py:129`). It multiplies the states of `Hud` and wants
   a module of its own.
4. `Forwarder` (targets removed while sending), `PubSub`, `StorageBudget`, and the delta
   manager's flashbacks: small modules.

## 6. Not modelled

Byte layouts and parsing (`lib/f1_types`, which is a fifth of the code), numeric
predictors and analyses, rendering, settings dialogs, developer tools and the browser
code are pure or presentational and well served by the repository's unit tests. They are
most of the lines of this repository and have no behaviour over time that a state machine
would explain; the share of the lines that the models cover is small for that reason. The
components list in `PROJECT.json` gives the reason for each, and the list of hazards says
where a hazard is known and no property states it.
