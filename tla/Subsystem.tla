------------------------------ MODULE Subsystem ------------------------------
(***************************************************************************)
(* PngAppMgrBase of apps/launcher/subsystems/base_mgr.py: the launcher's    *)
(* manager of one child process (backend, broker, HUD, ...).                *)
(*                                                                          *)
(* The threads are the Qt thread and a pool thread (the operators:  *)
(* start/stop button, settings change, closing), and for the g-th   *)
(* start a reader of the child's output, a monitor of its exit, a heartbeat *)
(* and, after a crash, an auto-restart thread.  _process_lock protects the  *)
(* process fields; the flags, the heartbeat event, the generation and the   *)
(* restart count are read and written without it.  A step is what a thread  *)
(* does between two points where another one may come in.                   *)
(*                                                                          *)
(* Abstracted: time (a wait may end at any moment), the status label, stats *)
(* and message boxes; a port is the number of the child that listens on it; *)
(* every reader reads its own child's output.                               *)
(***************************************************************************)
EXTENDS Naturals, FiniteSets

CONSTANTS
  MaxGens,      \* bound: starts
  MaxRequests,  \* bound: requests of the operators, after the initial start
  Operators,    \* the threads that ask for something: the Qt thread, pool threads
  MaxAttempts,  \* max_restart_attempts
  Missable,     \* num_missable_heartbeats
  Requests,     \* what the operators do: subset of {"toggle", "close", "restart"}
  Habits        \* the children of a manager: what they print, how they may end by themselves

ASSUME BoundsAssumption  == MaxGens \in Nat /\ MaxRequests \in Nat /\ MaxAttempts \in Nat /\ Missable \in Nat
ASSUME OperatorsAssumption == IsFiniteSet(Operators)
ASSUME ChoicesAssumption ==
  /\ Requests \subseteq {"toggle", "close", "restart"}
  /\ Habits \subseteq [prints : SUBSET {"port", "init"}, ends : SUBSET {"crashed", "refused", "term"}]

Gens == 1..MaxGens
Alive == {"booting", "up"}
Dead == {"crashed", "refused", "term", "killed", "quit"}

VARIABLES
  process, running, port, initDone, fired,  \* self.process (0 is None), is_running, ipc_port, _init_complete_received, _post_start_fired
  stopping, restarting,  \* self._is_stopping, _is_restarting
  gen,         \* self._heartbeat_gen_num; also numbers the current heartbeat event
  hbStop,      \* the heartbeat events, by the start that made them
  count,       \* self._restart_count
  lock,        \* self._process_lock: "free", or held by a stop() about to "kill" or to "clean"
  child, pipe, \* the children, and the tokens of theirs that nobody has read
  habit,       \* what the subsystem's program prints, and how it may end
  op,          \* the operators
  reader, monitor, beat, auto,  \* the threads of each start
  asked,       \* requests made
  hooks,       \* history: post-start hooks fired
  forgot       \* history: children that the exit handling of another child let go of

fields  == <<process, running, port, initDone, fired>>
flags   == <<stopping, restarting>>
beats   == <<gen, hbStop>>
procs   == <<child, pipe>>
threads == <<op, reader, monitor, beat, auto>>
history == <<hooks, forgot>>
vars    == <<fields, flags, beats, count, lock, procs, threads, asked, history, habit>>

Monitor == [pc : {"none", "fresh", "waiting", "current", "handling", "deciding", "done"},
            of : 0..MaxGens, ev : 0..MaxGens]
Heartbeat == [pc : {"none", "delay", "check", "calling", "stop", "inStop", "exit", "done", "failed"},
              misses : 0..Missable + 1, port : 0..MaxGens]

TypeOK ==
  /\ {process, port, gen} \subseteq 0..MaxGens
  /\ {running, initDone, fired, stopping, restarting} \subseteq BOOLEAN
  /\ hbStop \in [0..MaxGens -> BOOLEAN]
  /\ count \in Nat /\ hooks \in Nat /\ asked \in 0..MaxRequests
  /\ lock \in {"free", "kill", "clean"}
  /\ child \in [Gens -> {"none"} \cup Alive \cup Dead]
  /\ pipe \in [Gens -> SUBSET {"port", "init"}]
  /\ habit \in Habits
  /\ op \in [Operators -> {"idle", "start", "stop", "inStop", "restop", "inRestop", "pause", "restarted"}]
  /\ reader \in [Gens -> {"reading", "firing"}]
  /\ monitor \in [Gens -> Monitor]
  /\ beat \in [Gens -> Heartbeat]
  /\ auto \in [Gens -> {"none", "counting", "delay", "start", "clear", "done"}]
  /\ forgot \subseteq Gens

Init ==
  /\ process = 0 /\ running = FALSE /\ port = 0 /\ initDone = FALSE /\ fired = FALSE
  /\ stopping = FALSE /\ restarting = FALSE
  /\ gen = 0 /\ hbStop = [g \in 0..MaxGens |-> FALSE] /\ count = 0 /\ lock = "free"
  /\ child = [g \in Gens |-> "none"] /\ pipe = [g \in Gens |-> {}]
  /\ \E ui \in Operators : op = [o \in Operators |-> IF o = ui THEN "start" ELSE "idle"]
  /\ reader = [g \in Gens |-> "reading"]
  /\ monitor = [g \in Gens |-> [pc |-> "none", of |-> 0, ev |-> 0]]
  /\ beat = [g \in Gens |-> [pc |-> "none", misses |-> 0, port |-> 0]]
  /\ auto = [g \in Gens |-> "none"]
  /\ asked = 0 /\ hooks = 0 /\ forgot = {}
  /\ habit \in Habits

-----------------------------------------------------------------------------
(* start() and the three parts of stop().                                   *)

\* start(): the child and its threads, or nothing when it is running already; Popen may fail.
Started ==
  /\ lock = "free"
  /\ IF running THEN UNCHANGED <<fields, beats, child, monitor, beat>>
     ELSE /\ port' = 0 /\ initDone' = FALSE /\ fired' = FALSE
          /\ \/ UNCHANGED <<process, running, beats, child, monitor, beat>>
             \/ /\ gen < MaxGens
                /\ gen' = gen + 1 /\ process' = gen' /\ running' = TRUE
                /\ hbStop' = [hbStop EXCEPT ![gen'] = FALSE]
                /\ child' = [child EXCEPT ![gen'] = "booting"]
                /\ monitor' = [monitor EXCEPT ![gen'].pc = "fresh"]
                /\ beat' = [beat EXCEPT ![gen'].pc = "delay"]

StopBegins ==
  /\ lock = "free" /\ running
  /\ lock' = "kill" /\ stopping' = TRUE

\* Mutant: a child that does not confirm the shutdown is left alone.
StopKills_OnlyAsks ==
  /\ lock = "kill"
  /\ lock' = "clean"
  /\ \E told \in {{}, {port} \ {0}} :
       child' = [c \in Gens |-> IF c \in told /\ child[c] = "up" THEN "quit" ELSE child[c]]
  /\ UNCHANGED <<fields, flags, beats, count, pipe, threads, asked, history>>

\* The shutdown command goes to whoever listens on the port; when it is not confirmed, or the
\* wait for the process ends in a timeout, the process is killed.
StopKills ==
  /\ lock = "kill"
  /\ lock' = "clean"
  /\ \E told \in {{}, {port} \ {0}} :
       child' = [c \in Gens |-> IF c \in told /\ child[c] = "up" THEN "quit"
                                ELSE IF c = process /\ child[c] \in Alive THEN "killed" ELSE child[c]]
  /\ UNCHANGED <<fields, flags, beats, count, pipe, threads, asked, history>>

\* Mutant: is_running is forgotten.
StopCleans_Running ==
  /\ lock = "clean"
  /\ lock' = "free" /\ stopping' = FALSE
  /\ process' = 0 /\ port' = 0 /\ initDone' = FALSE /\ fired' = FALSE
  /\ UNCHANGED running

StopCleans ==
  /\ lock = "clean"
  /\ lock' = "free" /\ stopping' = FALSE
  /\ process' = 0 /\ running' = FALSE /\ port' = 0 /\ initDone' = FALSE /\ fired' = FALSE

-----------------------------------------------------------------------------
(* The operators.                                                           *)

Asks(o) == op[o] = "idle" /\ asked < MaxRequests /\ asked' = asked + 1

\* start_stop: is_running is read without the lock.
Toggle(o) ==
  /\ Asks(o) /\ "toggle" \in Requests
  /\ IF running THEN op' = [op EXCEPT ![o] = "stop"] /\ UNCHANGED count
                ELSE op' = [op EXCEPT ![o] = "start"] /\ count' = 0
  /\ UNCHANGED <<fields, flags, beats, lock, procs, reader, monitor, beat, auto, history>>

Close(o) ==
  /\ Asks(o) /\ "close" \in Requests
  /\ op' = [op EXCEPT ![o] = "stop"]
  /\ UNCHANGED <<fields, flags, beats, count, lock, procs, reader, monitor, beat, auto, history>>

Restart(o) ==
  /\ Asks(o) /\ "restart" \in Requests
  /\ restarting' = TRUE
  /\ op' = [op EXCEPT ![o] = IF running THEN "restop" ELSE "pause"]
  /\ UNCHANGED <<fields, stopping, beats, count, lock, procs, reader, monitor, beat, auto, history>>

OpStarts(o) ==
  /\ op[o] \in {"start", "pause"}
  /\ Started
  /\ op' = [op EXCEPT ![o] = IF @ = "start" THEN "idle" ELSE "restarted"]
  /\ UNCHANGED <<flags, count, lock, pipe, reader, auto, asked, history>>

OpRestarted(o) ==
  /\ op[o] = "restarted"
  /\ restarting' = FALSE
  /\ op' = [op EXCEPT ![o] = "idle"]
  /\ UNCHANGED <<fields, stopping, beats, count, lock, procs, reader, monitor, beat, auto, asked, history>>

OpStops(o) ==
  /\ op[o] \in {"stop", "restop"} /\ lock = "free"
  /\ IF running
     THEN StopBegins /\ op' = [op EXCEPT ![o] = IF @ = "stop" THEN "inStop" ELSE "inRestop"]
     ELSE op' = [op EXCEPT ![o] = IF @ = "stop" THEN "idle" ELSE "pause"] /\ UNCHANGED <<lock, stopping>>
  /\ UNCHANGED <<fields, restarting, beats, count, procs, reader, monitor, beat, auto, asked, history>>

OpStopped(o) ==
  /\ op[o] \in {"inStop", "inRestop"}
  /\ StopCleans
  /\ op' = [op EXCEPT ![o] = IF @ = "inStop" THEN "idle" ELSE "pause"]
  /\ UNCHANGED <<restarting, beats, count, procs, reader, monitor, beat, auto, asked, history>>

-----------------------------------------------------------------------------
(* The child, and the thread that reads its output.                         *)

ChildUp(g) ==
  /\ child[g] = "booting"
  /\ child' = [child EXCEPT ![g] = "up"]
  /\ pipe' = [pipe EXCEPT ![g] = habit.prints]
  /\ UNCHANGED <<fields, flags, beats, count, lock, threads, asked, history>>

\* A crash, a refusal to start (exit reasons with can_restart False), an exit with code 15.
ChildExits(g) ==
  /\ child[g] \in Alive
  /\ \E how \in habit.ends : child' = [child EXCEPT ![g] = how]
  /\ UNCHANGED <<fields, flags, beats, count, lock, pipe, threads, asked, history>>

ReadPort(g) ==
  /\ reader[g] = "reading" /\ "port" \in pipe[g] /\ lock = "free"
  /\ pipe' = [pipe EXCEPT ![g] = @ \ {"port"}]
  /\ IF port = 0 THEN port' = g /\ reader' = [reader EXCEPT ![g] = "firing"]
                 ELSE UNCHANGED <<port, reader>>
  /\ UNCHANGED <<process, running, initDone, fired, flags, beats, count, lock, child,
                 op, monitor, beat, auto, asked, history>>

ReadInit(g) ==
  /\ reader[g] = "reading" /\ "init" \in pipe[g] /\ lock = "free"
  /\ pipe' = [pipe EXCEPT ![g] = @ \ {"init"}]
  /\ initDone' = TRUE
  /\ reader' = [reader EXCEPT ![g] = "firing"]
  /\ UNCHANGED <<process, running, port, fired, flags, beats, count, lock, child,
                 op, monitor, beat, auto, asked, history>>

\* Mutant: the flag is not set with the lock held.
MaybeFire_Again(g) ==
  /\ reader[g] = "firing" /\ lock = "free"
  /\ reader' = [reader EXCEPT ![g] = "reading"]
  /\ IF initDone /\ port # 0 THEN hooks' = hooks + 1 ELSE UNCHANGED hooks
  /\ UNCHANGED <<fields, flags, beats, count, lock, procs, op, monitor, beat, auto, asked, forgot>>

MaybeFire(g) ==
  /\ reader[g] = "firing" /\ lock = "free"
  /\ reader' = [reader EXCEPT ![g] = "reading"]
  /\ IF ~fired /\ initDone /\ port # 0 THEN fired' = TRUE /\ hooks' = hooks + 1
                                       ELSE UNCHANGED <<fired, hooks>>
  /\ UNCHANGED <<process, running, port, initDone, flags, beats, count, lock, procs, op, monitor, beat, auto, asked, forgot>>

-----------------------------------------------------------------------------
(* The monitor: what it captures, the checks after the exit, the handling.  *)

Gone == [pc |-> "done", of |-> 0, ev |-> 0]

MonitorBegins(g) ==
  /\ monitor[g].pc = "fresh"
  /\ monitor' = [monitor EXCEPT ![g] = IF process = 0 THEN Gone ELSE [pc |-> "waiting", of |-> process, ev |-> gen]]
  /\ hbStop' = IF process = 0 THEN [hbStop EXCEPT ![gen] = TRUE] ELSE hbStop
  /\ UNCHANGED <<fields, flags, gen, count, lock, procs, op, reader, beat, auto, asked, history>>

Leave(g) == /\ monitor' = [monitor EXCEPT ![g] = Gone]
            /\ hbStop' = [hbStop EXCEPT ![monitor[g].ev] = TRUE]

MonitorWaits(g) ==
  /\ monitor[g].pc = "waiting" /\ child[monitor[g].of] \in Dead
  /\ IF process # monitor[g].of THEN Leave(g)
     ELSE monitor' = [monitor EXCEPT ![g].pc = "current"] /\ UNCHANGED hbStop
  /\ UNCHANGED <<fields, flags, gen, count, lock, procs, op, reader, beat, auto, asked, history>>

Expected(of) == restarting \/ stopping \/ child[of] \in {"term", "killed"} \/ ~running

MonitorChecks(g) ==
  /\ monitor[g].pc = "current"
  /\ IF Expected(monitor[g].of) THEN Leave(g)
     ELSE monitor' = [monitor EXCEPT ![g].pc = "handling"] /\ UNCHANGED hbStop
  /\ UNCHANGED <<fields, flags, gen, count, lock, procs, op, reader, beat, auto, asked, history, habit>>

MonitorHandles(g) ==
  /\ monitor[g].pc = "handling" /\ lock = "free"
  /\ monitor' = [monitor EXCEPT ![g].pc = "deciding"]
  /\ process' = 0 /\ running' = FALSE /\ port' = 0 /\ initDone' = FALSE /\ fired' = TRUE
  /\ forgot' = forgot \cup ({process} \ {0, monitor[g].of})
  /\ UNCHANGED <<flags, beats, count, lock, procs, op, reader, beat, auto, asked, hooks>>

\* Mutant: the limit is not looked at.
ShouldRestart_Always(g) == child[monitor[g].of] # "refused"

ShouldRestart(g) == child[monitor[g].of] # "refused" /\ count < MaxAttempts

MonitorDecides(g) ==
  /\ monitor[g].pc = "deciding"
  /\ Leave(g)
  /\ auto' = IF ShouldRestart(g) THEN [auto EXCEPT ![g] = "counting"] ELSE auto
  /\ UNCHANGED <<fields, flags, gen, count, lock, procs, op, reader, beat, asked, history>>

-----------------------------------------------------------------------------
(* _auto_restart: count, wait, start under the restarting flag.             *)

AutoCounts(g) ==
  /\ auto[g] = "counting"
  /\ auto' = [auto EXCEPT ![g] = "delay"]
  /\ count' = count + 1
  /\ UNCHANGED <<fields, flags, beats, lock, procs, op, reader, monitor, beat, asked, history>>

AutoFlags(g) ==
  /\ auto[g] = "delay"
  /\ auto' = [auto EXCEPT ![g] = "start"]
  /\ restarting' = TRUE
  /\ UNCHANGED <<fields, stopping, beats, count, lock, procs, op, reader, monitor, beat, asked, history>>

AutoStarts(g) ==
  /\ auto[g] = "start"
  /\ Started
  /\ auto' = [auto EXCEPT ![g] = "clear"]
  /\ UNCHANGED <<flags, count, lock, pipe, op, reader, asked, history>>

AutoClears(g) ==
  /\ auto[g] = "clear"
  /\ auto' = [auto EXCEPT ![g] = "done"]
  /\ restarting' = FALSE
  /\ UNCHANGED <<fields, stopping, beats, count, lock, procs, op, reader, monitor, beat, asked, history>>

-----------------------------------------------------------------------------
(* The heartbeat.  It reads self._stop_heartbeat anew each time: the event  *)
(* of the latest start.                                                     *)

Beats(g, pc) == beat' = [beat EXCEPT ![g].pc = pc]

Leaves(g) == hbStop[gen] \/ g # gen \/ stopping \/ restarting

\* After the random delay the assertion on the event may end the thread; then the loop's checks.
BeatChecks(g) ==
  /\ beat[g].pc \in {"delay", "check"}
  /\ beat' = [beat EXCEPT ![g].pc = IF @ = "delay" /\ hbStop[gen] THEN "failed"
                                    ELSE IF Leaves(g) THEN "exit" ELSE "calling",
                          ![g].port = IF Leaves(g) THEN 0 ELSE port]
  /\ UNCHANGED <<fields, flags, beats, count, lock, procs, op, reader, monitor, auto, asked, history>>

\* Mutant: the misses are counted and nothing is done about them.
BeatCalls_NeverStops(g) ==
  /\ beat[g].pc = "calling"
  /\ \/ /\ beat[g].port # 0 /\ child[beat[g].port] = "up"
        /\ beat' = [beat EXCEPT ![g] = [pc |-> "check", misses |-> 0, port |-> 0]]
     \/ beat' = [beat EXCEPT ![g] = [pc |-> "check", misses |-> @.misses + 1, port |-> 0]]
  /\ UNCHANGED <<fields, flags, beats, count, lock, procs, op, reader, monitor, auto, asked, history>>

\* The request is answered or times out; a port that never came counts as a miss.
BeatCalls(g) ==
  /\ beat[g].pc = "calling"
  /\ \/ /\ beat[g].port # 0 /\ child[beat[g].port] = "up"
        /\ beat' = [beat EXCEPT ![g] = [pc |-> "check", misses |-> 0, port |-> 0]]
     \/ beat' = [beat EXCEPT ![g] = [pc |-> IF @.misses = Missable THEN "stop" ELSE "check",
                                     misses |-> @.misses + 1, port |-> 0]]
  /\ UNCHANGED <<fields, flags, beats, count, lock, procs, op, reader, monitor, auto, asked, history>>

BeatStops(g) ==
  /\ beat[g].pc = "stop" /\ lock = "free"
  /\ IF running THEN StopBegins /\ Beats(g, "inStop")
                ELSE Beats(g, "exit") /\ UNCHANGED <<lock, stopping>>
  /\ UNCHANGED <<fields, restarting, beats, count, procs, op, reader, monitor, auto, asked, history>>

BeatStopped(g) ==
  /\ beat[g].pc = "inStop"
  /\ StopCleans
  /\ Beats(g, "exit")
  /\ UNCHANGED <<restarting, beats, count, procs, op, reader, monitor, auto, asked, history>>

BeatExits(g) ==
  /\ beat[g].pc = "exit"
  /\ beat' = [beat EXCEPT ![g] = [pc |-> "done", misses |-> 0, port |-> 0]]
  /\ hbStop' = [hbStop EXCEPT ![gen] = FALSE]
  /\ UNCHANGED <<fields, flags, gen, count, lock, procs, op, reader, monitor, auto, asked, history>>

-----------------------------------------------------------------------------
Operate(o) == OpStarts(o) \/ OpRestarted(o) \/ OpStops(o) \/ OpStopped(o)
Request(o) == Toggle(o) \/ Close(o) \/ Restart(o)
Read(g)    == ReadPort(g) \/ ReadInit(g) \/ MaybeFire(g)
Watch(g)   == MonitorBegins(g) \/ MonitorWaits(g) \/ MonitorChecks(g) \/ MonitorHandles(g) \/ MonitorDecides(g)
AutoRestart(g) == AutoCounts(g) \/ AutoFlags(g) \/ AutoStarts(g) \/ AutoClears(g)
Beat(g)    == \/ BeatChecks(g) \/ BeatCalls(g)
              \/ BeatStops(g) \/ BeatStopped(g) \/ BeatExits(g)

Next ==
  /\ UNCHANGED habit
  /\ \/ \E o \in Operators : Request(o) \/ Operate(o)
     \/ StopKills
     \/ \E g \in Gens : \/ ChildUp(g) \/ ChildExits(g)
                        \/ Read(g) \/ Watch(g) \/ AutoRestart(g) \/ Beat(g)

Spec == Init /\ [][Next]_vars
-----------------------------------------------------------------------------
(* Properties.                                                              *)

\* is_running, which start_stop, restart and the monitor read without the lock, agrees with
\* process at every point between the steps of start(), stop() and the exit handling.
RunningHasProcess == running <=> process # 0

\* The post-start hook fires at most once for each start, whatever the order in which the
\* readers deliver the tokens.
HooksPerStart == hooks <= gen

\* Automatic restarts end.  The limit is compared in the monitor's thread and counted in a
\* thread started later, so that a second crash can be let through in between, but only when
\* an operator started a child meanwhile: one attempt more for each request at most.
AttemptsLimited == count <= MaxAttempts + asked

\* Through crashes, terminations, heartbeat stops, restarts and closing, no path leaves a
\* child running that the manager does not know of, except one: the exit handling of
\* another child, which clears the process fields whoever they belong to by then.
OnlyTheMonitorForgets == \A g \in Gens : child[g] \in Alive => process = g \/ g \in forgot
=============================================================================
