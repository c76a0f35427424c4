--------------------------- MODULE Subsystem_proofs ---------------------------
(***************************************************************************)
(* Subsystem for any number of starts, operators, requests and attempts.    *)
(*                                                                          *)
(* Four arguments, each with its own strengthening.  Beyond the latest      *)
(* start nothing exists yet (Fresh).  A stop that holds the lock has ended  *)
(* the child it lets go of, and a monitor that handles an exit has seen its *)
(* own child dead (Known).  A hook fires for a port token, and each start   *)
(* has one (Hooked).  What may still count an attempt is a start that is    *)
(* asked for, a live monitor, or an automatic restart on its way, and only  *)
(* a request adds one (Tickets, Attempts).                                  *)
(***************************************************************************)
EXTENDS Subsystem, FiniteSetTheorems, TLAPS

Fresh == \A g \in Gens : g > gen =>
  /\ child[g] = "none" /\ pipe[g] = {}
  /\ monitor[g].pc = "none" /\ beat[g].pc = "none"

Missing == \A g \in Gens : beat[g].pc \in {"none", "delay", "check", "calling"} => beat[g].misses <= Missable

Basics == TypeOK /\ Fresh /\ Missing /\ RunningHasProcess

Known ==
  /\ lock = "clean" /\ process # 0 => child[process] \notin Alive
  /\ \A g \in Gens :
       /\ monitor[g].pc \in {"waiting", "current", "handling"} => monitor[g].of \in Gens
       /\ monitor[g].pc \in {"current", "handling"} => child[monitor[g].of] \in Dead
  /\ OnlyTheMonitorForgets

-----------------------------------------------------------------------------
(* Types, numbering and the two process fields.                             *)

MonitorPcs == {"none", "fresh", "waiting", "current", "handling", "deciding", "done"}
BeatPcs == {"none", "delay", "check", "calling", "stop", "inStop", "exit", "done", "failed"}

LEMMA NumbersAre == /\ 0 \in 0..MaxGens /\ MaxGens \in Nat /\ Missable \in Nat /\ 0 \in 0..Missable + 1
                    /\ 0 \in 0..MaxRequests /\ Gens = 1..MaxGens /\ Gens \subseteq 0..MaxGens
BY BoundsAssumption DEF Gens

LEMMA MonitorPc ==
  ASSUME NEW m \in Monitor, NEW pc \in MonitorPcs
  PROVE  /\ [m EXCEPT !.pc = pc] \in Monitor /\ [m EXCEPT !.pc = pc].pc = pc
         /\ [m EXCEPT !.pc = pc].of = m.of
BY DEF Monitor, MonitorPcs

LEMMA BeatPc ==
  ASSUME NEW b \in Heartbeat, NEW pc \in BeatPcs
  PROVE  /\ [b EXCEPT !.pc = pc] \in Heartbeat /\ [b EXCEPT !.pc = pc].pc = pc
         /\ [b EXCEPT !.pc = pc].misses = b.misses
BY DEF Heartbeat, BeatPcs

LEMMA GoneTyped == Gone \in Monitor /\ Gone.pc = "done"
BY NumbersAre DEF Gone, Monitor

\* A step of one monitor.
LEMMA MonitorBasics ==
  ASSUME TypeOK, Fresh, NEW g \in Gens, monitor[g].pc # "none", NEW m \in Monitor, monitor' = [monitor EXCEPT ![g] = m]
  PROVE  /\ monitor' \in [Gens -> Monitor] /\ monitor'[g] = m
         /\ \A h \in Gens : h # g => monitor'[h] = monitor[h]
         /\ ~(g > gen)
BY DEF TypeOK, Fresh

\* A step of one heartbeat.
LEMMA HeartbeatBasics ==
  ASSUME TypeOK, Fresh, Missing, NEW g \in Gens, beat[g].pc # "none", NEW b \in Heartbeat, beat' = [beat EXCEPT ![g] = b],
         b.pc \in {"none", "delay", "check", "calling"} => b.misses <= Missable
  PROVE  /\ beat' \in [Gens -> Heartbeat] /\ Missing'
         /\ \A h \in Gens : h # g => beat'[h] = beat[h]
         /\ ~(g > gen)
BY DEF TypeOK, Fresh, Missing

\* What a child prints and how it ends are among the outcomes the launcher knows.
LEMMA HabitIs ==
  ASSUME TypeOK
  PROVE  /\ habit.prints \in SUBSET {"port", "init"}
         /\ \A how \in habit.ends : how \in {"crashed", "refused", "term"}
BY ChoicesAssumption DEF TypeOK

LEMMA InitBasics == Init => Basics
<1> SUFFICES ASSUME Init PROVE Basics
  OBVIOUS
<1>1. monitor \in [Gens -> Monitor] /\ beat \in [Gens -> Heartbeat]
  BY NumbersAre DEF Init, Monitor, Heartbeat
<1>2. \E ui \in Operators : op = [o \in Operators |-> IF o = ui THEN "start" ELSE "idle"]
  BY DEF Init
<1>3. op \in [Operators -> {"idle", "start", "stop", "inStop", "restop", "inRestop", "pause", "restarted"}]
  BY <1>2
<1>4. TypeOK
  BY <1>1, <1>3, NumbersAre DEF Init, TypeOK
<1>5. Fresh /\ Missing /\ RunningHasProcess
  BY NumbersAre DEF Init, Fresh, Missing, RunningHasProcess
<1> QED BY <1>4, <1>5 DEF Basics

\* start(), whoever calls it.
LEMMA StartedBasics ==
  ASSUME Basics, UNCHANGED habit, Started, UNCHANGED <<stopping, restarting, count, lock, pipe, reader, asked, history>>,
         op' \in [Operators -> {"idle", "start", "stop", "inStop", "restop", "inRestop", "pause", "restarted"}],
         auto' \in [Gens -> {"none", "counting", "delay", "start", "clear", "done"}]
  PROVE  Basics'
<1>1. CASE UNCHANGED <<process, running, beats, child, monitor, beat>> /\ port' \in {0, port} /\ {initDone', fired'} \subseteq BOOLEAN
  BY <1>1, BoundsAssumption DEF Basics, TypeOK, Fresh, Missing, RunningHasProcess, beats, history, Gens
<1>2. CASE /\ gen < MaxGens /\ gen' = gen + 1 /\ process' = gen' /\ running' = TRUE
           /\ hbStop' = [hbStop EXCEPT ![gen'] = FALSE] /\ child' = [child EXCEPT ![gen'] = "booting"]
           /\ monitor' = [monitor EXCEPT ![gen'].pc = "fresh"] /\ beat' = [beat EXCEPT ![gen'].pc = "delay"]
           /\ port' = 0 /\ initDone' = FALSE /\ fired' = FALSE
  <2>1. gen \in Nat /\ gen' \in Gens /\ gen' \in 0..MaxGens /\ 0 \in 0..MaxGens
    BY <1>2, BoundsAssumption DEF Basics, TypeOK, Gens
  <2>2. /\ monitor' = [monitor EXCEPT ![gen'] = [monitor[gen'] EXCEPT !.pc = "fresh"]]
        /\ beat' = [beat EXCEPT ![gen'] = [beat[gen'] EXCEPT !.pc = "delay"]]
        /\ monitor[gen'] \in Monitor /\ beat[gen'] \in Heartbeat
    BY <1>2, <2>1 DEF Basics, TypeOK
  <2>3. /\ monitor' \in [Gens -> Monitor] /\ \A h \in Gens : h # gen' => monitor'[h] = monitor[h]
    <3>1. [monitor[gen'] EXCEPT !.pc = "fresh"] \in Monitor
      BY <2>2, MonitorPc DEF MonitorPcs
    <3>2. monitor \in [Gens -> Monitor]
      BY DEF Basics, TypeOK
    <3> QED BY <2>1, <2>2, <3>1, <3>2
  <2>4. /\ beat' \in [Gens -> Heartbeat] /\ \A h \in Gens : h # gen' => beat'[h] = beat[h]
        /\ beat'[gen'].misses = beat[gen'].misses
    <3>1. /\ [beat[gen'] EXCEPT !.pc = "delay"] \in Heartbeat
          /\ [beat[gen'] EXCEPT !.pc = "delay"].misses = beat[gen'].misses
      BY <2>2, BeatPc DEF BeatPcs
    <3>2. beat \in [Gens -> Heartbeat]
      BY DEF Basics, TypeOK
    <3> QED BY <2>1, <2>2, <3>1, <3>2
  <2>5. TypeOK'
    BY <1>2, <2>1, <2>3, <2>4 DEF Basics, TypeOK, history, Alive
  <2>6. Fresh'
    BY <1>2, <2>1, <2>3, <2>4 DEF Basics, TypeOK, Fresh, Gens
  <2>7. beat[gen'].misses <= Missable
    BY <2>1, <1>2 DEF Basics, Fresh, Missing, Gens
  <2>8. Missing' /\ RunningHasProcess'
    BY <1>2, <2>1, <2>4, <2>7 DEF Basics, TypeOK, Missing, RunningHasProcess, Gens
  <2> QED BY <2>5, <2>6, <2>8 DEF Basics
<1> QED BY <1>1, <1>2 DEF Started, fields, Basics, TypeOK

LEMMA OperatorBasics ==
  ASSUME Basics, UNCHANGED habit, NEW o \in Operators, Request(o) \/ Operate(o)
  PROVE  Basics'
<1> USE BoundsAssumption DEF fields, flags, beats, procs, threads, history
<1>1. CASE Toggle(o)
  BY <1>1 DEF Toggle, Asks, Basics, TypeOK, Fresh, Missing, RunningHasProcess
<1>2. CASE Close(o)
  BY <1>2 DEF Close, Asks, Basics, TypeOK, Fresh, Missing, RunningHasProcess
<1>3. CASE Restart(o)
  BY <1>3 DEF Restart, Asks, Basics, TypeOK, Fresh, Missing, RunningHasProcess
<1>4. CASE OpStarts(o)
  BY <1>4, StartedBasics DEF OpStarts, Basics, TypeOK
<1>5. CASE OpRestarted(o)
  BY <1>5 DEF OpRestarted, Basics, TypeOK, Fresh, Missing, RunningHasProcess
<1>6. CASE OpStops(o)
  BY <1>6 DEF OpStops, StopBegins, Basics, TypeOK, Fresh, Missing, RunningHasProcess
<1>7. CASE OpStopped(o)
  <2>1. op' \in [Operators -> {"idle", "start", "stop", "inStop", "restop", "inRestop", "pause", "restarted"}]
    BY <1>7 DEF OpStopped, Basics, TypeOK
  <2> QED BY <1>7, <2>1, NumbersAre DEF OpStopped, StopCleans, Basics, TypeOK, Fresh, Missing, RunningHasProcess
<1> QED BY <1>1, <1>2, <1>3, <1>4, <1>5, <1>6, <1>7 DEF Request, Operate

LEMMA ChildBasics ==
  ASSUME Basics, UNCHANGED habit, StopKills \/ \E g \in Gens : ChildUp(g) \/ ChildExits(g) \/ Read(g)
  PROVE  Basics'
<1> USE BoundsAssumption DEF fields, flags, beats, procs, threads, history
<1>1. CASE StopKills
  <2>1. PICK told \in {{}, {port} \ {0}} :
          child' = [c \in Gens |-> IF c \in told /\ child[c] = "up" THEN "quit"
                                   ELSE IF c = process /\ child[c] \in Alive THEN "killed" ELSE child[c]]
    BY <1>1 DEF StopKills
  <2>2. /\ lock' = "clean"
        /\ UNCHANGED <<fields, flags, beats, count, pipe, threads, asked, history>>
    BY <1>1 DEF StopKills
  <2>3. child' \in [Gens -> {"none"} \cup Alive \cup Dead]
    BY <2>1 DEF Basics, TypeOK, Dead
  <2>4. TypeOK' /\ Missing' /\ RunningHasProcess'
    BY <2>2, <2>3 DEF Basics, TypeOK, Missing, RunningHasProcess
  <2>5. Fresh'
    BY <2>1, <2>2 DEF Basics, Fresh, Alive
  <2> QED BY <2>4, <2>5 DEF Basics
<1>2. ASSUME NEW g \in Gens, ChildUp(g) PROVE Basics'
  <2>1. habit.prints \in SUBSET {"port", "init"}
    BY HabitIs DEF Basics
  <2> QED BY <1>2, <2>1 DEF ChildUp, Basics, TypeOK, Fresh, Missing, RunningHasProcess, Alive
<1>3. ASSUME NEW g \in Gens, ChildExits(g) PROVE Basics'
  <2>1. PICK how \in habit.ends : child' = [child EXCEPT ![g] = how]
    BY <1>3 DEF ChildExits
  <2>2. how \in Dead
    BY <2>1, HabitIs DEF Dead, Basics
  <2>3. child' \in [Gens -> {"none"} \cup Alive \cup Dead]
    BY <2>1, <2>2 DEF Basics, TypeOK
  <2>4. TypeOK'
    BY <1>3, <2>3 DEF ChildExits, Basics, TypeOK
  <2>5. /\ child[g] \in Alive
        /\ UNCHANGED <<fields, flags, beats, count, pipe, threads>>
    BY <1>3 DEF ChildExits
  <2>6. Fresh'
    <3>1. \A h \in Gens : h # g => child'[h] = child[h]
      BY <2>1 DEF Basics, TypeOK
    <3>2. child[g] # "none"
      BY <2>5 DEF Alive
    <3> QED BY <2>5, <3>1, <3>2 DEF Basics, Fresh
  <2>7. Missing' /\ RunningHasProcess'
    BY <2>5 DEF Basics, Missing, RunningHasProcess
  <2> QED BY <2>4, <2>6, <2>7 DEF Basics
<1>4. ASSUME NEW g \in Gens, ReadPort(g) PROVE Basics'
  <2>1. /\ pipe' = [pipe EXCEPT ![g] = @ \ {"port"}]
        /\ port' \in {port, g}
        /\ reader' = reader \/ reader' = [reader EXCEPT ![g] = "firing"]
    BY <1>4 DEF ReadPort
  <2>2. UNCHANGED <<process, running, initDone, fired, flags, beats, count, lock, child, op, monitor, beat, auto, asked, history>>
    BY <1>4 DEF ReadPort
  <2>3. pipe' \in [Gens -> SUBSET {"port", "init"}] /\ \A h \in Gens : pipe[h] = {} => pipe'[h] = {}
    BY <2>1 DEF Basics, TypeOK
  <2>4. port' \in 0..MaxGens /\ reader' \in [Gens -> {"reading", "firing"}]
    <3>1. port \in 0..MaxGens /\ reader \in [Gens -> {"reading", "firing"}]
      BY DEF Basics, TypeOK
    <3>2. g \in 0..MaxGens
      BY DEF Gens
    <3> QED BY <2>1, <3>1, <3>2
  <2>5. TypeOK'
    BY <2>2, <2>3, <2>4 DEF Basics, TypeOK
  <2>6. Fresh' /\ Missing' /\ RunningHasProcess'
    BY <2>2, <2>3 DEF Basics, Fresh, Missing, RunningHasProcess
  <2> QED BY <2>5, <2>6 DEF Basics
<1>5. ASSUME NEW g \in Gens, ReadInit(g) PROVE Basics'
  BY <1>5 DEF ReadInit, Basics, TypeOK, Fresh, Missing, RunningHasProcess
<1>6. ASSUME NEW g \in Gens, MaybeFire(g) PROVE Basics'
  <2>1. fired' \in BOOLEAN /\ hooks' \in Nat /\ reader' \in [Gens -> {"reading", "firing"}]
    <3>1. fired \in BOOLEAN /\ hooks \in Nat /\ reader' = [reader EXCEPT ![g] = "reading"]
      BY <1>6 DEF MaybeFire, Basics, TypeOK
    <3>2. fired' \in {TRUE, fired} /\ hooks' \in {hooks, hooks + 1}
      BY <1>6 DEF MaybeFire
    <3>3. reader' \in [Gens -> {"reading", "firing"}]
      BY <3>1 DEF Basics, TypeOK
    <3>4. fired' \in BOOLEAN
      BY <3>1, <3>2, Zenon
    <3>5. hooks' \in Nat
      BY <3>1, <3>2
    <3> QED BY <3>3, <3>4, <3>5
  <2> QED BY <1>6, <2>1 DEF MaybeFire, Basics, TypeOK, Fresh, Missing, RunningHasProcess
<1> QED BY <1>1, <1>2, <1>3, <1>4, <1>5, <1>6 DEF Read

LEMMA WatchBasics ==
  ASSUME Basics, UNCHANGED habit, NEW g \in Gens, Watch(g)
  PROVE  Basics'
<1> USE BoundsAssumption DEF fields, flags, beats, procs, threads, history
<1>0. PICK m \in Monitor : /\ monitor' = [monitor EXCEPT ![g] = m]
                           /\ monitor[g].pc # "none"
  <2>0. monitor[g] \in Monitor /\ process \in 0..MaxGens /\ gen \in 0..MaxGens
    BY DEF Basics, TypeOK
  <2>1. CASE MonitorBegins(g)
    <3>1. [pc |-> "waiting", of |-> process, ev |-> gen] \in Monitor
      BY <2>0 DEF Monitor
    <3> QED BY <2>1, <3>1, GoneTyped DEF MonitorBegins
  <2>2. ASSUME Leave(g) PROVE \E m \in Monitor : monitor' = [monitor EXCEPT ![g] = m]
    BY <2>2, GoneTyped DEF Leave
  <2>3. ASSUME NEW pc \in MonitorPcs, monitor' = [monitor EXCEPT ![g].pc = pc]
        PROVE  \E m \in Monitor : monitor' = [monitor EXCEPT ![g] = m]
    <3>1. monitor' = [monitor EXCEPT ![g] = [monitor[g] EXCEPT !.pc = pc]]
      BY <2>3 DEF Basics, TypeOK
    <3> QED BY <2>0, <3>1, MonitorPc
  <2>4. CASE MonitorWaits(g)
    BY <2>2, <2>3, <2>4 DEF MonitorWaits, MonitorPcs
  <2>5. CASE MonitorChecks(g)
    BY <2>2, <2>3, <2>5 DEF MonitorChecks, MonitorPcs
  <2>6. CASE MonitorHandles(g)
    BY <2>3, <2>6 DEF MonitorHandles, MonitorPcs
  <2>7. CASE MonitorDecides(g)
    BY <2>2, <2>7 DEF MonitorDecides
  <2> QED BY <2>1, <2>4, <2>5, <2>6, <2>7 DEF Watch
<1>6. monitor' \in [Gens -> Monitor] /\ ~(g > gen) /\ \A h \in Gens : h # g => monitor'[h] = monitor[h]
  BY <1>0, MonitorBasics DEF Basics
<1>1. CASE MonitorBegins(g)
  BY <1>1, <1>6 DEF MonitorBegins, Basics, TypeOK, Fresh, Missing, RunningHasProcess
<1>2. CASE MonitorWaits(g)
  BY <1>2, <1>6 DEF MonitorWaits, Leave, Basics, TypeOK, Fresh, Missing, RunningHasProcess
<1>3. CASE MonitorChecks(g)
  BY <1>3, <1>6 DEF MonitorChecks, Leave, Basics, TypeOK, Fresh, Missing, RunningHasProcess
<1>4. CASE MonitorHandles(g)
  <2>1. {process} \ {0, monitor[g].of} \subseteq Gens
    BY NumbersAre DEF Basics, TypeOK
  <2>2. forgot' \subseteq Gens
    BY <1>4, <2>1 DEF MonitorHandles, Basics, TypeOK
  <2>3. TypeOK'
    <3>1. /\ process' = 0 /\ running' = FALSE /\ port' = 0 /\ initDone' = FALSE /\ fired' = TRUE
          /\ UNCHANGED <<stopping, restarting, gen, hbStop, count, lock, child, pipe, op, reader, beat, auto, asked, hooks>>
      BY <1>4 DEF MonitorHandles
    <3> QED BY <1>6, <2>2, <3>1, NumbersAre DEF Basics, TypeOK
  <2>4. Fresh' /\ Missing' /\ RunningHasProcess'
    BY <1>4, <1>6 DEF MonitorHandles, Basics, Fresh, Missing, RunningHasProcess
  <2> QED BY <2>3, <2>4 DEF Basics
<1>5. CASE MonitorDecides(g)
  <2>1. auto' \in [Gens -> {"none", "counting", "delay", "start", "clear", "done"}]
    BY <1>5 DEF MonitorDecides, Basics, TypeOK
  <2> QED BY <1>5, <1>6, <2>1 DEF MonitorDecides, Leave, Basics, TypeOK, Fresh, Missing, RunningHasProcess
<1> QED BY <1>1, <1>2, <1>3, <1>4, <1>5 DEF Watch

LEMMA AutoBasics ==
  ASSUME Basics, UNCHANGED habit, NEW g \in Gens, AutoRestart(g)
  PROVE  Basics'
<1> USE BoundsAssumption DEF fields, flags, beats, procs, threads, history
<1>1. CASE AutoCounts(g)
  BY <1>1 DEF AutoCounts, Basics, TypeOK, Fresh, Missing, RunningHasProcess
<1>2. CASE AutoFlags(g)
  BY <1>2 DEF AutoFlags, Basics, TypeOK, Fresh, Missing, RunningHasProcess
<1>3. CASE AutoStarts(g)
  BY <1>3, StartedBasics DEF AutoStarts, Basics, TypeOK
<1>4. CASE AutoClears(g)
  BY <1>4 DEF AutoClears, Basics, TypeOK, Fresh, Missing, RunningHasProcess
<1> QED BY <1>1, <1>2, <1>3, <1>4 DEF AutoRestart

LEMMA BeatBasics ==
  ASSUME Basics, UNCHANGED habit, NEW g \in Gens, Beat(g)
  PROVE  Basics'
<1> USE BoundsAssumption DEF fields, flags, beats, procs, threads, history
<1>0. PICK b \in Heartbeat : /\ beat' = [beat EXCEPT ![g] = b]
                             /\ beat[g].pc # "none"
                             /\ b.pc \in {"none", "delay", "check", "calling"} => b.misses <= Missable
  <2>0. beat[g] \in Heartbeat /\ port \in 0..MaxGens /\ beat[g].misses \in 0..Missable + 1
    BY DEF Basics, TypeOK, Heartbeat
  <2>1. CASE BeatChecks(g)
    <3>1. PICK pc \in {"failed", "exit", "calling"}, p \in 0..MaxGens :
            beat' = [beat EXCEPT ![g].pc = pc, ![g].port = p]
      BY <2>0, <2>1, NumbersAre DEF BeatChecks
    <3> DEFINE b == [beat[g] EXCEPT !.pc = pc, !.port = p]
    <3>2. b \in Heartbeat /\ b.misses = beat[g].misses
      BY <2>0 DEF Heartbeat
    <3>3. beat' = [beat EXCEPT ![g] = b]
      BY <3>1 DEF Basics, TypeOK
    <3>4. beat[g].misses <= Missable
      BY <2>1 DEF BeatChecks, Basics, Missing
    <3> QED BY <2>1, <3>2, <3>3, <3>4 DEF BeatChecks
  <2>2. CASE BeatCalls(g)
    <3>1. beat[g].misses <= Missable
      BY <2>2 DEF BeatCalls, Basics, Missing
    <3> DEFINE answered == [pc |-> "check", misses |-> 0, port |-> 0]
               missed == [pc |-> IF beat[g].misses = Missable THEN "stop" ELSE "check",
                          misses |-> beat[g].misses + 1, port |-> 0]
    <3>2. answered \in Heartbeat /\ missed \in Heartbeat
      BY <2>0, <3>1, NumbersAre DEF Heartbeat
    <3>3. beat' = [beat EXCEPT ![g] = answered] \/ beat' = [beat EXCEPT ![g] = missed]
      BY <2>2 DEF BeatCalls, Basics, TypeOK
    <3>4. answered.misses <= Missable /\ (missed.pc # "stop" => missed.misses <= Missable)
      BY <2>0, <3>1, NumbersAre
    <3> QED BY <2>2, <3>2, <3>3, <3>4 DEF BeatCalls
  <2>3. ASSUME NEW pc \in {"inStop", "exit"}, Beats(g, pc)
        PROVE  \E b \in Heartbeat : beat' = [beat EXCEPT ![g] = b] /\ b.pc \notin {"none", "delay", "check", "calling"}
    <3>1. beat' = [beat EXCEPT ![g] = [beat[g] EXCEPT !.pc = pc]]
      BY <2>3 DEF Beats, Basics, TypeOK
    <3> QED BY <2>0, <3>1, BeatPc DEF BeatPcs
  <2>4. CASE BeatStops(g)
    BY <2>3, <2>4 DEF BeatStops
  <2>5. CASE BeatStopped(g)
    BY <2>3, <2>5 DEF BeatStopped
  <2>6. CASE BeatExits(g)
    <3>1. [pc |-> "done", misses |-> 0, port |-> 0] \in Heartbeat
      BY NumbersAre DEF Heartbeat
    <3> QED BY <2>6, <3>1 DEF BeatExits
  <2> QED BY <2>1, <2>2, <2>4, <2>5, <2>6 DEF Beat
<1>6. /\ beat' \in [Gens -> Heartbeat] /\ Missing' /\ ~(g > gen)
      /\ \A h \in Gens : h # g => beat'[h] = beat[h]
  BY <1>0, HeartbeatBasics DEF Basics
<1>1. CASE BeatChecks(g)
  BY <1>1, <1>6 DEF BeatChecks, Basics, TypeOK, Fresh, RunningHasProcess
<1>2. CASE BeatCalls(g)
  BY <1>2, <1>6 DEF BeatCalls, Basics, TypeOK, Fresh, RunningHasProcess
<1>3. CASE BeatStops(g)
  BY <1>3, <1>6 DEF BeatStops, StopBegins, Basics, TypeOK, Fresh, RunningHasProcess
<1>4. CASE BeatStopped(g)
  BY <1>4, <1>6, NumbersAre DEF BeatStopped, StopCleans, Basics, TypeOK, Fresh, RunningHasProcess
<1>5. CASE BeatExits(g)
  BY <1>5, <1>6 DEF BeatExits, Basics, TypeOK, Fresh, RunningHasProcess
<1> QED BY <1>1, <1>2, <1>3, <1>4, <1>5 DEF Beat

LEMMA StepBasics == Basics /\ [Next]_vars => Basics'
<1>1. Basics /\ UNCHANGED vars => Basics'
  BY DEF vars, fields, flags, beats, procs, threads, history, Basics, TypeOK, Fresh, Missing, RunningHasProcess
<1> QED BY <1>1, OperatorBasics, ChildBasics, WatchBasics, AutoBasics, BeatBasics DEF Next

LEMMA BasicsHold == Spec => []Basics
BY InitBasics, StepBasics, PTL DEF Spec
-----------------------------------------------------------------------------
(* No child is left running that the manager does not know of.              *)

\* What the children and the monitors did in a step, as far as Known can tell.
LEMMA KnownKept ==
  ASSUME Basics, Known, UNCHANGED <<process, child, forgot>>,
         lock' = "clean" => lock = "clean",
         \A g \in Gens : monitor'[g].pc \in {"waiting", "current", "handling"} =>
            /\ monitor'[g].of \in Gens
            /\ monitor'[g].pc # "waiting" => child[monitor'[g].of] \in Dead
  PROVE  Known'
BY DEF Known, OnlyTheMonitorForgets

LEMMA MonitorsKept ==
  ASSUME Basics, Known, UNCHANGED monitor
  PROVE  \A g \in Gens : monitor'[g].pc \in {"waiting", "current", "handling"} =>
            /\ monitor'[g].of \in Gens
            /\ monitor'[g].pc # "waiting" => child[monitor'[g].of] \in Dead
BY DEF Known

\* start(): the children before the new one are not running, or forgotten already.
LEMMA StartedKnown ==
  ASSUME Basics, Basics', Known, Started, UNCHANGED <<lock, forgot>>
  PROVE  Known'
<1>1. lock = "free"
  BY DEF Started
<1>2. CASE UNCHANGED <<process, child, monitor>>
  BY <1>2, KnownKept, MonitorsKept
<1>3. CASE /\ ~running /\ gen < MaxGens /\ gen' = gen + 1 /\ process' = gen'
           /\ child' = [child EXCEPT ![gen'] = "booting"] /\ monitor' = [monitor EXCEPT ![gen'].pc = "fresh"]
  <2>1. gen \in Nat /\ gen' \in Gens /\ gen' > gen /\ process = 0
    BY <1>3, NumbersAre DEF Basics, TypeOK, RunningHasProcess
  <2>2. child[gen'] = "none" /\ monitor[gen'].pc = "none"
    BY <2>1 DEF Basics, Fresh
  <2>3. \A g \in Gens \ {gen'} : monitor'[g] = monitor[g] /\ child'[g] = child[g]
    BY <1>3 DEF Basics, TypeOK
  <2>4. monitor'[gen'].pc = "fresh" /\ child'[gen'] = "booting"
    <3>1. monitor[gen'] \in Monitor /\ monitor'[gen'] = [monitor[gen'] EXCEPT !.pc = "fresh"]
      BY <1>3, <2>1 DEF Basics, TypeOK
    <3>2. monitor'[gen'].pc = "fresh"
      BY <3>1, MonitorPc DEF MonitorPcs
    <3> QED BY <1>3, <2>1, <3>2 DEF Basics, TypeOK
  <2>5. \A g \in Gens : child[g] \in Dead => g # gen'
    BY <2>2 DEF Dead
  <2>6. ASSUME NEW g \in Gens, monitor'[g].pc \in {"waiting", "current", "handling"}
        PROVE  /\ monitor'[g].of \in Gens
               /\ monitor'[g].pc # "waiting" => child'[monitor'[g].of] \in Dead
    <3>1. g # gen' /\ monitor'[g] = monitor[g]
      BY <2>3, <2>4, <2>6
    <3>2. monitor[g].of \in Gens /\ (monitor[g].pc # "waiting" => child[monitor[g].of] \in Dead)
      BY <2>6, <3>1 DEF Known
    <3> QED BY <2>3, <2>5, <3>1, <3>2
  <2>7. OnlyTheMonitorForgets'
    BY <1>3, <2>1, <2>3, NumbersAre DEF Known, OnlyTheMonitorForgets
  <2> QED BY <1>1, <2>6, <2>7 DEF Known
<1> QED BY <1>2, <1>3 DEF Started, fields

\* The end of stop(): its child is dead by then.
LEMMA CleansKnown ==
  ASSUME Basics, Known, StopCleans, UNCHANGED <<child, monitor, forgot>>
  PROVE  Known'
<1>1. lock = "clean" /\ lock' = "free" /\ process' = 0
  BY DEF StopCleans
<1>2. \A g \in Gens : child[g] \in Alive => g \in forgot
  BY <1>1, NumbersAre DEF Known, OnlyTheMonitorForgets, Alive, Dead
<1> QED BY <1>1, <1>2, MonitorsKept DEF Known, OnlyTheMonitorForgets

LEMMA KillsKnown == ASSUME Basics, Known, StopKills PROVE Known'
<1>1. PICK told \in {{}, {port} \ {0}} :
        child' = [c \in Gens |-> IF c \in told /\ child[c] = "up" THEN "quit"
                                 ELSE IF c = process /\ child[c] \in Alive THEN "killed" ELSE child[c]]
  BY DEF StopKills
<1>2. UNCHANGED <<process, monitor, forgot>>
  BY DEF StopKills, fields, threads, history
<1>3. \A c \in Gens : /\ child[c] \in Dead => child'[c] \in Dead
                      /\ child'[c] \in Alive => child[c] \in Alive
                      /\ c = process => child'[c] \notin Alive
  BY <1>1 DEF Basics, TypeOK, Alive, Dead
<1> QED BY <1>1, <1>2, <1>3 DEF Known, OnlyTheMonitorForgets, Basics, TypeOK, Gens
LEMMA ChildKnown ==
  ASSUME Basics, Known, NEW g \in Gens, ChildUp(g) \/ ChildExits(g)
  PROVE  Known'
<1>1. UNCHANGED <<process, lock, monitor, forgot>>
  BY DEF ChildUp, ChildExits, fields, threads, history
<1>2. \A c \in Gens : /\ child[c] \in Dead => child'[c] \in Dead
                      /\ child'[c] \in Alive => child[c] \in Alive
  <2>1. CASE ChildUp(g)
    BY <2>1 DEF ChildUp, Basics, TypeOK, Alive, Dead
  <2>2. CASE ChildExits(g)
    <3>1. PICK how \in habit.ends : child' = [child EXCEPT ![g] = how]
      BY <2>2 DEF ChildExits
    <3>2. how \in Dead /\ how \notin Alive
      BY <3>1, HabitIs DEF Dead, Alive, Basics
    <3> QED BY <3>1, <3>2 DEF Basics, TypeOK
  <2> QED BY <2>1, <2>2
<1> QED BY <1>1, <1>2, NumbersAre DEF Known, OnlyTheMonitorForgets, Basics, TypeOK

LEMMA WatchKnown ==
  ASSUME Basics, Known, NEW g \in Gens, Watch(g)
  PROVE  Known'
<1>1. monitor[g] \in Monitor /\ process \in 0..MaxGens /\ UNCHANGED <<child, lock>>
  BY DEF Basics, TypeOK, Watch, MonitorBegins, MonitorWaits, MonitorChecks, MonitorHandles, MonitorDecides, procs
<1>2. Gone.pc = "done"
  BY DEF Gone
<1>3. ASSUME NEW m, monitor' = [monitor EXCEPT ![g] = m], UNCHANGED <<process, forgot>>,
             m.pc \in {"waiting", "current", "handling"} =>
               m.of \in Gens /\ (m.pc # "waiting" => child[m.of] \in Dead)
      PROVE  Known'
  <2>1. \A h \in Gens : monitor'[h] = IF h = g THEN m ELSE monitor[h]
    BY <1>3 DEF Basics, TypeOK
  <2>2. ASSUME NEW h \in Gens, monitor'[h].pc \in {"waiting", "current", "handling"}
        PROVE  /\ monitor'[h].of \in Gens
               /\ monitor'[h].pc # "waiting" => child[monitor'[h].of] \in Dead
    BY <1>3, <2>1, <2>2 DEF Known
  <2> QED BY <1>1, <1>3, <2>2, KnownKept
<1>4. ASSUME NEW pc \in {"current", "handling", "deciding"}, monitor' = [monitor EXCEPT ![g].pc = pc]
      PROVE  monitor' = [monitor EXCEPT ![g] = [monitor[g] EXCEPT !.pc = pc]]
  BY <1>4 DEF Basics, TypeOK
<1>5. CASE MonitorBegins(g)
  <2>1. UNCHANGED <<process, forgot>>
    BY <1>5 DEF MonitorBegins, fields, history
  <2>2. CASE process = 0
    BY <1>2, <1>3, <1>5, <2>1, <2>2 DEF MonitorBegins
  <2>3. CASE process # 0
    <3> DEFINE m == [pc |-> "waiting", of |-> process, ev |-> gen]
    <3>1. monitor' = [monitor EXCEPT ![g] = m] /\ m.pc = "waiting" /\ m.of \in Gens
      BY <1>1, <1>5, <2>3, NumbersAre DEF MonitorBegins
    <3> HIDE DEF m
    <3> QED BY <1>3, <2>1, <3>1
  <2> QED BY <2>2, <2>3
<1>6. CASE MonitorWaits(g)
  <2>1. UNCHANGED <<process, forgot>> /\ monitor[g].of \in Gens /\ child[monitor[g].of] \in Dead
    BY <1>6 DEF MonitorWaits, fields, history, Known
  <2>2. CASE Leave(g)
    BY <1>2, <1>3, <2>1, <2>2 DEF Leave
  <2>3. CASE monitor' = [monitor EXCEPT ![g].pc = "current"]
    BY <1>1, <1>3, <1>4, <2>1, <2>3, MonitorPc DEF MonitorPcs
  <2> QED BY <1>6, <2>2, <2>3 DEF MonitorWaits
<1>7. CASE MonitorChecks(g)
  <2>1. UNCHANGED <<process, forgot>> /\ monitor[g].of \in Gens /\ child[monitor[g].of] \in Dead
    BY <1>7 DEF MonitorChecks, fields, history, Known
  <2>2. CASE Leave(g)
    BY <1>2, <1>3, <2>1, <2>2 DEF Leave
  <2>3. CASE monitor' = [monitor EXCEPT ![g].pc = "handling"]
    BY <1>1, <1>3, <1>4, <2>1, <2>3, MonitorPc DEF MonitorPcs
  <2> QED BY <1>7, <2>2, <2>3 DEF MonitorChecks
<1>8. CASE MonitorHandles(g)
  <2>1. /\ lock = "free" /\ process' = 0 /\ forgot' = forgot \cup ({process} \ {0, monitor[g].of})
        /\ monitor' = [monitor EXCEPT ![g] = [monitor[g] EXCEPT !.pc = "deciding"]]
        /\ child[monitor[g].of] \in Dead
    BY <1>4, <1>8 DEF MonitorHandles, Known
  <2>2. [monitor[g] EXCEPT !.pc = "deciding"].pc = "deciding"
    BY <1>1, MonitorPc DEF MonitorPcs
  <2>3. \A h \in Gens : monitor'[h] = IF h = g THEN [monitor[g] EXCEPT !.pc = "deciding"] ELSE monitor[h]
    BY <2>1 DEF Basics, TypeOK
  <2>4. \A h \in Gens : monitor'[h].pc \in {"waiting", "current", "handling"} =>
            /\ monitor'[h].of \in Gens
            /\ monitor'[h].pc # "waiting" => child[monitor'[h].of] \in Dead
    BY <2>2, <2>3 DEF Known
  <2>5. \A h \in Gens : child[h] \in Alive => h # monitor[g].of
    BY <2>1 DEF Alive, Dead
  <2>6. OnlyTheMonitorForgets'
    BY <1>1, <2>1, <2>5, NumbersAre DEF Known, OnlyTheMonitorForgets
  <2> QED BY <1>1, <2>1, <2>4, <2>6 DEF Known
<1>9. CASE MonitorDecides(g)
  BY <1>2, <1>3, <1>9 DEF MonitorDecides, Leave, fields, history
<1> QED BY <1>5, <1>6, <1>7, <1>8, <1>9 DEF Watch

LEMMA StepKnown == ASSUME Basics, Basics', Known, [Next]_vars PROVE Known'
<1> USE DEF fields, flags, beats, procs, threads, history
<1>1. ASSUME UNCHANGED <<process, child, monitor, forgot>>, lock' = "clean" => lock = "clean"
      PROVE  Known'
  BY <1>1, KnownKept, MonitorsKept
<1>2. ASSUME NEW o \in Operators, Request(o) PROVE Known'
  BY <1>1, <1>2 DEF Request, Toggle, Close, Restart
<1>3. ASSUME NEW o \in Operators, Operate(o) PROVE Known'
  <2>1. CASE OpStarts(o)
    BY <2>1, StartedKnown DEF OpStarts
  <2>2. CASE OpRestarted(o)
    BY <1>1, <2>2 DEF OpRestarted
  <2>3. CASE OpStops(o)
    BY <1>1, <2>3 DEF OpStops, StopBegins
  <2>4. CASE OpStopped(o)
    BY <2>4, CleansKnown DEF OpStopped
  <2> QED BY <1>3, <2>1, <2>2, <2>3, <2>4 DEF Operate
<1>4. ASSUME NEW g \in Gens, Read(g) PROVE Known'
  BY <1>1, <1>4 DEF Read, ReadPort, ReadInit, MaybeFire
<1>5. ASSUME NEW g \in Gens, AutoRestart(g) PROVE Known'
  <2>1. CASE AutoStarts(g)
    BY <2>1, StartedKnown DEF AutoStarts
  <2>2. CASE AutoCounts(g) \/ AutoFlags(g) \/ AutoClears(g)
    BY <1>1, <2>2 DEF AutoCounts, AutoFlags, AutoClears
  <2> QED BY <1>5, <2>1, <2>2 DEF AutoRestart
<1>6. ASSUME NEW g \in Gens, Beat(g) PROVE Known'
  <2>1. CASE BeatStopped(g)
    BY <2>1, CleansKnown DEF BeatStopped
  <2>2. CASE BeatStops(g)
    BY <1>1, <2>2 DEF BeatStops, StopBegins
  <2>3. CASE BeatChecks(g) \/ BeatCalls(g) \/ BeatExits(g)
    BY <1>1, <2>3 DEF BeatChecks, BeatCalls, BeatExits
  <2> QED BY <1>6, <2>1, <2>2, <2>3 DEF Beat
<1>7. CASE UNCHANGED vars
  BY <1>1, <1>7 DEF vars
<1> QED BY <1>2, <1>3, <1>4, <1>5, <1>6, <1>7, KillsKnown, ChildKnown, WatchKnown DEF Next

LEMMA InitKnown == Init => Known
BY NumbersAre DEF Init, Known, OnlyTheMonitorForgets, Alive

LEMMA KnownHolds == Spec => []Known
BY InitKnown, StepKnown, BasicsHold, PTL DEF Spec
-----------------------------------------------------------------------------
(* A hook for each port token, a port token for each start.                 *)

Taken == {g \in Gens : child[g] \notin {"none", "booting"} /\ "port" \notin pipe[g]}
Chance == IF port # 0 /\ ~fired THEN 1 ELSE 0

Hooked ==
  /\ \A g \in Gens : pipe[g] # {} => child[g] \notin {"none", "booting"}
  /\ hooks + Chance <= Cardinality(Taken)

LEMMA TakenFinite == IsFiniteSet(Taken) /\ Cardinality(Taken) \in Nat
<1>1. IsFiniteSet(Gens)
  BY NumbersAre, FS_Interval
<1> QED BY <1>1, FS_Subset, FS_CardinalityType DEF Taken

LEMMA HookedKept ==
  ASSUME Basics, Hooked, \A g \in Gens : pipe'[g] # {} => child'[g] \notin {"none", "booting"},
         Taken \subseteq Taken', hooks' = hooks, port' = 0 \/ fired' = TRUE \/ UNCHANGED <<port, fired>>
  PROVE  Hooked'
<1>1. IsFiniteSet(Gens)
  BY NumbersAre, FS_Interval
<1>2. IsFiniteSet(Taken') /\ IsFiniteSet(Taken)
  BY <1>1, FS_Subset DEF Taken
<1>3. Cardinality(Taken) <= Cardinality(Taken') /\ Cardinality(Taken) \in Nat /\ Cardinality(Taken') \in Nat
  BY <1>2, FS_Subset, FS_CardinalityType
<1>4. Chance' <= Chance /\ Chance \in Nat /\ Chance' \in Nat
  BY DEF Chance
<1>5. hooks \in Nat
  BY DEF Basics, TypeOK
<1>6. hooks' + Chance' <= Cardinality(Taken')
  BY <1>3, <1>4, <1>5 DEF Hooked
<1>7. Cardinality(Taken') = Cardinality(Taken)'
  OBVIOUS
<1> QED BY <1>6, <1>7 DEF Hooked

LEMMA StartedHooked ==
  ASSUME Basics, Hooked, Started, UNCHANGED <<pipe, hooks>>
  PROVE  Hooked'
<1>1. port' = 0 \/ UNCHANGED <<port, fired>>
  BY DEF Started, fields
<1>2. CASE UNCHANGED child
  BY <1>1, <1>2, HookedKept DEF Taken, Hooked
<1>3. CASE gen < MaxGens /\ gen' = gen + 1 /\ child' = [child EXCEPT ![gen'] = "booting"]
  <2>1. gen' \in Gens /\ gen' > gen
    BY <1>3, NumbersAre DEF Basics, TypeOK
  <2>2. child[gen'] = "none" /\ pipe[gen'] = {}
    BY <2>1 DEF Basics, Fresh
  <2>3. \A g \in Gens : g # gen' => child'[g] = child[g]
    BY <1>3 DEF Basics, TypeOK
  <2>4. Taken \subseteq Taken'
    BY <2>2, <2>3 DEF Taken
  <2>5. \A g \in Gens : pipe'[g] # {} => child'[g] \notin {"none", "booting"}
    BY <2>2, <2>3 DEF Hooked
  <2> QED BY <1>1, <2>4, <2>5, HookedKept
<1> QED BY <1>2, <1>3 DEF Started

\* The children and the tokens they print.
LEMMA ChildHooked ==
  ASSUME Basics, Hooked, StopKills \/ \E g \in Gens : ChildUp(g) \/ ChildExits(g)
  PROVE  Hooked'
<1>1. UNCHANGED <<port, fired, hooks>>
  BY DEF StopKills, ChildUp, ChildExits, fields, history
<1>2. CASE StopKills
  <2>1. UNCHANGED pipe /\ \A c \in Gens : child'[c] \in {child[c], "quit", "killed"} /\ (child[c] \in {"none"} => child'[c] = child[c])
    BY <1>2 DEF StopKills, Basics, TypeOK, Alive
  <2> QED BY <1>1, <2>1, HookedKept DEF Taken, Hooked
<1>3. ASSUME NEW g \in Gens, ChildUp(g) PROVE Hooked'
  <2>1. /\ child[g] = "booting" /\ child'[g] = "up"
        /\ \A c \in Gens : c # g => child'[c] = child[c] /\ pipe'[c] = pipe[c]
    BY <1>3 DEF ChildUp, Basics, TypeOK
  <2> QED BY <1>1, <2>1, HookedKept DEF Taken, Hooked
<1>4. ASSUME NEW g \in Gens, ChildExits(g) PROVE Hooked'
  <2>1. PICK how \in habit.ends : child' = [child EXCEPT ![g] = how] /\ UNCHANGED pipe
    BY <1>4 DEF ChildExits
  <2>2. how \notin {"none", "booting"}
    BY <2>1, HabitIs DEF Basics
  <2>3. \A c \in Gens : child'[c] = IF c = g THEN how ELSE child[c]
    BY <2>1 DEF Basics, TypeOK
  <2> QED BY <1>1, <2>1, <2>2, <2>3, HookedKept DEF Taken, Hooked
<1> QED BY <1>2, <1>3, <1>4

\* The readers: a port token gives the chance of one hook.
LEMMA ReadHooked ==
  ASSUME Basics, Hooked, NEW g \in Gens, Read(g)
  PROVE  Hooked'
<1>1. \A c \in Gens : pipe[c] # {} => child[c] \notin {"none", "booting"}
  BY DEF Hooked
<1>2. CASE ReadPort(g)
  <2>1. /\ "port" \in pipe[g] /\ UNCHANGED <<child, fired, hooks>>
        /\ pipe' = [pipe EXCEPT ![g] = pipe[g] \ {"port"}]
        /\ port' = IF port = 0 THEN g ELSE port
    BY <1>2 DEF ReadPort, history
  <2>2. \A c \in Gens : pipe'[c] = IF c = g THEN pipe[g] \ {"port"} ELSE pipe[c]
    BY <2>1 DEF Basics, TypeOK
  <2>3. \A c \in Gens : pipe'[c] # {} => child'[c] \notin {"none", "booting"}
    BY <1>1, <2>1, <2>2
  <2>4. g \notin Taken /\ Taken' = Taken \cup {g}
    BY <1>1, <2>1, <2>2 DEF Taken
  <2>5. CASE port # 0
    BY <2>1, <2>3, <2>4, <2>5, HookedKept
  <2>6. CASE port = 0
    <3>1. Cardinality(Taken') = Cardinality(Taken) + 1 /\ Cardinality(Taken) \in Nat
      BY <2>4, TakenFinite, FS_AddElement
    <3>2. Chance = 0 /\ Chance' \in {0, 1} /\ hooks \in Nat
      BY <2>6 DEF Chance, Basics, TypeOK
    <3>3. hooks' + Chance' <= Cardinality(Taken')
      BY <2>1, <3>1, <3>2 DEF Hooked
    <3> QED BY <2>3, <3>3 DEF Hooked
  <2> QED BY <2>5, <2>6
<1>3. CASE ReadInit(g)
  <2>1. UNCHANGED <<child, port, fired, hooks>> /\ pipe' = [pipe EXCEPT ![g] = pipe[g] \ {"init"}]
    BY <1>3 DEF ReadInit, history
  <2>2. \A c \in Gens : pipe'[c] = IF c = g THEN pipe[g] \ {"init"} ELSE pipe[c]
    BY <2>1 DEF Basics, TypeOK
  <2> QED BY <1>1, <2>1, <2>2, HookedKept DEF Taken
<1>4. CASE MaybeFire(g)
  <2>1. UNCHANGED <<child, pipe, port>>
    BY <1>4 DEF MaybeFire, procs
  <2>2. Taken' = Taken
    BY <2>1 DEF Taken
  <2>3. CASE UNCHANGED <<fired, hooks>>
    BY <1>1, <2>1, <2>2, <2>3, HookedKept
  <2>4. CASE ~fired /\ port # 0 /\ fired' = TRUE /\ hooks' = hooks + 1
    <3>1. Chance = 1 /\ Chance' = 0 /\ hooks \in Nat
      BY <2>4 DEF Chance, Basics, TypeOK
    <3>2. hooks' + Chance' <= Cardinality(Taken)
      BY <2>4, <3>1, TakenFinite DEF Hooked
    <3> QED BY <1>1, <2>1, <2>2, <3>2 DEF Hooked
  <2> QED BY <1>4, <2>3, <2>4 DEF MaybeFire
<1> QED BY <1>2, <1>3, <1>4 DEF Read

LEMMA StepHooked == ASSUME Basics, Hooked, [Next]_vars PROVE Hooked'
<1> USE DEF fields, flags, beats, procs, threads, history
<1>1. ASSUME UNCHANGED <<child, pipe, hooks>>, port' = 0 \/ UNCHANGED <<port, fired>>
      PROVE  Hooked'
  BY <1>1, HookedKept DEF Hooked, Taken
<1>2. ASSUME NEW o \in Operators, Request(o) PROVE Hooked'
  BY <1>1, <1>2 DEF Request, Toggle, Close, Restart
<1>3. ASSUME NEW o \in Operators, Operate(o) PROVE Hooked'
  BY <1>1, <1>3, StartedHooked DEF Operate, OpStarts, OpRestarted, OpStops, OpStopped, StopBegins, StopCleans
<1>4. ASSUME NEW g \in Gens, Watch(g) PROVE Hooked'
  BY <1>1, <1>4 DEF Watch, MonitorBegins, MonitorWaits, MonitorChecks, MonitorHandles, MonitorDecides
<1>5. ASSUME NEW g \in Gens, AutoRestart(g) PROVE Hooked'
  BY <1>1, <1>5, StartedHooked DEF AutoRestart, AutoCounts, AutoFlags, AutoStarts, AutoClears
<1>6. ASSUME NEW g \in Gens, Beat(g) PROVE Hooked'
  BY <1>1, <1>6 DEF Beat, BeatChecks, BeatCalls, BeatStops, BeatStopped, BeatExits, StopBegins, StopCleans
<1>7. CASE UNCHANGED vars
  BY <1>1, <1>7 DEF vars
<1> QED BY <1>2, <1>3, <1>4, <1>5, <1>6, <1>7, ChildHooked, ReadHooked DEF Next

LEMMA InitHooked == Init => Hooked
BY TakenFinite DEF Init, Hooked, Chance

\* The starts there have been are as many as the tokens there can be.
LEMMA TakenBounded == ASSUME Basics, Hooked PROVE HooksPerStart
<1>1. gen \in Nat /\ hooks \in Nat
  BY NumbersAre DEF Basics, TypeOK
<1>2. Taken \subseteq 1..gen
  BY <1>1, NumbersAre DEF Taken, Basics, Fresh
<1>3. IsFiniteSet(1..gen) /\ Cardinality(1..gen) = gen
  BY <1>1, FS_Interval
<1>4. Cardinality(Taken) <= gen
  BY <1>2, <1>3, FS_Subset
<1> QED BY <1>1, <1>4, TakenFinite DEF Hooked, HooksPerStart, Chance

LEMMA HookedHolds == Spec => []Hooked
BY InitHooked, StepHooked, BasicsHold, PTL DEF Spec
-----------------------------------------------------------------------------
(* Attempts: a ticket for each start that is asked for, each live monitor   *)
(* and each automatic restart on its way.                                   *)

Live == {g \in Gens : monitor[g].pc \notin {"none", "done"}}
Counting == {g \in Gens : auto[g] = "counting"}
Coming == {g \in Gens : auto[g] \in {"counting", "delay", "start"}}
Asking == {o \in Operators : op[o] \in {"start", "restop", "inRestop", "pause"}}

Tickets == Cardinality(Live) + Cardinality(Coming) + Cardinality(Asking)

Attempts ==
  /\ Tickets <= 1 + asked
  /\ count + Cardinality(Counting) <= MaxAttempts + asked

LEMMA Finite ==
  /\ IsFiniteSet(Live) /\ IsFiniteSet(Counting) /\ IsFiniteSet(Coming) /\ IsFiniteSet(Asking)
  /\ Cardinality(Live) \in Nat /\ Cardinality(Counting) \in Nat
  /\ Cardinality(Coming) \in Nat /\ Cardinality(Asking) \in Nat
<1>1. IsFiniteSet(Gens) /\ IsFiniteSet(Operators)
  BY NumbersAre, FS_Interval, OperatorsAssumption
<1> QED BY <1>1, FS_Subset, FS_CardinalityType DEF Live, Counting, Coming, Asking

\* One element more or less.
LEMMA Adding ==
  ASSUME NEW A, IsFiniteSet(A), NEW a, NEW B \in SUBSET (A \cup {a})
  PROVE  Cardinality(B) <= Cardinality(A) + 1 /\ Cardinality(A) \in Nat /\ Cardinality(B) \in Nat
<1>1. IsFiniteSet(A \cup {a}) /\ Cardinality(A \cup {a}) <= Cardinality(A) + 1 /\ Cardinality(A) \in Nat
  BY FS_AddElement, FS_CardinalityType
<1>2. IsFiniteSet(B) /\ Cardinality(B) <= Cardinality(A \cup {a}) /\ Cardinality(A \cup {a}) \in Nat
  BY <1>1, FS_Subset, FS_CardinalityType
<1> QED BY <1>1, <1>2, FS_CardinalityType

LEMMA Removing ==
  ASSUME NEW A, IsFiniteSet(A), NEW a \in A, NEW B \in SUBSET (A \ {a})
  PROVE  Cardinality(B) <= Cardinality(A) - 1 /\ Cardinality(A) \in Nat /\ Cardinality(B) \in Nat
<1>1. IsFiniteSet(A \ {a}) /\ Cardinality(A \ {a}) = Cardinality(A) - 1 /\ Cardinality(A) \in Nat
  BY FS_RemoveElement, FS_CardinalityType
<1>2. IsFiniteSet(B) /\ Cardinality(B) <= Cardinality(A \ {a})
  BY <1>1, FS_Subset
<1> QED BY <1>1, <1>2, FS_CardinalityType

LEMMA Keeping ==
  ASSUME NEW A, IsFiniteSet(A), NEW B \in SUBSET A
  PROVE  Cardinality(B) <= Cardinality(A) /\ Cardinality(A) \in Nat /\ Cardinality(B) \in Nat
BY FS_Subset, FS_CardinalityType

\* What the sets of a step say about their numbers.
LEMMA AttemptsFrom ==
  ASSUME Basics, Basics', Attempts, asked' \in {asked, asked + 1},
         Cardinality(Live') + Cardinality(Coming') + Cardinality(Asking') <= Tickets + (asked' - asked),
         count' + Cardinality(Counting') <= count + Cardinality(Counting) + (asked' - asked)
  PROVE  Attempts'
<1>1. asked \in Nat /\ count \in Nat /\ asked' \in Nat /\ count' \in Nat /\ MaxAttempts \in Nat
  BY BoundsAssumption DEF Basics, TypeOK
<1>2. /\ Cardinality(Live') \in Nat /\ Cardinality(Coming') \in Nat /\ Cardinality(Asking') \in Nat
      /\ Cardinality(Counting') \in Nat
  <2>1. IsFiniteSet(Gens) /\ IsFiniteSet(Operators)
    BY NumbersAre, FS_Interval, OperatorsAssumption
  <2> QED BY <2>1, FS_Subset, FS_CardinalityType DEF Live, Counting, Coming, Asking
<1>3. /\ Cardinality(Live)' = Cardinality(Live') /\ Cardinality(Coming)' = Cardinality(Coming')
      /\ Cardinality(Asking)' = Cardinality(Asking') /\ Cardinality(Counting)' = Cardinality(Counting')
  OBVIOUS
<1>4. Tickets' <= 1 + asked'
  BY <1>1, <1>2, <1>3, Finite DEF Attempts, Tickets
<1>5. count' + Cardinality(Counting)' <= MaxAttempts + asked'
  BY <1>1, <1>2, <1>3, Finite DEF Attempts
<1> QED BY <1>4, <1>5 DEF Attempts

\* A step that gives no ticket and counts nothing.
LEMMA AttemptsKept ==
  ASSUME Basics, Basics', Attempts, UNCHANGED <<count, asked>>,
         Live' \subseteq Live, Coming' \subseteq Coming, Asking' \subseteq Asking, Counting' \subseteq Counting
  PROVE  Attempts'
<1>1. /\ Cardinality(Live') <= Cardinality(Live) /\ Cardinality(Live') \in Nat
      /\ Cardinality(Coming') <= Cardinality(Coming) /\ Cardinality(Coming') \in Nat
      /\ Cardinality(Asking') <= Cardinality(Asking) /\ Cardinality(Asking') \in Nat
      /\ Cardinality(Counting') <= Cardinality(Counting) /\ Cardinality(Counting') \in Nat
  BY Finite, Keeping
<1>2. asked \in Nat /\ count \in Nat
  BY DEF Basics, TypeOK
<1> QED BY <1>1, <1>2, Finite, AttemptsFrom DEF Tickets

\* start() turns a ticket into that of a monitor.
LEMMA StartedLive ==
  ASSUME Basics, Started
  PROVE  \E a : Live' \subseteq Live \cup {a}
<1>1. CASE UNCHANGED monitor
  BY <1>1 DEF Live
<1>2. CASE monitor' = [monitor EXCEPT ![gen'].pc = "fresh"]
  <2>1. \A g \in Gens : g # gen' => monitor'[g] = monitor[g]
    BY <1>2 DEF Basics, TypeOK
  <2> QED BY <2>1 DEF Live
<1> QED BY <1>1, <1>2 DEF Started

LEMMA RequestAttempts ==
  ASSUME Basics, Basics', Attempts, NEW o \in Operators, Request(o)
  PROVE  Attempts'
<1>1. /\ asked' = asked + 1 /\ UNCHANGED <<monitor, auto>> /\ count' \in {0, count}
      /\ \A p \in Operators : p # o => op'[p] = op[p]
  BY DEF Request, Toggle, Close, Restart, Asks, Basics, TypeOK
<1>2. Live' \subseteq Live /\ Coming' \subseteq Coming /\ Counting' \subseteq Counting /\ Asking' \subseteq Asking \cup {o}
  BY <1>1 DEF Live, Coming, Counting, Asking
<1>3. /\ Cardinality(Live') <= Cardinality(Live) /\ Cardinality(Live') \in Nat
      /\ Cardinality(Coming') <= Cardinality(Coming) /\ Cardinality(Coming') \in Nat
      /\ Cardinality(Asking') <= Cardinality(Asking) + 1 /\ Cardinality(Asking') \in Nat
      /\ Cardinality(Counting') <= Cardinality(Counting) /\ Cardinality(Counting') \in Nat
  BY <1>2, Finite, Keeping, Adding
<1>4. asked \in Nat /\ count \in Nat
  BY DEF Basics, TypeOK
<1> QED BY <1>1, <1>3, <1>4, Finite, AttemptsFrom DEF Tickets

LEMMA OperateAttempts ==
  ASSUME Basics, Basics', Attempts, NEW o \in Operators, Operate(o)
  PROVE  Attempts'
<1>1. UNCHANGED <<auto, asked, count>>
  BY DEF Operate, OpStarts, OpRestarted, OpStops, OpStopped
<1>2. Coming' \subseteq Coming /\ Counting' \subseteq Counting
  BY <1>1 DEF Coming, Counting
<1>3. CASE OpStarts(o)
  <2>1. PICK a : Live' \subseteq Live \cup {a}
    BY <1>3, StartedLive DEF OpStarts
  <2>2. o \in Asking /\ Asking' \subseteq Asking \ {o}
    BY <1>3 DEF OpStarts, Asking, Basics, TypeOK
  <2>3. /\ Cardinality(Live') <= Cardinality(Live) + 1 /\ Cardinality(Live') \in Nat
        /\ Cardinality(Coming') <= Cardinality(Coming) /\ Cardinality(Coming') \in Nat
        /\ Cardinality(Asking') <= Cardinality(Asking) - 1 /\ Cardinality(Asking') \in Nat
        /\ Cardinality(Counting') <= Cardinality(Counting) /\ Cardinality(Counting') \in Nat
    BY <1>2, <2>1, <2>2, Finite, Keeping, Adding, Removing
  <2>4. asked \in Nat /\ count \in Nat
    BY DEF Basics, TypeOK
  <2> QED BY <1>1, <2>3, <2>4, Finite, AttemptsFrom DEF Tickets
<1>4. CASE OpRestarted(o) \/ OpStops(o) \/ OpStopped(o)
  <2>1. UNCHANGED monitor
    BY <1>4 DEF OpRestarted, OpStops, OpStopped
  <2>2. Asking' \subseteq Asking
    BY <1>4 DEF OpRestarted, OpStops, OpStopped, Asking, Basics, TypeOK
  <2> QED BY <1>1, <1>2, <2>1, <2>2, AttemptsKept DEF Live
<1> QED BY <1>3, <1>4 DEF Operate

LEMMA WatchAttempts ==
  ASSUME Basics, Basics', Attempts, NEW g \in Gens, Watch(g)
  PROVE  Attempts'
<1>1. UNCHANGED <<op, asked, count>>
  BY DEF Watch, MonitorBegins, MonitorWaits, MonitorChecks, MonitorHandles, MonitorDecides
<1>2. Asking' \subseteq Asking
  BY <1>1 DEF Asking
<1>3. CASE MonitorDecides(g)
  <2>1. g \in Live /\ monitor' = [monitor EXCEPT ![g] = Gone]
    BY <1>3 DEF MonitorDecides, Leave, Live
  <2>2. Live' \subseteq Live \ {g}
    BY <2>1, GoneTyped DEF Live, Basics, TypeOK
  <2>3. CASE ShouldRestart(g)
    <3>1. count < MaxAttempts /\ auto' = [auto EXCEPT ![g] = "counting"]
      BY <1>3, <2>3 DEF MonitorDecides, ShouldRestart
    <3>2. Coming' \subseteq Coming \cup {g} /\ Counting' \subseteq Counting \cup {g}
      BY <3>1 DEF Coming, Counting, Basics, TypeOK
    <3>3. Counting \subseteq Coming
      BY DEF Counting, Coming
    <3>4. /\ Cardinality(Live') <= Cardinality(Live) - 1 /\ Cardinality(Live') \in Nat
          /\ Cardinality(Coming') <= Cardinality(Coming) + 1 /\ Cardinality(Coming') \in Nat
          /\ Cardinality(Asking') <= Cardinality(Asking) /\ Cardinality(Asking') \in Nat
          /\ Cardinality(Counting') <= Cardinality(Counting) + 1 /\ Cardinality(Counting') \in Nat
          /\ Cardinality(Counting) <= Cardinality(Coming)
      BY <1>2, <2>1, <2>2, <3>2, <3>3, Finite, Keeping, Adding, Removing
    <3>5. asked \in Nat /\ count \in Nat /\ MaxAttempts \in Nat
      BY BoundsAssumption DEF Basics, TypeOK
    <3>6. /\ Cardinality(Live)' = Cardinality(Live') /\ Cardinality(Coming)' = Cardinality(Coming')
          /\ Cardinality(Asking)' = Cardinality(Asking') /\ Cardinality(Counting)' = Cardinality(Counting')
      OBVIOUS
    <3>7. Tickets' <= 1 + asked
      BY <3>4, <3>5, <3>6, Finite DEF Attempts, Tickets
    <3>8. Cardinality(Counting') <= 1 + asked
      BY <3>4, <3>5, Finite DEF Attempts, Tickets
    <3>9. count' + Cardinality(Counting)' <= MaxAttempts + asked
      BY <1>1, <3>1, <3>4, <3>5, <3>6, <3>8
    <3> QED BY <1>1, <3>7, <3>9 DEF Attempts
  <2>4. CASE ~ShouldRestart(g)
    <3>1. UNCHANGED auto
      BY <1>3, <2>4 DEF MonitorDecides
    <3> QED BY <1>1, <1>2, <2>2, <3>1, AttemptsKept DEF Coming, Counting
  <2> QED BY <2>3, <2>4
<1>4. CASE ~MonitorDecides(g)
  <2>1. UNCHANGED auto /\ monitor[g].pc \notin {"none", "done"}
    BY <1>4 DEF Watch, MonitorBegins, MonitorWaits, MonitorChecks, MonitorHandles
  <2>2. \A h \in Gens : h # g => monitor'[h] = monitor[h]
    BY <1>4 DEF Watch, MonitorBegins, MonitorWaits, MonitorChecks, MonitorHandles, Leave, Basics, TypeOK
  <2>3. Live' \subseteq Live
    BY <2>1, <2>2 DEF Live
  <2> QED BY <1>1, <1>2, <2>1, <2>3, AttemptsKept DEF Coming, Counting
<1> QED BY <1>3, <1>4

LEMMA AutoAttempts ==
  ASSUME Basics, Basics', Attempts, NEW g \in Gens, AutoRestart(g)
  PROVE  Attempts'
<1>1. UNCHANGED <<op, asked>> /\ \A h \in Gens : h # g => auto'[h] = auto[h]
  BY DEF AutoRestart, AutoCounts, AutoFlags, AutoStarts, AutoClears, Basics, TypeOK
<1>2. Asking' \subseteq Asking
  BY <1>1 DEF Asking
<1>3. asked \in Nat /\ count \in Nat
  BY DEF Basics, TypeOK
<1>4. CASE AutoCounts(g)
  <2>1. auto[g] = "counting" /\ auto'[g] = "delay" /\ count' = count + 1 /\ UNCHANGED monitor
    BY <1>4 DEF AutoCounts, Basics, TypeOK
  <2>2. g \in Counting /\ Counting' \subseteq Counting \ {g} /\ Coming' \subseteq Coming /\ Live' \subseteq Live
    BY <1>1, <2>1 DEF Counting, Coming, Live
  <2>3. /\ Cardinality(Live') <= Cardinality(Live) /\ Cardinality(Live') \in Nat
        /\ Cardinality(Coming') <= Cardinality(Coming) /\ Cardinality(Coming') \in Nat
        /\ Cardinality(Asking') <= Cardinality(Asking) /\ Cardinality(Asking') \in Nat
        /\ Cardinality(Counting') <= Cardinality(Counting) - 1 /\ Cardinality(Counting') \in Nat
    BY <1>2, <2>2, Finite, Keeping, Removing
  <2> QED BY <1>1, <1>3, <2>1, <2>3, Finite, AttemptsFrom DEF Tickets
<1>5. CASE AutoStarts(g)
  <2>1. auto[g] = "start" /\ auto'[g] = "clear" /\ UNCHANGED count
    BY <1>5 DEF AutoStarts, Basics, TypeOK
  <2>2. PICK a : Live' \subseteq Live \cup {a}
    BY <1>5, StartedLive DEF AutoStarts
  <2>3. g \in Coming /\ Coming' \subseteq Coming \ {g} /\ Counting' \subseteq Counting
    BY <1>1, <2>1 DEF Counting, Coming
  <2>4. /\ Cardinality(Live') <= Cardinality(Live) + 1 /\ Cardinality(Live') \in Nat
        /\ Cardinality(Coming') <= Cardinality(Coming) - 1 /\ Cardinality(Coming') \in Nat
        /\ Cardinality(Asking') <= Cardinality(Asking) /\ Cardinality(Asking') \in Nat
        /\ Cardinality(Counting') <= Cardinality(Counting) /\ Cardinality(Counting') \in Nat
    BY <1>2, <2>2, <2>3, Finite, Keeping, Adding, Removing
  <2> QED BY <1>1, <1>3, <2>1, <2>4, Finite, AttemptsFrom DEF Tickets
<1>6. CASE AutoFlags(g) \/ AutoClears(g)
  <2>1. UNCHANGED <<count, monitor>> /\ auto[g] \in {"delay", "clear"}
        /\ auto'[g] = IF auto[g] = "delay" THEN "start" ELSE "done"
    BY <1>6 DEF AutoFlags, AutoClears, Basics, TypeOK
  <2>2. Coming' \subseteq Coming /\ Counting' \subseteq Counting /\ Live' \subseteq Live
    BY <1>1, <2>1 DEF Coming, Counting, Live
  <2> QED BY <1>1, <1>2, <2>1, <2>2, AttemptsKept
<1> QED BY <1>4, <1>5, <1>6 DEF AutoRestart

LEMMA StepAttempts == ASSUME Basics, Basics', Attempts, [Next]_vars PROVE Attempts'
<1> USE DEF fields, flags, beats, procs, threads, history
<1>1. ASSUME UNCHANGED <<monitor, auto, op, count, asked>> PROVE Attempts'
  BY <1>1, AttemptsKept DEF Live, Coming, Counting, Asking
<1>2. CASE StopKills
  BY <1>1, <1>2 DEF StopKills
<1>3. ASSUME NEW g \in Gens, ChildUp(g) \/ ChildExits(g) \/ Read(g) PROVE Attempts'
  BY <1>1, <1>3 DEF ChildUp, ChildExits, Read, ReadPort, ReadInit, MaybeFire
<1>4. ASSUME NEW g \in Gens, Beat(g) PROVE Attempts'
  BY <1>1, <1>4 DEF Beat, BeatChecks, BeatCalls, BeatStops, BeatStopped, BeatExits
<1>5. CASE UNCHANGED vars
  BY <1>1, <1>5 DEF vars
<1> QED BY <1>2, <1>3, <1>4, <1>5, RequestAttempts, OperateAttempts, WatchAttempts, AutoAttempts DEF Next

LEMMA InitAttempts == Init => Attempts
<1> SUFFICES ASSUME Init PROVE Attempts
  OBVIOUS
<1>1. PICK ui \in Operators : op = [o \in Operators |-> IF o = ui THEN "start" ELSE "idle"]
  BY DEF Init
<1>2. Live = {} /\ Coming = {} /\ Counting = {} /\ Asking \subseteq {ui}
  BY <1>1 DEF Init, Live, Coming, Counting, Asking
<1>3. Cardinality({}) = 0 /\ Cardinality(Asking) <= 1
  BY <1>2, FS_EmptySet, FS_Singleton, FS_Subset
<1> QED BY <1>2, <1>3, Finite, BoundsAssumption DEF Init, Attempts, Tickets

LEMMA AttemptsHold == Spec => []Attempts
BY InitAttempts, StepAttempts, BasicsHold, PTL DEF Spec

-----------------------------------------------------------------------------
\* The manager's fields, its threads and its children have their types in every state.
THEOREM TypeCorrect == Spec => []TypeOK
BY BasicsHold, PTL DEF Basics

\* is_running, read without the lock, agrees with the process at every point in between.
THEOREM RunningIsProcess == Spec => []RunningHasProcess
BY BasicsHold, PTL DEF Basics

\* For any number of starts and operators: only the exit handling of another child lets go
\* of a child that runs.
THEOREM NoOtherLeak == Spec => []OnlyTheMonitorForgets
BY KnownHolds, PTL DEF Known

\* The post-start hook fires once for a start at most, in whatever order old and new readers
\* deliver the tokens.
THEOREM HooksAreStarts == Spec => []HooksPerStart
<1>1. Basics /\ Hooked => HooksPerStart
  BY TakenBounded
<1> QED BY <1>1, BasicsHold, HookedHolds, PTL

\* Automatic restarts end: the limit is overrun by one for each request at most.
THEOREM RestartsEnd == Spec => []AttemptsLimited
<1>1. Basics /\ Attempts => AttemptsLimited
  <2> SUFFICES ASSUME Basics, Attempts PROVE AttemptsLimited
    OBVIOUS
  <2>1. asked \in Nat /\ count \in Nat /\ MaxAttempts \in Nat
    BY BoundsAssumption DEF Basics, TypeOK
  <2> QED BY <2>1, Finite DEF Attempts, AttemptsLimited
<1> QED BY <1>1, BasicsHold, AttemptsHold, PTL
=============================================================================
