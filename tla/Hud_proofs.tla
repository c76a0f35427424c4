----------------------------- MODULE Hud_proofs -----------------------------
(* Types; what is on screen, overlay by overlay, strengthened by what holds while one is unlocked;
   and the agreement of watchdog, manager and overlays, from what holds at every step of the two
   threads while they do not overlap, and from the last status still in the queue.  *)
EXTENDS Hud, TLAPS

Records == [locked : BOOLEAN, active : BOOLEAN, userHidden : BOOLEAN,
            visible : BOOLEAN, fading : BOOLEAN, recalled : BOOLEAN]

\* ShownAsTold of one overlay, strengthened: one that is unlocked is on screen unless the user has
\* hidden it, so that telemetry may become active meanwhile and change nothing.
AsTold(r) ==
  /\ (r.active \/ ~r.locked) /\ ~r.userHidden => r.visible /\ ~r.fading
  /\ r.locked /\ ~r.active /\ r.visible /\ ~r.fading => r.recalled

LEMMA FadesTyped ==
  ASSUME NEW r \in Records
  PROVE  /\ FadeIn(r) \in Records /\ FadeOut(r) \in Records
         /\ FadeIn(r) = [r EXCEPT !.visible = TRUE, !.fading = FALSE]
         /\ FadeOut(r) = [r EXCEPT !.fading = TRUE, !.recalled = FALSE]
BY DEF Records, FadeIn, FadeOut

\* What an overlay does with an event keeps its flags' types.
LEMMA HandledTyped ==
  ASSUME NEW r \in Records, NEW e \in Events
  PROVE  Handled(r, e) \in Records
<1>1. e.cmd \in {"telemetry", "lock", "toggle", "show"} /\ e.on \in BOOLEAN
  BY DEF Events
<1>2. CASE e.cmd = "telemetry"
  <2>1. Telemetry(r, e.on) \in Records
    BY <1>1 DEF Telemetry, Records, FadeIn, FadeOut
  <2> QED BY <1>2, <2>1 DEF Handled
<1>3. CASE e.cmd = "lock"
  <2>1. LockSet(r, e.on) \in Records
    BY <1>1 DEF LockSet, Records, FadeIn, FadeOut
  <2> QED BY <1>3, <2>1 DEF Handled
<1>4. CASE e.cmd = "toggle"
  <2>1. Toggled(r) \in Records
    BY DEF Toggled, Records, FadeIn, FadeOut
  <2> QED BY <1>4, <2>1 DEF Handled
<1>5. CASE e.cmd = "show"
  BY <1>5 DEF Handled, Records, FadeIn
<1> QED BY <1>1, <1>2, <1>3, <1>4, <1>5

\* What an overlay does with an event keeps it as told.
LEMMA HandledAsTold ==
  ASSUME NEW r \in Records, NEW e \in Events, AsTold(r)
  PROVE  AsTold(Handled(r, e))
<1>1. e.cmd \in {"telemetry", "lock", "toggle", "show"} /\ e.on \in BOOLEAN
  BY DEF Events
<1>2. CASE e.cmd = "telemetry"
  <2>1. AsTold(Telemetry(r, e.on))
    <3>1. ~r.locked => Telemetry(r, e.on) = [r EXCEPT !.active = e.on]
      BY DEF Telemetry
    <3>2. r.locked /\ ~e.on => Telemetry(r, e.on) = FadeOut([r EXCEPT !.active = e.on])
      BY DEF Telemetry
    <3>3. r.locked /\ e.on => Telemetry(r, e.on) \in {[r EXCEPT !.active = e.on], FadeIn([r EXCEPT !.active = e.on])}
                             /\ (~r.userHidden => Telemetry(r, e.on) = FadeIn([r EXCEPT !.active = e.on]))
      BY DEF Telemetry
    <3> QED BY <1>1, <3>1, <3>2, <3>3 DEF AsTold, Records, FadeIn, FadeOut
  <2> QED BY <1>2, <2>1 DEF Handled
<1>3. CASE e.cmd = "lock"
  <2>1. AsTold(LockSet(r, e.on))
    BY <1>1 DEF LockSet, AsTold, Records, FadeIn, FadeOut
  <2> QED BY <1>3, <2>1 DEF Handled
<1>4. CASE e.cmd = "toggle"
  <2>1. AsTold(Toggled(r))
    BY DEF Toggled, AsTold, Records, FadeIn, FadeOut
  <2> QED BY <1>4, <2>1 DEF Handled
<1>5. CASE e.cmd = "show"
  BY <1>5 DEF Handled, AsTold, Records, FadeIn
<1> QED BY <1>1, <1>2, <1>3, <1>4, <1>5

LEMMA InitTyped == Init => TypeOK
<1> SUFFICES ASSUME Init PROVE TypeOK
  OBVIOUS
<1>1. overlay \in [Overlays -> Records]
  BY DEF Init, Records
<1>2. queue \in Seq(Events) /\ commands \in 0..MaxCommands
  BY SizesAssumption DEF Init
<1>3. pc["wdt"] = "rest"
  BY DEF Init, Threads
<1> QED BY <1>1, <1>2, <1>3 DEF Init, TypeOK, Records

\* A thread's step.
LEMMA StepTyped ==
  ASSUME TypeOK, NEW t \in Threads, Step(t)
  PROVE  TypeOK'
<1>1. CASE Probe(t)
  BY <1>1 DEF Probe, TypeOK, Goes, Threads
<1>2. CASE Callback(t)
  BY <1>2 DEF Callback, TypeOK, Goes, Threads
<1>3. CASE ReadLocal(t)
  BY <1>3 DEF ReadLocal, TypeOK, Goes, Threads
<1>4. CASE Compare(t)
  BY <1>4 DEF Compare, TypeOK, Goes, Return, Threads
<1>5. CASE SetTelemetry(t)
  BY <1>5 DEF SetTelemetry, TypeOK, Goes, Threads
<1>6. CASE Emit(t)
  <2>1. Event("telemetry", Everybody, arg[t] = "on") \in Events
    BY DEF Event, Events
  <2>2. queue' \in Seq(Events)
    BY <1>6, <2>1 DEF Emit, TypeOK
  <2>3. raced' \in BOOLEAN
    BY <1>6 DEF Emit, TypeOK
  <2> QED BY <1>6, <2>2, <2>3 DEF Emit, TypeOK, Goes, Return, Threads
<1> QED BY <1>1, <1>2, <1>3, <1>4, <1>5, <1>6 DEF Step

\* A command.
LEMMA CommandTyped ==
  ASSUME TypeOK, NEW e \in Events, Commanded(e)
  PROVE  TypeOK'
<1>1. queue' \in Seq(Events) /\ commands' \in 0..MaxCommands
  BY SizesAssumption DEF Commanded, TypeOK
<1> QED BY <1>1 DEF Commanded, TypeOK, watch

\* The Qt thread.
LEMMA QtTyped ==
  ASSUME TypeOK, Qt
  PROVE  TypeOK'
<1>1. overlay \in [Overlays -> Records]
  BY DEF TypeOK, Records
<1>2. CASE HandleEvent
  <2>1. Head(queue) \in Events /\ queue' \in Seq(Events)
    BY <1>2 DEF HandleEvent, TypeOK
  <2>2. overlay' \in [Overlays -> Records]
    BY <1>1, <1>2, <2>1, HandledTyped DEF HandleEvent
  <2> QED BY <1>2, <2>1, <2>2 DEF HandleEvent, TypeOK, Records, watch
<1>3. ASSUME NEW o \in Overlays, FadeEnds(o) PROVE TypeOK'
  <2>1. overlay' \in [Overlays -> Records]
    BY <1>1, <1>3 DEF FadeEnds, Records
  <2> QED BY <1>3, <2>1 DEF FadeEnds, TypeOK, Records, watch
<1> QED BY <1>2, <1>3 DEF Qt

LEMMA NextTyped == TypeOK /\ [Next]_vars => TypeOK'
<1> SUFFICES ASSUME TypeOK, [Next]_vars PROVE TypeOK'
  OBVIOUS
<1>1. CASE Silence \/ RaceTable \/ Overdue \/ Menu
  BY <1>1 DEF Silence, RaceTable, Overdue, Menu, TypeOK, Goes, Threads
<1>2. ASSUME NEW t \in Threads, Step(t) PROVE TypeOK'
  BY <1>2, StepTyped
<1>3. CASE Toggle \/ Layout \/ Lock
  <2>1. PICK e \in Events : Commanded(e)
    BY <1>3 DEF Toggle, Layout, Lock, Event, Events
  <2> QED BY <2>1, CommandTyped
<1>4. CASE Qt
  BY <1>4, QtTyped
<1>5. CASE UNCHANGED vars
  BY <1>5 DEF vars, watch, TypeOK
<1> QED BY <1>1, <1>2, <1>3, <1>4, <1>5 DEF Next, Subscriber, Watchdog, Threads

\* Types of the watchdog's and the manager's fields, the threads, the queue and the overlays.
THEOREM TypeCorrect == Spec => []TypeOK
BY InitTyped, NextTyped, PTL DEF Spec

LEMMA InitAsTold == Init => \A o \in Overlays : AsTold(overlay[o])
BY DEF Init, AsTold

LEMMA NextAsTold ==
  ASSUME TypeOK, \A o \in Overlays : AsTold(overlay[o]), [Next]_vars, NEW o \in Overlays
  PROVE  AsTold(overlay'[o])
<1>1. overlay \in [Overlays -> Records] /\ overlay[o] \in Records /\ AsTold(overlay[o])
  BY DEF TypeOK, Records
<1>2. CASE HandleEvent
  <2>1. Head(queue) \in Events
    BY <1>2 DEF HandleEvent, TypeOK
  <2>2. AsTold(Handled(overlay[o], Head(queue)))
    BY <1>1, <2>1, HandledAsTold
  <2> QED BY <1>1, <1>2, <2>2 DEF HandleEvent
<1>3. ASSUME NEW p \in Overlays, FadeEnds(p) PROVE AsTold(overlay'[o])
  BY <1>1, <1>3 DEF FadeEnds, AsTold, Records
<1>4. CASE UNCHANGED overlay
  BY <1>1, <1>4
<1>5. HandleEvent \/ (\E p \in Overlays : FadeEnds(p)) \/ UNCHANGED overlay
  BY DEF Next, vars, Qt, Silence, RaceTable, Subscriber, Watchdog, Overdue, Menu, Step, Probe, Callback,
         ReadLocal, Compare, SetTelemetry, Emit, Toggle, Layout, Lock, Commanded
<1> QED BY <1>2, <1>3, <1>4, <1>5

\* For any set of overlays and any sequence of toggles, locks, layouts and status changes, what is
\* on screen is what the overlay was told.
THEOREM ScreenIsRight == Spec => []ShownAsTold
<1> DEFINE Told == \A o \in Overlays : AsTold(overlay[o])
<1>1. Init => Told
  BY InitAsTold
<1>2. TypeOK /\ Told /\ [Next]_vars => Told'
  <2> SUFFICES ASSUME TypeOK, Told, [Next]_vars, NEW o \in Overlays PROVE AsTold(overlay'[o])
    BY DEF AsTold
  <2> QED BY NextAsTold
<1>3. Told => ShownAsTold
  BY DEF AsTold, ShownAsTold
<1> QED BY <1>1, <1>2, <1>3, TypeCorrect, PTL DEF Spec

-----------------------------------------------------------------------------
\* No overlap unless the history says so: the watchdog thread works in silence, a race table ends it.
NoOverlap ==
  /\ ~AtRest("sub") => fresh
  /\ ~raced => AtRest("sub") \/ AtRest("wdt")

\* Watchdog and manager agree, and the status is not on while the watchdog is off.
Calm == local = active /\ (~active => telemetry # "on")

\* Where each thread is, the other at rest.
SubPhase ==
  /\ pc["sub"] # "callback" => Calm
  /\ pc["sub"] = "callback" => active /\ ~local /\ telemetry # "on"
  /\ pc["sub"] \in {"compare", "set", "emit"} => (arg["sub"] = "on" => active)

WdtPhase ==
  /\ pc["wdt"] \in {"rest", "probe"} => Calm
  /\ pc["wdt"] = "callback" => ~active /\ local
  /\ pc["wdt"] \in {"read", "compare", "set", "emit"} => ~active /\ ~local
  /\ pc["wdt"] \in {"compare", "set", "emit"} => arg["wdt"] = "off"

Phases == ~raced => /\ AtRest("wdt") => SubPhase
                    /\ AtRest("sub") => WdtPhase

Told == \A t \in Threads : pc[t] = "emit" /\ ~raced => telemetry = arg[t]

\* The last status in the queue, or that of the overlays if there is none, is the manager's.
Follows ==
  \/ /\ \A i \in 1..Len(queue) : queue[i].cmd # "telemetry"
     /\ \A o \in Overlays : overlay[o].active = (telemetry # "off")
  \/ \E i \in 1..Len(queue) : /\ queue[i].cmd = "telemetry" /\ queue[i].on = (telemetry # "off")
                             /\ \A j \in 1..Len(queue) : j > i => queue[j].cmd # "telemetry"

Followed == ~raced /\ (\A t \in Threads : pc[t] # "emit") => Follows

Agreement == NoOverlap /\ Phases /\ Told /\ Followed

LEMMA InitAgrees == Init => Agreement
<1> SUFFICES ASSUME Init PROVE Agreement
  OBVIOUS
<1>1. /\ pc["sub"] = "rest" /\ pc["wdt"] = "rest" /\ \A t \in Threads : pc[t] = "rest"
      /\ active = FALSE /\ local = FALSE /\ telemetry = "none"
  BY DEF Init, Threads
<1>2. NoOverlap /\ Told
  BY <1>1 DEF NoOverlap, Told, AtRest, Threads
<1>3. Phases
  BY <1>1 DEF Phases, SubPhase, WdtPhase, Calm, AtRest
<1>4. \A o \in Overlays : overlay[o].active = TRUE
  BY DEF Init
<1>5. Len(queue) = 0
  BY DEF Init
<1>6. \A i \in 1..Len(queue) : queue[i].cmd # "telemetry"
  BY <1>5
<1>7. Follows
  BY <1>1, <1>4, <1>6 DEF Follows
<1> QED
  BY <1>2, <1>3, <1>7 DEF Agreement, Followed

\* The watchdog, the table and the fields: every step of the two threads but the emission.
LEMMA FieldsAgree ==
  ASSUME TypeOK, NoOverlap, Phases, Told, [Next]_vars,
         \A t \in Threads : ~Emit(t)
  PROVE  NoOverlap' /\ Phases' /\ Told'
<1> USE DEF NoOverlap, Phases, SubPhase, WdtPhase, Calm, Told, AtRest, Threads, Goes
<1>0. /\ pc \in [Threads -> {"rest", "probe", "callback", "menu", "read", "compare", "set", "emit"}]
      /\ arg \in [Threads -> {"on", "off"}] /\ pc["wdt"] # "menu" /\ raced \in BOOLEAN
      /\ active \in BOOLEAN /\ local \in BOOLEAN
  BY DEF TypeOK
<1>1. CASE Silence
  BY <1>0, <1>1 DEF Silence
<1>2. CASE RaceTable
  BY <1>0, <1>2 DEF RaceTable
<1>3. CASE Overdue
  BY <1>0, <1>3 DEF Overdue
<1>4. CASE Menu
  BY <1>0, <1>4 DEF Menu
<1>5. ASSUME NEW t \in Threads, Probe(t) PROVE NoOverlap' /\ Phases' /\ Told'
  BY <1>0, <1>5 DEF Probe
<1>6. ASSUME NEW t \in Threads, Callback(t) PROVE NoOverlap' /\ Phases' /\ Told'
  BY <1>0, <1>6 DEF Callback
<1>7. ASSUME NEW t \in Threads, ReadLocal(t) PROVE NoOverlap' /\ Phases' /\ Told'
  BY <1>0, <1>7 DEF ReadLocal
<1>8. ASSUME NEW t \in Threads, Compare(t) PROVE NoOverlap' /\ Phases' /\ Told'
  BY <1>0, <1>8 DEF Compare, Return
<1>9. ASSUME NEW t \in Threads, SetTelemetry(t) PROVE NoOverlap' /\ Phases' /\ Told'
  BY <1>0, <1>9 DEF SetTelemetry
<1>10. CASE UNCHANGED watch
  BY <1>0, <1>10 DEF watch
<1>11. Toggle \/ Layout \/ Lock \/ Qt \/ UNCHANGED vars => UNCHANGED watch
  BY DEF Toggle, Layout, Lock, Commanded, Qt, HandleEvent, FadeEnds, vars
<1> QED BY <1>1, <1>2, <1>3, <1>4, <1>5, <1>6, <1>7, <1>8, <1>9, <1>10, <1>11
        DEF Next, Subscriber, Watchdog, Step

\* The emission, which may end a race.
LEMMA EmitAgrees ==
  ASSUME TypeOK, Agreement, NEW t \in Threads, Emit(t)
  PROVE  Agreement'
<1> USE DEF AtRest, Threads, Goes, Other
<1>0. /\ pc \in [Threads -> {"rest", "probe", "callback", "menu", "read", "compare", "set", "emit"}]
      /\ arg \in [Threads -> {"on", "off"}] /\ pc["wdt"] # "menu" /\ raced \in BOOLEAN
      /\ active \in BOOLEAN /\ local \in BOOLEAN /\ queue \in Seq(Events)
  BY DEF TypeOK
<1>1. /\ pc[t] = "emit" /\ pc' = [pc EXCEPT ![t] = IF t = "sub" /\ table # "handled" THEN "menu" ELSE "rest"]
      /\ arg' = [arg EXCEPT ![t] = "off"]
      /\ UNCHANGED <<fresh, active, local, telemetry, table, overlay>>
      /\ raced' = (raced /\ ~(AtRest(Other(t)) /\ telemetry = arg[t] /\ local = active /\ (arg[t] = "on" => local)))
      /\ queue' = Append(queue, Event("telemetry", Everybody, arg[t] = "on"))
  BY DEF Emit, Return
<1>2. ~raced' => pc[Other(t)] = "rest" /\ telemetry = arg[t] /\ Calm
  BY <1>0, <1>1 DEF Agreement, NoOverlap, Phases, SubPhase, WdtPhase, Calm, Told
<1>3. NoOverlap'
  BY <1>0, <1>1, <1>2 DEF Agreement, NoOverlap
<1>4. Phases'
  BY <1>0, <1>1, <1>2 DEF Phases, SubPhase, WdtPhase, Calm
<1>5. Told'
  BY <1>0, <1>1, <1>2 DEF Agreement, Told
<1>6. ASSUME ~raced' PROVE Follows'
  <2>1. Len(queue') = Len(queue) + 1 /\ Len(queue) \in Nat
    BY <1>0, <1>1
  <2>2. queue'[Len(queue')] = Event("telemetry", Everybody, arg[t] = "on")
    BY <1>0, <1>1, <2>1
  <2>3. queue'[Len(queue')].cmd = "telemetry" /\ queue'[Len(queue')].on = (telemetry' # "off")
    BY <1>0, <1>1, <1>2, <1>6, <2>2 DEF Event
  <2> QED BY <2>1, <2>3 DEF Follows
<1> QED BY <1>3, <1>4, <1>5, <1>6 DEF Agreement, Followed

\* An event handled or a command added keeps the last status.
LEMMA QueueFollows ==
  ASSUME TypeOK, Follows, UNCHANGED telemetry,
         HandleEvent \/ \E e \in Events : e.cmd # "telemetry" /\ Commanded(e)
  PROVE  Follows'
<1>0. queue \in Seq(Events) /\ overlay \in [Overlays -> Records]
  BY DEF TypeOK, Records
<1>1. ASSUME NEW e \in Events, e.cmd # "telemetry", Commanded(e) PROVE Follows'
  <2>1. queue' = Append(queue, e) /\ UNCHANGED overlay
    BY <1>1 DEF Commanded
  <2>2. /\ Len(queue') = Len(queue) + 1 /\ queue'[Len(queue')] = e
        /\ \A i \in 1..Len(queue) : queue'[i] = queue[i]
    BY <1>0, <2>1
  <2> QED BY <1>0, <1>1, <2>1, <2>2 DEF Follows
<1>2. CASE HandleEvent
  <2>1. queue # <<>> /\ queue' = Tail(queue) /\ Head(queue) = queue[1] /\ queue[1] \in Events
    BY <1>0, <1>2 DEF HandleEvent
  <2>2. /\ Len(queue) \in Nat \ {0} /\ Len(queue') = Len(queue) - 1
        /\ \A i \in 1..Len(queue') : queue'[i] = queue[i + 1]
    BY <1>0, <2>1
  <2>3. \A o \in Overlays : queue[1].cmd # "telemetry" => overlay'[o].active = overlay[o].active
    <3> SUFFICES ASSUME NEW o \in Overlays, queue[1].cmd # "telemetry" PROVE overlay'[o].active = overlay[o].active
      OBVIOUS
    <3>1. overlay[o] \in Records /\ overlay'[o] \in {overlay[o], Handled(overlay[o], queue[1])}
      BY <1>0, <1>2, <2>1 DEF HandleEvent
    <3>2. Handled(overlay[o], queue[1]).active = overlay[o].active
      BY <2>1, <3>1 DEF Handled, LockSet, Toggled, FadeIn, FadeOut, Records, Events
    <3> QED BY <3>1, <3>2
  <2>4. \A o \in Overlays : queue[1].cmd = "telemetry" => overlay'[o].active = queue[1].on
    <3> SUFFICES ASSUME NEW o \in Overlays, queue[1].cmd = "telemetry" PROVE overlay'[o].active = queue[1].on
      OBVIOUS
    <3>1. queue[1].to = Everybody /\ queue[1].on \in BOOLEAN
      BY <2>1 DEF Events
    <3>2. overlay[o] \in Records /\ overlay'[o] = Telemetry(overlay[o], queue[1].on)
      BY <1>0, <1>2, <2>1, <3>1 DEF HandleEvent, Addressed, Handled
    <3> QED BY <3>1, <3>2 DEF Telemetry, FadeIn, FadeOut, Records
  <2>5. CASE \A i \in 1..Len(queue) : queue[i].cmd # "telemetry"
    <3>1. \A o \in Overlays : overlay[o].active = (telemetry # "off")
      BY <2>5 DEF Follows
    <3> QED BY <2>2, <2>3, <2>5, <3>1 DEF Follows
  <2>6. CASE \E i \in 1..Len(queue) : queue[i].cmd = "telemetry"
    <3>1. PICK i \in 1..Len(queue) : /\ queue[i].cmd = "telemetry" /\ queue[i].on = (telemetry # "off")
                                     /\ \A j \in 1..Len(queue) : j > i => queue[j].cmd # "telemetry"
      BY <2>6 DEF Follows
    <3>2. CASE i = 1
      BY <2>2, <2>4, <3>1, <3>2 DEF Follows
    <3>3. CASE i > 1
      <4>1. i - 1 \in 1..Len(queue') /\ queue'[i - 1] = queue[i]
        BY <2>2, <3>1, <3>3
      <4>2. \A j \in 1..Len(queue') : j > i - 1 => queue'[j].cmd # "telemetry"
        BY <2>2, <3>1, <3>3
      <4> QED BY <3>1, <4>1, <4>2 DEF Follows
    <3> QED BY <3>1, <3>2, <3>3
  <2> QED BY <2>5, <2>6
<1> QED BY <1>1, <1>2

LEMMA NextAgrees == TypeOK /\ Agreement /\ [Next]_vars => Agreement'
<1> SUFFICES ASSUME TypeOK, Agreement, [Next]_vars PROVE Agreement'
  OBVIOUS
<1>1. ASSUME NEW t \in Threads, Emit(t) PROVE Agreement'
  BY <1>1, EmitAgrees
<1>2. CASE \A t \in Threads : ~Emit(t)
  <2>1. NoOverlap' /\ Phases' /\ Told'
    BY <1>2, FieldsAgree DEF Agreement
  <2>2. ASSUME ~raced', \A t \in Threads : pc'[t] # "emit" PROVE Follows'
    <3>1. ~raced /\ UNCHANGED telemetry /\ \A t \in Threads : pc[t] # "emit"
      <4>1. pc \in [Threads -> {"rest", "probe", "callback", "menu", "read", "compare", "set", "emit"}] /\ raced \in BOOLEAN
        BY DEF TypeOK
      <4>2. ASSUME NEW t \in Threads, SetTelemetry(t) PROVE FALSE
        BY <2>2, <4>1, <4>2 DEF SetTelemetry, Goes
      <4>3. ASSUME NEW t \in Threads, Step(t) PROVE ~raced /\ UNCHANGED telemetry /\ \A u \in Threads : pc[u] # "emit"
        BY <1>2, <2>2, <4>1, <4>2, <4>3 DEF Step, Probe, Callback, ReadLocal, Compare, Return, Goes
      <4>4. CASE Silence \/ RaceTable \/ Overdue \/ Menu
        BY <2>2, <4>1, <4>4 DEF Silence, RaceTable, Overdue, Menu, Goes, AtRest
      <4>5. CASE UNCHANGED watch
        BY <2>2, <4>5 DEF watch
      <4>6. Toggle \/ Layout \/ Lock \/ Qt \/ UNCHANGED vars => UNCHANGED watch
        BY DEF Toggle, Layout, Lock, Commanded, Qt, HandleEvent, FadeEnds, vars
      <4> QED BY <4>3, <4>4, <4>5, <4>6 DEF Next, Subscriber, Watchdog, Threads
    <3>2. Follows
      BY <3>1 DEF Agreement, Followed
    <3>3. CASE HandleEvent
      BY <3>1, <3>2, <3>3, QueueFollows
    <3>4. CASE Toggle \/ Layout \/ Lock
      <4>1. \E e \in Events : e.cmd # "telemetry" /\ Commanded(e)
        BY <3>4 DEF Toggle, Layout, Lock, Event, Events
      <4> QED BY <3>1, <3>2, <4>1, QueueFollows
    <3>5. ASSUME NEW o \in Overlays, FadeEnds(o) PROVE Follows'
      <4>1. UNCHANGED queue /\ \A p \in Overlays : overlay'[p].active = overlay[p].active
        BY <3>5 DEF FadeEnds, TypeOK
      <4> QED BY <3>1, <3>2, <4>1 DEF Follows
    <3>6. CASE UNCHANGED <<queue, overlay>>
      BY <3>1, <3>2, <3>6 DEF Follows
    <3>7. \/ HandleEvent \/ Toggle \/ Layout \/ Lock \/ (\E o \in Overlays : FadeEnds(o))
          \/ UNCHANGED <<queue, overlay>>
      BY <1>2 DEF Next, vars, Qt, Silence, RaceTable, Subscriber, Watchdog, Overdue, Menu, Step, Probe, Callback,
             ReadLocal, Compare, SetTelemetry, Threads
    <3> QED BY <3>3, <3>4, <3>5, <3>6, <3>7
  <2> QED BY <2>1, <2>2 DEF Agreement, Followed
<1> QED BY <1>1, <1>2

\* Whenever the two threads are at rest and their commands handled, watchdog, manager and overlays
\* agree, for any number of overlays and commands, but for what a race has left behind.
THEOREM RestIsAgreement == Spec => []ThreadsAgree
<1>1. TypeOK /\ Agreement => ThreadsAgree
  <2> SUFFICES ASSUME TypeOK, Agreement, \A t \in Threads : AtRest(t), ~raced,
                      \A i \in DOMAIN queue : queue[i].cmd # "telemetry"
               PROVE  Calm /\ \A o \in Overlays : overlay[o].active = (telemetry # "off")
    BY DEF ThreadsAgree, Calm
  <2>1. Calm
    BY DEF Agreement, Phases, WdtPhase, AtRest, Threads
  <2>2. Follows
    BY DEF Agreement, Followed, AtRest
  <2>3. \A i \in 1..Len(queue) : queue[i].cmd # "telemetry"
    BY DEF TypeOK
  <2> QED BY <2>1, <2>2, <2>3 DEF Follows
<1> QED BY <1>1, InitAgrees, NextAgrees, TypeCorrect, PTL DEF Spec
=============================================================================
