-------------------------------- MODULE Hud --------------------------------
(* The visibility of the HUD's overlays (src/apps/hud): a subscriber thread that kicks a watchdog
   with every race table and applies what the table says of the menu; the watchdog's own thread;
   the launcher's commands and the game's buttons, from two more threads; and the Qt thread, which
   takes the commands of all of them from its event queue and ends the fades.

   The Python threads switch between any two reads and writes of the fields they share, so each is
   a step; what the overlays do with a command is one step, because only the Qt thread touches
   them.  Elapsed time is two values: the last kick is fresh, or older than wdt_timeout.  *)
EXTENDS Naturals, Sequences

CONSTANTS
  Ids,          \* the overlays a button may name
  Overlays,     \* those that are enabled, hence registered
  Everybody,    \* recipient of a broadcast
  MaxCommands,  \* bound: commands of the launcher and the buttons
  MaxQueue      \* bound: a race table or a command comes while the Qt thread has fewer events

ASSUME SizesAssumption == MaxCommands \in Nat /\ MaxQueue \in Nat
ASSUME IdsAssumption == Overlays \subseteq Ids /\ Everybody \notin Ids

VARIABLES
  fresh,     \* the last kick is younger than the timeout
  active,    \* WatchDogTimerSync.active
  local,     \* OverlaysMgr._local_wdt_ok
  telemetry, \* OverlaysMgr._telemetry_active: "none", "on" or "off"
  pc, arg,   \* of the subscriber and the watchdog thread, and the argument of _set_telemetry_active
  table,     \* the race table in hand: "drive", "menu" (asks to hide), "handled" when only its end is left
  queue,     \* events of the Qt thread
  overlay,   \* the overlays
  commands,  \* commands so far
  raced      \* history: a kick met the watchdog thread at work, its traces remain

watch == <<fresh, active, local, telemetry, pc, arg, table, raced>>
vars == <<watch, queue, overlay, commands>>

Threads == {"sub", "wdt"}
Other(t) == IF t = "sub" THEN "wdt" ELSE "sub"
AtRest(t) == pc[t] = "rest"

Events == [cmd : {"telemetry", "lock"}, to : {Everybody}, on : BOOLEAN]
     \cup [cmd : {"toggle"}, to : Ids \cup {Everybody}, on : {TRUE}]
     \cup [cmd : {"show"}, to : {Everybody}, on : {TRUE}]

TypeOK ==
  /\ {fresh, active, local, raced} \subseteq BOOLEAN
  /\ telemetry \in {"none", "on", "off"}
  /\ table \in {"drive", "menu", "handled"}
  /\ pc["wdt"] # "menu"
  /\ pc \in [Threads -> {"rest", "probe", "callback", "menu", "read", "compare", "set", "emit"}]
  /\ arg \in [Threads -> {"on", "off"}]
  /\ queue \in Seq(Events)
  /\ overlay \in [Overlays -> [locked : BOOLEAN, active : BOOLEAN, userHidden : BOOLEAN,
                               visible : BOOLEAN, fading : BOOLEAN, recalled : BOOLEAN]]
  /\ commands \in 0..MaxCommands

Init ==
  /\ fresh = TRUE /\ active = FALSE /\ local = FALSE /\ telemetry = "none"
  /\ pc = [t \in Threads |-> "rest"] /\ arg = [t \in Threads |-> "off"] /\ table = "handled"
  /\ queue = <<>>
  /\ overlay = [o \in Overlays |-> [locked |-> TRUE, active |-> TRUE, userHidden |-> FALSE,
                                    visible |-> TRUE, fading |-> FALSE, recalled |-> FALSE]]
  /\ commands = 0 /\ raced = FALSE

Goes(t, step) == pc' = [pc EXCEPT ![t] = step]
Event(c, to, on) == [cmd |-> c, to |-> to, on |-> on]
-----------------------------------------------------------------------------
(* The watchdog and the race tables.  Time passes between two race tables, not
   while one is handled: that takes less than the timeout of two seconds or more. *)

Silence ==
  /\ fresh /\ AtRest("sub")
  /\ fresh' = FALSE
  /\ UNCHANGED <<active, local, telemetry, pc, arg, table, raced, queue, overlay, commands>>

\* A race table arrives: race_table_update kicks the watchdog.
RaceTable ==
  /\ AtRest("sub") /\ Len(queue) < MaxQueue
  /\ fresh' = TRUE
  /\ table' \in {"drive", "menu"}
  /\ Goes("sub", "probe")
  /\ raced' = (raced \/ ~AtRest("wdt"))
  /\ UNCHANGED <<active, local, telemetry, arg, queue, overlay, commands>>

\* The watchdog thread wakes up, reads the clock and finds the timeout exceeded.
Overdue ==
  /\ AtRest("wdt") /\ ~fresh
  /\ Goes("wdt", "probe")
  /\ UNCHANGED <<fresh, active, local, telemetry, arg, table, raced, queue, overlay, commands>>

\* Mutant: a kick does not arm the watchdog again.
Probe_NotArmed(t) ==
  /\ pc[t] = "probe"
  /\ active' = FALSE
  /\ IF active # (t = "sub") THEN Goes(t, "callback") ELSE Goes(t, IF t = "sub" THEN "menu" ELSE "rest")
  /\ UNCHANGED <<fresh, local, telemetry, arg, table, raced, queue, overlay, commands>>

\* Kick and watchdog change active, and call back when that is a change.  Test and change are one
\* step: the two threads change it in opposite directions, so nothing comes in between.
Probe(t) ==
  /\ pc[t] = "probe"
  /\ active' = (t = "sub")
  /\ IF active # (t = "sub") THEN Goes(t, "callback") ELSE Goes(t, IF t = "sub" THEN "menu" ELSE "rest")
  /\ UNCHANGED <<fresh, local, telemetry, arg, table, raced, queue, overlay, commands>>

Callback(t) ==
  /\ pc[t] = "callback"
  /\ local' = (t = "sub")
  /\ Goes(t, "read")
  /\ UNCHANGED <<fresh, active, telemetry, arg, table, raced, queue, overlay, commands>>

\* Mutant: a table from the track changes nothing.
Menu_OnlyHides ==
  /\ pc["sub"] = "menu"
  /\ IF table = "menu" THEN arg' = [arg EXCEPT !["sub"] = "off"] /\ Goes("sub", "compare")
                       ELSE UNCHANGED arg /\ Goes("sub", "rest")
  /\ table' = "handled"
  /\ UNCHANGED <<fresh, active, local, telemetry, raced, queue, overlay, commands>>

\* _handle_in_menu_status: a table from the menu or the garage hides, any other one
\* applies the watchdog's status.  It is the last thing done with a table.
Menu ==
  /\ pc["sub"] = "menu"
  /\ IF table = "menu" THEN arg' = [arg EXCEPT !["sub"] = "off"] /\ Goes("sub", "compare")
                       ELSE UNCHANGED arg /\ Goes("sub", "read")
  /\ table' = "handled"
  /\ UNCHANGED <<fresh, active, local, telemetry, raced, queue, overlay, commands>>

\* _update_telemetry_active reads the watchdog's status.
ReadLocal(t) ==
  /\ pc[t] = "read"
  /\ arg' = [arg EXCEPT ![t] = IF local THEN "on" ELSE "off"]
  /\ Goes(t, "compare")
  /\ UNCHANGED <<fresh, active, local, telemetry, table, raced, queue, overlay, commands>>

\* Mutant: whoever changes the status goes on with the table in hand.
Return_Menu(t) == /\ Goes(t, IF table # "handled" THEN "menu" ELSE "rest")
                  /\ arg' = [arg EXCEPT ![t] = "off"]

\* Where _set_telemetry_active returns to: the kick, or the end of the table or of the watchdog's round.
Return(t) == /\ Goes(t, IF t = "sub" /\ table # "handled" THEN "menu" ELSE "rest")
             /\ arg' = [arg EXCEPT ![t] = "off"]

Compare(t) ==
  /\ pc[t] = "compare"
  /\ IF arg[t] = telemetry THEN Return(t) ELSE Goes(t, "set") /\ UNCHANGED arg
  /\ UNCHANGED <<fresh, active, local, telemetry, table, raced, queue, overlay, commands>>

SetTelemetry(t) ==
  /\ pc[t] = "set"
  /\ telemetry' = arg[t]
  /\ Goes(t, "emit")
  /\ UNCHANGED <<fresh, active, local, arg, table, raced, queue, overlay, commands>>

\* Whoever emits last, with its own value in force and no older than the watchdog's status, ends
\* what a race left behind.
Emit(t) ==
  /\ pc[t] = "emit"
  /\ queue' = Append(queue, Event("telemetry", Everybody, arg[t] = "on"))
  /\ raced' = (raced /\ ~(AtRest(Other(t)) /\ telemetry = arg[t] /\ local = active /\ (arg[t] = "on" => local)))
  /\ Return(t)
  /\ UNCHANGED <<fresh, active, local, telemetry, table, overlay, commands>>

Step(t) == Probe(t) \/ Callback(t) \/ ReadLocal(t) \/ Compare(t) \/ SetTelemetry(t) \/ Emit(t)
Subscriber == Step("sub") \/ Menu
Watchdog == Overdue \/ Step("wdt")
-----------------------------------------------------------------------------
(* The launcher's commands and the buttons.                                 *)

Commanded(e) ==
  /\ commands < MaxCommands /\ Len(queue) < MaxQueue
  /\ commands' = commands + 1
  /\ queue' = Append(queue, e)
  /\ UNCHANGED <<watch, overlay>>

\* A button of the game or the launcher toggles an overlay or all.
Toggle == \E to \in Ids \cup {Everybody} : Commanded(Event("toggle", to, TRUE))

\* set_overlays_layout ends with making all overlays visible.
Layout == Commanded(Event("show", Everybody, TRUE))

\* on_locked_state_change
Lock == \E locked \in BOOLEAN : Commanded(Event("lock", Everybody, locked))
-----------------------------------------------------------------------------
(* The Qt thread.                                                           *)

\* animate_fade: showing is immediate, hiding takes a while and replaces a fade in progress.
FadeIn(r)  == [r EXCEPT !.visible = TRUE, !.fading = FALSE]
FadeOut(r) == [r EXCEPT !.fading = TRUE, !.recalled = FALSE]

\* toggle_visibility: an overlay that is fading out still counts as visible.
Toggled(r) ==
  IF r.visible THEN [FadeOut(r) EXCEPT !.userHidden = TRUE]
  ELSE [FadeIn(r) EXCEPT !.userHidden = FALSE, !.recalled = TRUE]

\* Mutant: what the watchdog says while the overlays are unlocked is ignored for good.
Telemetry_OnlyLocked(r, on) ==
  LET told == [r EXCEPT !.active = on]
  IN CASE ~r.locked -> r
       [] r.locked /\ ~on -> FadeOut(told)
       [] r.locked /\ on -> IF r.userHidden THEN told ELSE FadeIn(told)

\* set_telemetry_active
Telemetry(r, on) ==
  LET told == [r EXCEPT !.active = on]
  IN CASE ~r.locked -> told
       [] r.locked /\ ~on -> FadeOut(told)
       [] r.locked /\ on -> IF r.userHidden THEN told ELSE FadeIn(told)

\* Mutant: overlays are locked as they are.
LockSet_Only(r, on) ==
  LET told == [r EXCEPT !.locked = on] IN IF on THEN told ELSE FadeIn(told)

\* The handler of __set_locked_state__, with set_locked_state.
LockSet(r, on) ==
  LET told == [r EXCEPT !.locked = on]
  IN CASE ~on -> FadeIn(told)
       [] on /\ r.active -> told
       [] on /\ ~r.active -> FadeOut(told)

Handled(r, e) ==
  CASE e.cmd = "telemetry" -> Telemetry(r, e.on)
    [] e.cmd = "lock"      -> LockSet(r, e.on)
    [] e.cmd = "toggle"    -> Toggled(r)
    [] e.cmd = "show"      -> [FadeIn(r) EXCEPT !.recalled = TRUE]

\* The test of the recipient in _handle_cmd.
Addressed(o, e) == e.to \in {o, Everybody}

HandleEvent ==
  /\ queue # <<>>
  /\ queue' = Tail(queue)
  /\ overlay' = [o \in Overlays |-> IF Addressed(o, Head(queue)) THEN Handled(overlay[o], Head(queue))
                                                             ELSE overlay[o]]
  /\ UNCHANGED <<watch, commands>>

FadeEnds(o) ==
  /\ overlay[o].fading
  /\ overlay' = [overlay EXCEPT ![o].visible = FALSE, ![o].fading = FALSE]
  /\ UNCHANGED <<watch, queue, commands>>

Qt == HandleEvent \/ \E o \in Overlays : FadeEnds(o)

Next == \/ Silence \/ RaceTable
        \/ Subscriber \/ Watchdog
        \/ Toggle \/ Layout \/ Lock
        \/ Qt

Spec == Init /\ [][Next]_vars

\* Every thread runs; neither race tables nor silence nor commands have to come.
FairSpec == /\ Spec
            /\ WF_vars(Subscriber) /\ WF_vars(Watchdog)
            /\ WF_vars(HandleEvent) /\ \A o \in Overlays : WF_vars(FadeEnds(o))
-----------------------------------------------------------------------------
(* Properties.                                                              *)

\* Whatever toggles, locks and layouts came before: an overlay that knows telemetry to be active is
\* on screen unless the user has hidden it, also when the news came while it was unlocked, which
\* set_telemetry_active and set_locked_state then leave as it is; and one that is locked and knows
\* telemetry to be inactive is off the screen, or fading, unless the user called for it since.
ShownAsTold ==
  \A o \in Overlays : LET r == overlay[o] IN
    /\ r.active /\ ~r.userHidden => r.visible /\ ~r.fading
    /\ r.locked /\ ~r.active /\ r.visible /\ ~r.fading => r.recalled

\* With both threads at rest and their commands handled, watchdog, manager and overlays agree,
\* unless a kick met the watchdog's expiry and nobody has changed the status alone since.
ThreadsAgree ==
  /\ \A t \in Threads : AtRest(t)
  /\ \A i \in DOMAIN queue : queue[i].cmd # "telemetry"
  /\ ~raced
  => /\ local = active
     /\ ~active => telemetry # "on"
     /\ \A o \in Overlays : overlay[o].active = (telemetry # "off")

\* When the data stops for good, the overlays are told so.
SilenceIsNoticed ==
  <>[](~fresh /\ ~raced) => <>[](telemetry # "on" /\ \A o \in Overlays : overlay[o].active = (telemetry = "none"))

\* While race tables from the track keep coming, the overlays are told that telemetry is active.
DrivingIsShown ==
  (<>[](fresh /\ ~raced /\ table # "menu") /\ []<>(table = "drive"))
    => <>[](\A o \in Overlays : overlay[o].active)
=============================================================================
