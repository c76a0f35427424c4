----------------------------- MODULE SessionFlow -----------------------------
(***************************************************************************)
(* What becomes of a session in the backend: F1TelemetryHandler's callbacks, *)
(* the session part of SessionState, and the task that asks an external     *)
(* service for the pole lap.                                                *)
(*                                                                          *)
(* Sessions are numbered in the order the game plays them.  Any packet may  *)
(* be lost; a packet of an earlier session, or a late start event, is a     *)
(* straggler.  The frame gate lets stragglers of another UID pass.          *)
(* on_final_classification is awaited by the receive loop, which handles no *)
(* other packet meanwhile: a packet is one step.                            *)
(***************************************************************************)
EXTENDS Naturals, Sequences

CONSTANTS
  MaxSession,          \* sessions are 1..MaxSession
  None,
  MaxMinute, MaxHour,  \* UID changes allowed per minute and hour (4 and 12 in the code)
  MaxEvents,           \* bound on packets that come once: start, lights, flag, empty session
  MaxStrays            \* bound on stragglers

Sessions == 1..MaxSession

ASSUME SessionFlowAssumption ==
  /\ MaxSession \in Nat /\ None \notin Nat
  /\ MaxMinute \in Nat /\ MaxHour \in Nat /\ MaxEvents \in Nat /\ MaxStrays \in Nat

VARIABLES
  \* F1TelemetryHandler
  guard,         \* m_transition_guard_uid
  minute, hour,  \* entries of m_session_uid_transitions of the last minute, the last hour
  lastUid,       \* m_last_session_uid
  cleared,       \* m_data_cleared_this_session
  classified,    \* m_final_classification_processed
  saving,        \* m_save_task runs
  \* SessionState
  uid,           \* m_session_info.m_session_uid, None while the session info is not valid
  chequered,     \* m_session_info.m_chequered_flag
  first,         \* m_first_session_update_received
  cars,          \* the sessions whose packets m_driver_data was filled from
  lapped,        \* m_num_active_cars is known
  pole,          \* m_most_recent_pole_lap: the session it was asked for
  \* externalApiTask
  notices,       \* queue external-api-update
  fetching,      \* the session whose pole lap is being fetched
  \* history
  exports,       \* classifications handed on; opened: had a start event or light
  newest,        \* the latest session a packet came from, 0 at first
  events, strays

handler == <<guard, minute, hour, lastUid, cleared, classified, saving>>
state == <<uid, chequered, first, cars, lapped, pole>>
task == <<notices, fetching>>
traffic == <<newest, events, strays>>
vars == <<handler, state, task, exports, traffic>>

Export == [uid : Sessions, cars : SUBSET Sessions, opened : BOOLEAN]
MaybeSession == Sessions \cup {None}

TypeOK ==
  /\ guard \in MaybeSession /\ lastUid \in MaybeSession /\ uid \in MaybeSession
  /\ minute \in 0..MaxMinute /\ hour \in 0..MaxHour /\ minute <= hour
  /\ cleared \in BOOLEAN /\ classified \in BOOLEAN /\ saving \in BOOLEAN
  /\ chequered \in BOOLEAN /\ first \in BOOLEAN /\ lapped \in BOOLEAN
  /\ cars \subseteq Sessions /\ pole \in MaybeSession
  /\ notices \in Seq(Sessions) /\ fetching \in MaybeSession
  /\ exports \subseteq Export
  /\ newest \in 0..MaxSession /\ events \in Nat /\ strays \in Nat

Init ==
  /\ guard = None /\ minute = 0 /\ hour = 0 /\ lastUid = None
  /\ cleared = FALSE /\ classified = FALSE /\ saving = FALSE
  /\ uid = None /\ chequered = FALSE /\ first = FALSE /\ cars = {} /\ lapped = FALSE /\ pole = None
  /\ notices = <<>> /\ fetching = None
  /\ exports = {}
  /\ newest = 0 /\ events = 0 /\ strays = 0

-----------------------------------------------------------------------------
(* The network.                                                             *)

Straggles == strays < MaxStrays /\ strays' = strays + 1 /\ newest' = newest
Advances(s) == newest' = s /\ strays' = strays

\* A packet the game sends throughout a session.
Arrives(s) ==
  /\ IF s >= newest THEN Advances(s) ELSE Straggles
  /\ events' = events

\* A packet the game sends once in a while.
Once(s) ==
  /\ events < MaxEvents /\ events' = events + 1
  /\ IF s >= newest THEN Advances(s) ELSE Straggles

\* The first packet of a session.
Opens(s) ==
  /\ events < MaxEvents /\ events' = events + 1
  /\ IF s > newest THEN Advances(s) ELSE Straggles

-----------------------------------------------------------------------------
(* Parts of the callbacks.                                                  *)

\* Mutant: no limit.
Admits_All(s) == TRUE

\* _allow_session_uid_transition.
Admits(s) == guard \in {None, s} \/ (hour < MaxHour /\ minute < MaxMinute)

Admit(s) ==
  /\ guard' = s
  /\ IF guard \in {None, s} THEN UNCHANGED <<minute, hour>>
     ELSE minute' = minute + 1 /\ hour' = hour + 1

\* Mutant: the flag survives the change of session.
ClearAll_KeepsFlag ==
  /\ uid' = None /\ chequered' = FALSE /\ first' = FALSE /\ cars' = {} /\ lapped' = FALSE /\ pole' = None
  /\ cleared' = TRUE /\ UNCHANGED classified

\* Mutant: the first session update counts only once.
ClearAll_KeepsFirst ==
  /\ uid' = None /\ chequered' = FALSE /\ UNCHANGED first /\ cars' = {} /\ lapped' = FALSE /\ pole' = None
  /\ cleared' = TRUE /\ classified' = FALSE

\* clearAllDataStructures and SessionState.clear.
ClearAll ==
  /\ uid' = None /\ chequered' = FALSE /\ first' = FALSE /\ cars' = {} /\ lapped' = FALSE /\ pole' = None
  /\ cleared' = TRUE /\ classified' = FALSE

\* is_data_available.  Drivers may lack a position or a name: valid.
Available(valid) == uid # None /\ lapped /\ valid

\* isSuspiciousSessionStart: the flag is out, or the leader may have finished (late).
Suspicious(late) == chequered \/ (lapped /\ late)

\* _handleSuspiciousSessionStart: one save task at a time.
SaveJustInCase(late, valid) ==
  saving' = (saving \/ (uid # None /\ ~classified /\ Suspicious(late) /\ Available(valid)))

-----------------------------------------------------------------------------
(* The callbacks.                                                           *)

\* SessionInfo.processSessionUpdate: does all data need to be reset?
ChangesSession(s) == uid \notin {None, s}

\* _processSessionUpdateHelper: the first update of a session is announced to externalApiTask.
Announced(s) == IF first THEN notices ELSE Append(notices, s)

\* handleSessionData: the first packet of a session makes it the one shown, a packet of
\* another session than the one shown clears everything and waits for the next.
SessionPacket(s) ==
  /\ Arrives(s) /\ Admits(s) /\ Admit(s)
  /\ notices' = Announced(s)
  /\ \/ /\ ~ChangesSession(s)
        /\ uid' = s /\ first' = TRUE
        /\ UNCHANGED <<chequered, cars, lapped, pole, cleared, classified>>
     \/ ChangesSession(s) /\ ClearAll
  /\ UNCHANGED <<lastUid, saving, fetching, exports>>

\* ... whose duration is 0.
EmptySessionPacket(s) ==
  /\ Once(s) /\ Admits(s) /\ Admit(s)
  /\ ClearAll
  /\ UNCHANGED <<lastUid, saving, task, exports>>

\* processLapDataUpdate: only once the number of laps is known.
LapData(s) ==
  /\ Arrives(s)
  /\ uid # None
  /\ cars' = cars \cup {s} /\ lapped' = TRUE
  /\ UNCHANGED <<handler, uid, chequered, first, pole, task, exports>>

\* Participants, car telemetry, status, damage, setups, histories, motion: of any session.
CarData(s) ==
  /\ Arrives(s)
  /\ cars' = cars \cup {s}
  /\ UNCHANGED <<handler, uid, chequered, first, lapped, pole, task, exports>>

\* handleFinalClassification: recorded, ingested and saved once.
FinalClassification(s) ==
  /\ Arrives(s)
  /\ ~classified /\ uid = s
  /\ classified' = TRUE
  /\ exports' = exports \cup {[uid |-> s, cars |-> cars, opened |-> lastUid = s]}
  /\ UNCHANGED <<guard, minute, hour, lastUid, cleared, saving, state, task>>

\* handleSessionStartEvent.
SessionStarted(s, late, valid) ==
  /\ Opens(s) /\ Admits(s) /\ Admit(s)
  /\ SaveJustInCase(late, valid)
  /\ lastUid' = s
  /\ ClearAll
  /\ UNCHANGED <<task, exports>>

\* Mutant: a clear of an earlier session counts as this one's.
StartLights_Stale(s) ==
  /\ Once(s)
  /\ lastUid' = s
  /\ IF ~cleared THEN ClearAll ELSE UNCHANGED <<state, cleared, classified>>
  /\ UNCHANGED <<guard, minute, hour, saving, task, exports>>

\* handleStartLightsEvent, first light: clears if the start event was missed.  The guard
\* is not asked.
StartLights(s) ==
  /\ Once(s)
  /\ lastUid' = s
  /\ IF s # lastUid \/ ~cleared THEN ClearAll ELSE UNCHANGED <<state, cleared, classified>>
  /\ UNCHANGED <<guard, minute, hour, saving, task, exports>>

\* handleChequeredFlagEvent.
ChequeredFlag(s) ==
  /\ Once(s)
  /\ chequered' = TRUE
  /\ UNCHANGED <<handler, uid, first, cars, lapped, pole, task, exports>>

-----------------------------------------------------------------------------
(* Other tasks, and time.                                                   *)

\* _saveJustInCaseDataTask has written its file, or failed to.
SaveDone ==
  /\ saving /\ saving' = FALSE
  /\ UNCHANGED <<guard, minute, hour, lastUid, cleared, classified, state, task, exports, traffic>>

\* externalApiTask takes a notification and asks the service; then it stores the answer
\* (at once if the session is no time trial).
Fetch ==
  /\ fetching = None /\ notices # <<>>
  /\ fetching' = Head(notices) /\ notices' = Tail(notices)
  /\ UNCHANGED <<handler, state, exports, traffic>>

Store ==
  /\ fetching # None
  /\ pole' = fetching /\ fetching' = None
  /\ UNCHANGED <<handler, uid, chequered, first, cars, lapped, notices, exports, traffic>>

\* The oldest transition leaves the window of the last minute, of the last hour.
MinutePasses ==
  /\ minute > 0 /\ minute' = minute - 1
  /\ UNCHANGED <<guard, hour, lastUid, cleared, classified, saving, state, task, exports, traffic>>

\* Mutant: transitions are never forgotten.
HourPasses_Never ==
  /\ FALSE /\ hour' = hour
  /\ UNCHANGED <<guard, minute, lastUid, cleared, classified, saving, state, task, exports, traffic>>

HourPasses ==
  /\ hour > minute /\ hour' = hour - 1
  /\ UNCHANGED <<guard, minute, lastUid, cleared, classified, saving, state, task, exports, traffic>>

Next ==
  \/ \E s \in Sessions :
       \/ SessionPacket(s) \/ EmptySessionPacket(s) \/ LapData(s) \/ CarData(s)
       \/ FinalClassification(s) \/ StartLights(s) \/ ChequeredFlag(s)
       \/ \E late, valid \in BOOLEAN : SessionStarted(s, late, valid)
  \/ SaveDone \/ Fetch \/ Store \/ MinutePasses \/ HourPasses

Spec == Init /\ [][Next]_vars

\* The game repeats the session packet and, on its results screen, the classification;
\* time passes.
Fairness ==
  /\ WF_vars(SessionPacket(MaxSession)) /\ WF_vars(FinalClassification(MaxSession))
  /\ WF_vars(MinutePasses) /\ WF_vars(HourPasses)

LiveSpec == Spec /\ Fairness

-----------------------------------------------------------------------------
(* Properties.                                                              *)

\* Either of the start event and the first start light is enough: a classification that was
\* handed on (telemetry_handler.py:476) for a session that had one of them is made from
\* cars of that session only, whatever other packets were lost.  (Without both, cars that
\* came under a session never shown stay; and stragglers can break it, so there are none.)
ExportHoldsOneSession ==
  strays = 0 => \A f \in exports : f.opened => f.cars \subseteq {f.uid}

\* m_final_classification_processed (telemetry_handler.py:462) suppresses only what was
\* handed on: while it is set, the classification of the session shown was.
SuppressedIsExported ==
  classified => uid \in {f.uid : f \in exports}

\* When the external task has nothing left to do, the pole lap is that of the session shown:
\* an answer that comes after the session changed (external_api.py:75) does not stay.
PoleLapIsOwn ==
  (uid # None /\ notices = <<>> /\ fetching = None) => pole = uid

\* The guard against session churn (telemetry_handler.py:958) delays the last session but
\* never locks it out: its classification is handed on in the end.
LastSessionIsExported ==
  (newest = MaxSession) ~> (\E f \in exports : f.uid = MaxSession)
=============================================================================
