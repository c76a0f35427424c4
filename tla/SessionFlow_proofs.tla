-------------------------- MODULE SessionFlow_proofs --------------------------
(***************************************************************************)
(* SessionFlow for any number of sessions, any windows of the guard and any *)
(* traffic.                                                                 *)
(*                                                                          *)
(* None of the properties is inductive.  First says that a session is shown *)
(* exactly when its first update came.  Order says, as long as nothing      *)
(* straggled, that whatever is shown or filled in is not newer than the     *)
(* traffic and the cars not older than the last start.  Pipeline follows    *)
(* the notification of the session shown through queue, fetch and store.    *)
(*                                                                          *)
(* The proofs of the frame gate in front of the handler are at the end.     *)
(***************************************************************************)
EXTENDS SessionFlow, FrameGate, SequenceTheorems, TLAPS

First == first <=> uid # None

Order ==
  strays = 0 =>
    /\ uid # None => uid <= newest
    /\ lastUid # None => lastUid <= newest
    /\ \A c \in cars : c <= newest /\ (lastUid # None => lastUid <= c)

Pipeline ==
  uid # None =>
    /\ notices # <<>> => notices[Len(notices)] = uid
    /\ notices = <<>> /\ fetching # None => fetching = uid
    /\ notices = <<>> /\ fetching = None => pole = uid

Inv == TypeOK /\ First /\ Order /\ SuppressedIsExported /\ ExportHoldsOneSession /\ Pipeline

\* Sessions are numbers, and None is not one.
LEMMA SessionsAreNat == Sessions \subseteq Nat /\ None \notin Sessions
BY SessionFlowAssumption DEF Sessions

\* What the traffic does to its counters: the newest session only grows, and while nothing
\* straggled the packet is of it.
LEMMA Traffic ==
  ASSUME TypeOK, NEW s \in Sessions, Arrives(s) \/ Once(s) \/ Opens(s)
  PROVE  /\ newest' \in 0..MaxSession /\ events' \in Nat /\ strays' \in Nat
         /\ strays' = 0 => strays = 0 /\ newest' = s /\ newest <= s
<1>1. s \in Nat /\ s \in 0..MaxSession /\ newest \in Nat /\ strays \in Nat /\ events \in Nat
  BY SessionsAreNat, SessionFlowAssumption DEF TypeOK, Sessions
<1>2. CASE Arrives(s)
  BY <1>1, <1>2 DEF Arrives, Advances, Straggles, TypeOK
<1>3. CASE Once(s)
  BY <1>1, <1>3 DEF Once, Advances, Straggles, TypeOK
<1>4. CASE Opens(s)
  BY <1>1, <1>4 DEF Opens, Advances, Straggles, TypeOK
<1> QED BY <1>2, <1>3, <1>4

\* A transition that is admitted stays within the windows.
LEMMA Guarded ==
  ASSUME TypeOK, NEW s \in Sessions, Admits(s), Admit(s)
  PROVE  /\ guard' \in MaybeSession
         /\ minute' \in 0..MaxMinute /\ hour' \in 0..MaxHour /\ minute' <= hour'
BY SessionFlowAssumption DEF TypeOK, Admits, Admit, MaybeSession

\* After a clear nothing is shown, filled in or suppressed.
LEMMA ClearSound ==
  ASSUME ClearAll
  PROVE  /\ uid' = None /\ first' = FALSE /\ cars' = {} /\ classified' = FALSE /\ pole' = None
         /\ chequered' = FALSE /\ lapped' = FALSE /\ cleared' = TRUE
         /\ First' /\ SuppressedIsExported' /\ Pipeline'
BY DEF ClearAll, First, SuppressedIsExported, Pipeline

\* Nothing is shown at first.
LEMMA InitInv == Init => Inv
<1> SUFFICES ASSUME Init PROVE Inv
  OBVIOUS
<1>1. TypeOK
  <2>1. 0 \in 0..MaxMinute /\ 0 \in 0..MaxHour /\ 0 \in 0..MaxSession
    BY SessionFlowAssumption
  <2>2. None \in MaybeSession /\ <<>> \in Seq(Sessions)
    BY DEF MaybeSession
  <2>3. minute <= hour
    BY DEF Init
  <2> QED BY <2>1, <2>2, <2>3 DEF Init, TypeOK
<1> QED BY <1>1 DEF Init, Inv, First, Order, SuppressedIsExported, ExportHoldsOneSession, Pipeline

\* A session packet shows its session and announces it the first time, or clears on a change.
LEMMA SessionPacketInv ==
  ASSUME Inv, NEW s \in Sessions, SessionPacket(s)
  PROVE  Inv'
<1>1. /\ TypeOK /\ s \in Nat /\ s # None /\ Arrives(s) /\ Admits(s) /\ Admit(s)
      /\ UNCHANGED <<lastUid, saving, fetching, exports>> /\ notices' = Announced(s)
  BY SessionsAreNat DEF Inv, SessionPacket
<1>2. notices' \in Seq(Sessions)
  BY <1>1 DEF TypeOK, Announced
<1>3. CASE ~ChangesSession(s)
  <2>1. /\ uid \in {None, s} /\ uid' = s /\ first' = TRUE
        /\ UNCHANGED <<chequered, cars, lapped, pole, cleared, classified>>
    BY <1>1, <1>3 DEF SessionPacket, ChangesSession, ClearAll
  <2>2. TypeOK'
    BY <1>1, <1>2, <2>1, Traffic, Guarded DEF TypeOK, MaybeSession
  <2>3. First' /\ ExportHoldsOneSession'
    <3>1. strays' = 0 => strays = 0
      BY <1>1, Traffic
    <3> QED BY <1>1, <2>1, <3>1 DEF Inv, First, ExportHoldsOneSession
  <2>4. Order'
    <3>1. \A c \in cars : c \in Nat
      BY <1>1, SessionsAreNat DEF TypeOK
    <3>2. lastUid # None => lastUid \in Nat
      BY <1>1, SessionsAreNat DEF TypeOK, MaybeSession
    <3>3. newest \in Nat
      BY <1>1, SessionFlowAssumption DEF TypeOK
    <3>4. strays' = 0 => strays = 0 /\ newest' = s /\ newest <= s
      BY <1>1, Traffic
    <3> QED BY <1>1, <2>1, <3>1, <3>2, <3>3, <3>4 DEF Inv, Order
  <2>5. SuppressedIsExported'
    <3>1. classified => uid # None
      <4>1. \A f \in exports : f.uid # None
        BY <1>1, SessionsAreNat DEF TypeOK, Export
      <4> QED BY <4>1 DEF Inv, SuppressedIsExported
    <3> QED BY <1>1, <2>1, <3>1 DEF Inv, SuppressedIsExported
  <2>6. Pipeline'
    <3>1. CASE first
      BY <1>1, <2>1, <3>1 DEF Inv, First, Pipeline, Announced
    <3>2. CASE ~first
      <4>1. notices' = Append(notices, s) /\ notices \in Seq(Sessions)
        BY <1>1, <3>2 DEF Announced, TypeOK
      <4>2. notices' # <<>> /\ notices'[Len(notices')] = s
        BY <4>1
      <4> QED BY <2>1, <4>2 DEF Pipeline
    <3> QED BY <1>1, <3>1, <3>2 DEF TypeOK
  <2> QED BY <2>2, <2>3, <2>4, <2>5, <2>6 DEF Inv
<1>4. CASE ChangesSession(s)
  <2>1. ClearAll
    BY <1>1, <1>4 DEF SessionPacket
  <2>2. TypeOK'
    BY <1>1, <1>2, <2>1, ClearSound, Traffic, Guarded DEF TypeOK, MaybeSession
  <2>3. Order'
    <3>1. lastUid # None => lastUid \in Nat
      BY <1>1, SessionsAreNat DEF TypeOK, MaybeSession
    <3>2. newest \in Nat
      BY <1>1, SessionFlowAssumption DEF TypeOK
    <3>3. strays' = 0 => strays = 0 /\ newest' = s /\ newest <= s
      BY <1>1, Traffic
    <3> QED BY <1>1, <2>1, <3>1, <3>2, <3>3, ClearSound DEF Inv, Order
  <2>4. ExportHoldsOneSession'
    <3>1. strays' = 0 => strays = 0
      BY <1>1, Traffic
    <3> QED BY <1>1, <3>1 DEF Inv, ExportHoldsOneSession
  <2> QED BY <2>1, <2>2, <2>3, <2>4, ClearSound DEF Inv
<1> QED BY <1>3, <1>4

\* The packet of an empty session clears everything.
LEMMA EmptySessionPacketInv ==
  ASSUME Inv, NEW s \in Sessions, EmptySessionPacket(s)
  PROVE  Inv'
<1>1. /\ TypeOK /\ Once(s) /\ Admits(s) /\ Admit(s) /\ ClearAll
      /\ UNCHANGED <<lastUid, saving, notices, fetching, exports>>
  BY DEF Inv, EmptySessionPacket, task
<1>2. strays' = 0 => strays = 0 /\ newest' = s /\ newest <= s
  BY <1>1, Traffic
<1>3. TypeOK'
  BY <1>1, ClearSound, Traffic, Guarded DEF TypeOK, MaybeSession
<1>4. Order'
  <2>1. lastUid # None => lastUid \in Nat
    BY <1>1, SessionsAreNat DEF TypeOK, MaybeSession
  <2>2. newest \in Nat /\ s \in Nat
    BY <1>1, SessionFlowAssumption, SessionsAreNat DEF TypeOK
  <2> QED BY <1>1, <1>2, <2>1, <2>2, ClearSound DEF Inv, Order
<1>5. ExportHoldsOneSession'
  BY <1>1, <1>2 DEF Inv, ExportHoldsOneSession
<1> QED BY <1>1, <1>3, <1>4, <1>5, ClearSound DEF Inv

\* Packets of the cars fill in a session that is not newer than the traffic.
LEMMA CarsInv ==
  ASSUME Inv, NEW s \in Sessions, LapData(s) \/ CarData(s)
  PROVE  Inv'
<1>1. /\ TypeOK /\ Arrives(s) /\ cars' = cars \cup {s} /\ lapped' \in BOOLEAN
      /\ UNCHANGED <<guard, minute, hour, lastUid, cleared, classified, saving, uid, chequered,
                     first, pole, notices, fetching, exports>>
  BY DEF Inv, LapData, CarData, handler, task, TypeOK
<1>2. strays' = 0 => strays = 0 /\ newest' = s /\ newest <= s
  BY <1>1, Traffic
<1>3. TypeOK'
  BY <1>1, Traffic DEF TypeOK
<1>4. Order'
  <2>1. /\ lastUid # None => lastUid \in Nat
        /\ uid # None => uid \in Nat
    BY <1>1, SessionsAreNat DEF TypeOK, MaybeSession
  <2>2. newest \in Nat /\ s \in Nat
    BY <1>1, SessionFlowAssumption, SessionsAreNat DEF TypeOK
  <2>3. \A c \in cars : c \in Nat
    BY <1>1, SessionsAreNat DEF TypeOK
  <2> QED BY <1>1, <1>2, <2>1, <2>2, <2>3 DEF Inv, Order
<1>5. First' /\ SuppressedIsExported' /\ ExportHoldsOneSession' /\ Pipeline'
  BY <1>1, <1>2 DEF Inv, First, SuppressedIsExported, ExportHoldsOneSession, Pipeline
<1> QED BY <1>3, <1>4, <1>5 DEF Inv

\* In order, a session with a start event or light that is classified is the newest one and
\* the only one the cars are of.
LEMMA FinalClassificationInv ==
  ASSUME Inv, NEW s \in Sessions, FinalClassification(s)
  PROVE  Inv'
<1> DEFINE e == [uid |-> s, cars |-> cars, opened |-> lastUid = s]
<1>1. /\ TypeOK /\ Arrives(s) /\ uid = s /\ classified' = TRUE /\ exports' = exports \cup {e}
      /\ UNCHANGED <<guard, minute, hour, lastUid, cleared, saving, uid, chequered, first, cars,
                     lapped, pole, notices, fetching>>
  BY DEF Inv, FinalClassification, state, task
<1>2. strays' = 0 => strays = 0 /\ newest' = s /\ newest <= s
  BY <1>1, Traffic
<1>3. s \in Nat /\ s # None /\ newest \in Nat /\ \A c \in cars : c \in Nat
  BY <1>1, SessionFlowAssumption, SessionsAreNat DEF TypeOK
<1>4. e \in Export
  BY <1>1 DEF Export, TypeOK
<1>5. TypeOK'
  BY <1>1, <1>4, Traffic DEF TypeOK
<1>6. Order'
  <2>1. lastUid # None => lastUid \in Nat
    BY <1>1, SessionsAreNat DEF TypeOK, MaybeSession
  <2> QED BY <1>1, <1>2, <1>3, <2>1 DEF Inv, Order
<1>7. ExportHoldsOneSession'
  <2> SUFFICES ASSUME strays' = 0, NEW f \in exports', f.opened
               PROVE  f.cars \subseteq {f.uid}
    BY DEF ExportHoldsOneSession
  <2>1. CASE f \in exports
    BY <1>2, <2>1 DEF Inv, ExportHoldsOneSession
  <2>2. CASE f = e
    <3>1. lastUid = s /\ strays = 0 /\ newest <= s
      BY <1>2, <2>2
    <3>2. \A c \in cars : c <= newest /\ s <= c
      BY <1>3, <3>1 DEF Inv, Order
    <3>3. cars \subseteq {s}
      BY <1>3, <3>1, <3>2
    <3> QED BY <2>2, <3>3
  <2> QED BY <1>1, <2>1, <2>2
<1>8. SuppressedIsExported'
  <2>1. e \in exports' /\ e.uid = uid'
    BY <1>1
  <2> QED BY <2>1 DEF SuppressedIsExported
<1>9. First' /\ Pipeline'
  BY <1>1 DEF Inv, First, Pipeline
<1> QED BY <1>5, <1>6, <1>7, <1>8, <1>9 DEF Inv

\* Start event and first start light: everything before them is forgotten.
LEMMA SessionStartedInv ==
  ASSUME Inv, NEW s \in Sessions, NEW late \in BOOLEAN, NEW valid \in BOOLEAN,
         SessionStarted(s, late, valid)
  PROVE  Inv'
<1>1. /\ TypeOK /\ Opens(s) /\ Admits(s) /\ Admit(s) /\ lastUid' = s /\ ClearAll
      /\ UNCHANGED <<notices, fetching, exports>>
  BY DEF Inv, SessionStarted, task
<1>2. strays' = 0 => strays = 0 /\ newest' = s /\ newest <= s
  BY <1>1, Traffic
<1>3. saving' \in BOOLEAN
  BY DEF SessionStarted, SaveJustInCase, Suspicious, Available, Inv, TypeOK
<1>4. TypeOK'
  BY <1>1, <1>3, ClearSound, Traffic, Guarded DEF TypeOK, MaybeSession
<1>5. Order'
  BY <1>1, <1>2, SessionsAreNat, ClearSound DEF Order
<1>6. ExportHoldsOneSession'
  BY <1>1, <1>2 DEF Inv, ExportHoldsOneSession
<1> QED BY <1>1, <1>4, <1>5, <1>6, ClearSound DEF Inv

\* The start lights clear the state unless a clear of this session came before.
LEMMA StartLightsInv ==
  ASSUME Inv, NEW s \in Sessions, StartLights(s)
  PROVE  Inv'
<1>1. /\ TypeOK /\ Once(s) /\ lastUid' = s
      /\ UNCHANGED <<guard, minute, hour, saving, notices, fetching, exports>>
  BY DEF Inv, StartLights, task
<1>2. strays' = 0 => strays = 0 /\ newest' = s /\ newest <= s
  BY <1>1, Traffic
<1>3. CASE s # lastUid \/ ~cleared
  <2>1. ClearAll
    BY <1>3 DEF StartLights
  <2>2. TypeOK'
    BY <1>1, <2>1, ClearSound, Traffic DEF TypeOK, MaybeSession
  <2>3. Order'
    BY <1>1, <1>2, <2>1, SessionsAreNat, ClearSound DEF Order
  <2>4. ExportHoldsOneSession'
    BY <1>1, <1>2 DEF Inv, ExportHoldsOneSession
  <2> QED BY <2>1, <2>2, <2>3, <2>4, ClearSound DEF Inv
<1>4. CASE s = lastUid /\ cleared
  <2>1. UNCHANGED <<uid, chequered, first, cars, lapped, pole, cleared, classified>>
    BY <1>4 DEF StartLights, state
  <2>2. TypeOK'
    BY <1>1, <2>1, Traffic DEF TypeOK, MaybeSession
  <2>3. Order'
    <3>1. uid # None => uid \in Nat
      BY <1>1, SessionsAreNat DEF TypeOK, MaybeSession
    <3>2. newest \in Nat /\ s \in Nat /\ \A c \in cars : c \in Nat
      BY <1>1, SessionFlowAssumption, SessionsAreNat DEF TypeOK
    <3> QED BY <1>1, <1>2, <1>4, <2>1, <3>1, <3>2, SessionsAreNat DEF Inv, Order
  <2>4. First' /\ SuppressedIsExported' /\ ExportHoldsOneSession' /\ Pipeline'
    BY <1>1, <1>2, <2>1 DEF Inv, First, SuppressedIsExported, ExportHoldsOneSession, Pipeline
  <2> QED BY <2>2, <2>3, <2>4 DEF Inv
<1> QED BY <1>3, <1>4

\* The flag disturbs nothing but itself.
LEMMA ChequeredFlagInv ==
  ASSUME Inv, NEW s \in Sessions, ChequeredFlag(s)
  PROVE  Inv'
<1>1. /\ TypeOK /\ Once(s) /\ chequered' = TRUE
      /\ UNCHANGED <<guard, minute, hour, lastUid, cleared, classified, saving, uid, first, cars,
                     lapped, pole, notices, fetching, exports>>
  BY DEF Inv, ChequeredFlag, handler, task
<1>2. strays' = 0 => strays = 0 /\ newest' = s /\ newest <= s
  BY <1>1, Traffic
<1>3. TypeOK'
  BY <1>1, Traffic DEF TypeOK
<1>4. Order'
  <2>1. /\ lastUid # None => lastUid \in Nat
        /\ uid # None => uid \in Nat
    BY <1>1, SessionsAreNat DEF TypeOK, MaybeSession
  <2>2. newest \in Nat /\ s \in Nat /\ \A c \in cars : c \in Nat
    BY <1>1, SessionFlowAssumption, SessionsAreNat DEF TypeOK
  <2> QED BY <1>1, <1>2, <2>1, <2>2 DEF Inv, Order
<1>5. First' /\ SuppressedIsExported' /\ ExportHoldsOneSession' /\ Pipeline'
  BY <1>1, <1>2 DEF Inv, First, SuppressedIsExported, ExportHoldsOneSession, Pipeline
<1> QED BY <1>3, <1>4, <1>5 DEF Inv

\* The other tasks and time leave sessions, cars and files alone.
LEMMA OthersInv ==
  ASSUME Inv, SaveDone \/ MinutePasses \/ HourPasses
  PROVE  Inv'
<1>1. /\ TypeOK
      /\ UNCHANGED <<guard, lastUid, cleared, classified, uid, chequered, first, cars, lapped, pole,
                     notices, fetching, exports, newest, events, strays>>
  BY DEF Inv, SaveDone, MinutePasses, HourPasses, state, task, traffic
<1>2. saving' \in BOOLEAN /\ minute' \in 0..MaxMinute /\ hour' \in 0..MaxHour /\ minute' <= hour'
  <2>1. CASE SaveDone
    BY <2>1 DEF Inv, TypeOK, SaveDone
  <2>2. CASE MinutePasses
    BY <2>2, SessionFlowAssumption DEF Inv, TypeOK, MinutePasses
  <2>3. CASE HourPasses
    BY <2>3, SessionFlowAssumption DEF Inv, TypeOK, HourPasses
  <2> QED BY <2>1, <2>2, <2>3
<1>3. TypeOK'
  BY <1>1, <1>2 DEF TypeOK
<1>4. First' /\ Order' /\ SuppressedIsExported'
  BY <1>1 DEF Inv, First, Order, SuppressedIsExported
<1>5. ExportHoldsOneSession' /\ Pipeline'
  BY <1>1 DEF Inv, ExportHoldsOneSession, Pipeline
<1> QED BY <1>3, <1>4, <1>5 DEF Inv

\* The task takes a notification: the pipeline stays that of the session shown.
LEMMA FetchInv ==
  ASSUME Inv, Fetch
  PROVE  Inv'
<1>1. /\ TypeOK /\ fetching = None /\ notices # <<>>
      /\ fetching' = Head(notices) /\ notices' = Tail(notices)
      /\ UNCHANGED <<guard, minute, hour, lastUid, cleared, classified, saving, uid, chequered, first,
                     cars, lapped, pole, exports, newest, events, strays>>
  BY DEF Inv, Fetch, handler, state, traffic
<1>2. /\ notices \in Seq(Sessions) /\ Head(notices) \in Sessions /\ Tail(notices) \in Seq(Sessions)
      /\ Head(notices) = notices[1] /\ Len(Tail(notices)) = Len(notices) - 1
      /\ \A i \in 1..Len(Tail(notices)) : Tail(notices)[i] = notices[i + 1]
  BY <1>1 DEF TypeOK
<1>3. TypeOK'
  BY <1>1, <1>2 DEF TypeOK, MaybeSession
<1>4. Pipeline'
  <2>1. CASE Tail(notices) = <<>>
    <3>1. Len(notices) = 1
      <4> DEFINE m == Len(notices)
                 n == Len(Tail(notices))
      <4>1. m \in Nat /\ n = m - 1 /\ n = 0
        BY <1>2, <2>1
      <4> HIDE DEF m, n
      <4>2. m = 1
        BY <4>1
      <4> QED BY <4>2 DEF m
    <3> QED BY <1>1, <1>2, <2>1, <3>1, SessionsAreNat DEF Inv, Pipeline
  <2>2. CASE Tail(notices) # <<>>
    <3> DEFINE n == Len(Tail(notices))
    <3>1. n \in Nat /\ n # 0 /\ Len(notices) = n + 1
      <4>1. Len(notices) \in Nat /\ n \in Nat
        BY <1>2
      <4>2. n # 0
        BY <1>2, <2>2
      <4> QED BY <1>2, <4>1, <4>2
    <3>2. Tail(notices)[n] = notices[n + 1]
      BY <1>2, <3>1
    <3> QED BY <1>1, <2>2, <3>1, <3>2 DEF Inv, Pipeline
  <2> QED BY <2>1, <2>2
<1>5. First' /\ Order' /\ SuppressedIsExported' /\ ExportHoldsOneSession'
  BY <1>1 DEF Inv, First, Order, SuppressedIsExported, ExportHoldsOneSession
<1> QED BY <1>3, <1>4, <1>5 DEF Inv

\* The task stores an answer.
LEMMA StoreInv ==
  ASSUME Inv, Store
  PROVE  Inv'
<1>1. /\ TypeOK /\ fetching # None /\ pole' = fetching /\ fetching' = None
      /\ UNCHANGED <<guard, minute, hour, lastUid, cleared, classified, saving, uid, chequered, first,
                     cars, lapped, notices, exports, newest, events, strays>>
  BY DEF Inv, Store, handler, traffic
<1>2. TypeOK'
  BY <1>1 DEF TypeOK, MaybeSession
<1>3. Pipeline'
  BY <1>1 DEF Inv, Pipeline
<1>4. First' /\ Order' /\ SuppressedIsExported' /\ ExportHoldsOneSession'
  BY <1>1 DEF Inv, First, Order, SuppressedIsExported, ExportHoldsOneSession
<1> QED BY <1>2, <1>3, <1>4 DEF Inv

\* Nothing changes.
LEMMA StutterInv == Inv /\ UNCHANGED vars => Inv'
BY DEF vars, handler, state, task, traffic, Inv, TypeOK, First, Order, SuppressedIsExported,
       ExportHoldsOneSession, Pipeline

\* Every step of the handler preserves the invariant.
LEMMA NextInv == Inv /\ [Next]_vars => Inv'
BY StutterInv, SessionPacketInv, EmptySessionPacketInv, CarsInv, FinalClassificationInv,
   SessionStartedInv, StartLightsInv, ChequeredFlagInv, OthersInv, FetchInv, StoreInv DEF Next

\* The invariant holds in every state the backend reaches.
THEOREM Invariance == Spec => []Inv
BY InitInv, NextInv, PTL DEF Spec

\* The variables of handler and session state keep to their domains; the guard's windows
\* (telemetry_handler.py:969) are never exceeded.
THEOREM TypeCorrect == Spec => []TypeOK
BY Invariance, PTL DEF Inv

\* A suppressed final classification (telemetry_handler.py:462) is one of a session whose
\* classification was handed on.
THEOREM SuppressionIsSound == Spec => []SuppressedIsExported
BY Invariance, PTL DEF Inv

\* Without stragglers, the classification of a session that had a start event or a first
\* start light (telemetry_handler.py:725) holds cars of that session only.
THEOREM ExportIsSound == Spec => []ExportHoldsOneSession
BY Invariance, PTL DEF Inv

\* Once the external task (external_api.py:62) is idle the pole lap is the shown session's.
THEOREM PoleLapIsSound == Spec => []PoleLapIsOwn
<1>1. Inv => PoleLapIsOwn
  BY DEF Inv, Pipeline, PoleLapIsOwn
<1> QED BY <1>1, Invariance, PTL
-----------------------------------------------------------------------------
(* The frame gate in front of the handler, FrameGate, for every set of UIDs, *)
(* frames and packet types; it shares nothing with the handler.  GateSummary *)
(* says what the gate's scalars remember of the log: no frame of it is above *)
(* lastFrame, its last one is lastFrame, and seen is the types of that       *)
(* frame.                                                                    *)

GateSummary ==
  /\ \A i \in 1..Len(log) : log[i].frame <= lastFrame
  /\ lastFrame # 0 => log # <<>> /\ log[Len(log)].frame = lastFrame
  /\ \A t \in Types : t \in seen <=> \E i \in 1..Len(log) : log[i].frame = lastFrame /\ log[i].type = t

GateInv == GateTypeOK /\ GateSummary /\ DeliveredInOrder

\* The gate starts with an empty history.
LEMMA GateInitInv == GateInit => GateInv
BY DEF GateInit, GateInv, GateTypeOK, GateSummary, DeliveredInOrder

\* A reset leaves one packet in the history: the one that caused it.
LEMMA GateAcceptResetInv ==
  ASSUME GateInv, NEW p \in Packet, AcceptReset(p)
  PROVE  GateInv'
<1>1. p.uid \in Uids /\ p.frame \in Frames /\ p.type \in Types /\ p.frame \in Nat
  BY FramesAssumption DEF Packet
<1>2. CASE p.frame = 0
  <2>1. gateUid' = p.uid /\ lastFrame' = 0 /\ seen' = {} /\ log' = <<>>
    BY <1>2 DEF AcceptReset
  <2> QED BY <1>1, <2>1 DEF GateInv, GateTypeOK, GateSummary, DeliveredInOrder
<1>3. CASE p.frame # 0
  <2>1. /\ gateUid' = p.uid /\ lastFrame' = p.frame /\ seen' = {p.type}
        /\ log' = <<Added(p)>>
    BY <1>3 DEF AcceptReset
  <2>2. Added(p) \in Entry /\ Added(p).frame = p.frame /\ Added(p).type = p.type
    BY <1>1, <1>3 DEF Added, Entry
  <2>3. log' \in Seq(Entry) /\ Len(log') = 1 /\ log'[1] = Added(p) /\ log' # <<>>
    BY <2>1, <2>2
  <2>4. 1..Len(log') = {1}
    BY <2>3
  <2>5. GateTypeOK'
    BY <1>1, <2>1, <2>3 DEF GateTypeOK
  <2>6. GateSummary'
    BY <1>1, <2>1, <2>2, <2>3, <2>4 DEF GateSummary
  <2>7. DeliveredInOrder'
    BY <2>4 DEF DeliveredInOrder
  <2> QED BY <2>5, <2>6, <2>7 DEF GateInv
<1> QED BY <1>2, <1>3

\* A packet that passes is no older than the last frame, and new in it if it is of that frame.
LEMMA GateAcceptInv ==
  ASSUME GateInv, NEW p \in Packet, Accept(p)
  PROVE  GateInv'
<1>1. p.uid \in Uids /\ p.frame \in Frames /\ p.type \in Types /\ p.frame \in Nat /\ p.frame # 0
  BY FramesAssumption DEF Packet, Accept, Resets
<1> DEFINE e == Added(p)
           n == Len(log)
<1>2. e \in Entry /\ e.frame = p.frame /\ e.type = p.type
  BY <1>1 DEF Added, Entry
<1>3. /\ log \in Seq(Entry) /\ n \in Nat /\ lastFrame \in Nat
      /\ \A i \in 1..n : log[i] \in Entry /\ log[i].frame \in Nat /\ log[i].frame <= lastFrame
      /\ \A t \in Types : t \in seen <=> \E i \in 1..n : log[i].frame = lastFrame /\ log[i].type = t
  <2>1. log \in Seq(Entry) /\ n \in Nat /\ lastFrame \in Nat
    BY DEF GateInv, GateTypeOK
  <2>2. \A i \in 1..n : log[i] \in Entry
    BY <2>1, ElementOfSeq
  <2>3. \A x \in Entry : x.frame \in Nat
    BY FramesAssumption DEF Entry
  <2> QED BY <2>1, <2>2, <2>3 DEF GateInv, GateSummary
<1>4. /\ log' = Append(log, e) /\ lastFrame' = p.frame /\ gateUid' = gateUid
      /\ seen' = IF p.frame = lastFrame THEN seen \cup {p.type} ELSE {p.type}
      /\ p.frame > lastFrame \/ (p.frame = lastFrame /\ p.type \notin seen)
  BY DEF Accept, Passes
<1> HIDE DEF e
<1>5. /\ log' \in Seq(Entry) /\ Len(log') = n + 1 /\ log'[n + 1] = e
      /\ \A i \in 1..n : log'[i] = log[i]
  BY <1>2, <1>3, <1>4, AppendProperties
<1>6. 1..Len(log') = 1..n \cup {n + 1} /\ n + 1 \notin 1..n
  BY <1>3, <1>5
<1>7. GateTypeOK'
  BY <1>1, <1>4, <1>5 DEF GateInv, GateTypeOK
<1>8. GateSummary'
  <2>1. \A i \in 1..Len(log') : log'[i].frame <= lastFrame'
    BY <1>1, <1>2, <1>3, <1>4, <1>5, <1>6
  <2>2. log' # <<>> /\ log'[Len(log')].frame = lastFrame'
    BY <1>2, <1>3, <1>4, <1>5
  <2>3. ASSUME NEW t \in Types
        PROVE  t \in seen' <=> \E i \in 1..Len(log') : log'[i].frame = lastFrame' /\ log'[i].type = t
    <3>1. CASE p.frame = lastFrame
      BY <1>2, <1>3, <1>4, <1>5, <1>6, <3>1
    <3>2. CASE p.frame > lastFrame
      <4>1. seen' = {p.type} /\ \A i \in 1..n : log'[i].frame # lastFrame'
        BY <1>1, <1>3, <1>4, <1>5, <3>2
      <4> QED BY <1>2, <1>4, <1>5, <1>6, <4>1
    <3> QED BY <1>4, <3>1, <3>2
  <2> QED BY <2>1, <2>2, <2>3 DEF GateSummary
<1>9. DeliveredInOrder'
  <2> SUFFICES ASSUME NEW i \in 1..Len(log'), NEW j \in 1..Len(log'), i < j
               PROVE  log'[i].frame <= log'[j].frame /\ log'[i] # log'[j]
    BY DEF DeliveredInOrder
  <2>1. i \in 1..n
    BY <1>3, <1>6
  <2>2. CASE j \in 1..n
    BY <1>5, <2>1, <2>2 DEF GateInv, DeliveredInOrder
  <2>3. CASE j = n + 1
    <3>1. log'[i] = log[i] /\ log'[j] = e /\ log[i].frame <= lastFrame /\ log[i].frame \in Nat
      BY <1>3, <1>5, <2>1, <2>3
    <3>2. log[i].frame <= e.frame
      BY <1>1, <1>2, <1>3, <1>4, <3>1
    <3>3. log[i] # e
      BY <1>1, <1>2, <1>3, <1>4, <2>1, <3>1
    <3> QED BY <3>1, <3>2, <3>3
  <2> QED BY <1>6, <2>2, <2>3
<1> QED BY <1>7, <1>8, <1>9 DEF GateInv

\* Every step of the gate preserves the invariant; a dropped packet changes nothing.
LEMMA GateNextInv ==
  ASSUME GateInv, [GateNext]_gateVars
  PROVE  GateInv'
<1>1. CASE UNCHANGED gateVars
  BY <1>1 DEF GateInv, GateTypeOK, GateSummary, DeliveredInOrder, gateVars
<1>2. CASE GateNext
  <2>1. PICK p \in Packet : AcceptReset(p) \/ Accept(p) \/ Drop(p)
    BY <1>2 DEF GateNext
  <2>2. Drop(p) => UNCHANGED gateVars
    BY DEF Drop
  <2>3. CASE AcceptReset(p)
    BY <2>3, GateAcceptResetInv
  <2>4. CASE Accept(p)
    BY <2>4, GateAcceptInv
  <2> QED BY <1>1, <2>1, <2>2, <2>3, <2>4
<1> QED BY <1>1, <1>2

\* The invariant holds whatever arrives.
THEOREM GateInvariance == GateSpec => []GateInv
<1>1. GateInv /\ [GateNext]_gateVars => GateInv'
  BY GateNextInv
<1>2. GateInit => GateInv
  BY GateInitInv
<1> QED BY <1>1, <1>2, PTL DEF GateSpec

\* Every variable keeps its type: the log never holds a packet of frame 0.
THEOREM GateTypeCorrect == GateSpec => []GateTypeOK
BY GateInvariance, PTL DEF GateInv

\* For any number of sessions, frames and types the handlers see the frames between two
\* resets in order and no packet twice.
THEOREM GateInOrder == GateSpec => []DeliveredInOrder
BY GateInvariance, PTL DEF GateInv

\* The gate drops nothing that was not late or a duplicate.
THEOREM GateDropsJustified == GateSpec => []DropsAreJustified
<1>1. GateInv => DropsAreJustified
  <2> SUFFICES ASSUME GateInv, NEW p \in Packet, ~Passes(p)
               PROVE  \E i \in 1..Len(log) : log[i].frame > p.frame \/ log[i] = Added(p)
    BY DEF DropsAreJustified
  <2>1. /\ p.frame \in Nat /\ p.type \in Types /\ lastFrame \in Nat /\ p.frame # 0
        /\ ~(p.frame > lastFrame) /\ (p.frame = lastFrame => p.type \in seen)
    BY FramesAssumption DEF Packet, Passes, Resets, GateInv, GateTypeOK
  <2>2. log \in Seq(Entry) /\ Len(log) \in Nat
    BY DEF GateInv, GateTypeOK
  <2>3. CASE p.frame = lastFrame
    <3>1. PICK i \in 1..Len(log) : log[i].frame = lastFrame /\ log[i].type = p.type
      BY <2>1, <2>3 DEF GateInv, GateSummary
    <3>2. log[i] \in Entry
      BY <2>2
    <3>3. log[i] = Added(p)
      BY <2>3, <3>1, <3>2 DEF Entry, Added
    <3> QED BY <3>3
  <2>4. CASE p.frame < lastFrame
    <3>1. log # <<>> /\ log[Len(log)].frame = lastFrame
      BY <2>1, <2>4 DEF GateInv, GateSummary
    <3>2. Len(log) \in 1..Len(log)
      BY <2>2, <3>1
    <3> QED BY <2>4, <3>1, <3>2
  <2> QED BY <2>1, <2>3, <2>4
<1> QED BY <1>1, GateInvariance, PTL
=============================================================================
