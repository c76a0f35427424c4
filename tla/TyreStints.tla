----------------------------- MODULE TyreStints -----------------------------
(***************************************************************************)
(* The laps and tyre stints of one car of an offline race, as DataPerDriver, *)
(* TyreInfo and SessionState rebuild them from the packets of the game: lap *)
(* data, car damage (the tyre wear), the fitted tyre set, the session       *)
(* history and the final classification, each sampled from the game at its  *)
(* own rate, in any order, once the participants are known.  On most tracks *)
(* a car that stops for tyres has crossed the line; on a few ("weird") the  *)
(* line comes after the garage.  The player may go back in time             *)
(* (flashback), and the pages of the web server read the stints whenever    *)
(* they like.                                                               *)
(*                                                                          *)
(* Abstracted: a damage packet is the set it was measured on and the laps   *)
(* driven on it; the other fields of the packets and of a snapshot, the     *)
(* extrapolators and the race control messages are left out.                *)
(***************************************************************************)
EXTENDS Integers, Sequences, FiniteSets, SequencesExt

CONSTANTS
  MaxLap,         \* laps of the session
  MaxSet,         \* bound: tyre sets of the car, numbered from 1
  MaxChanges,     \* bound: tyre changes
  MaxTroubles     \* bound: flashbacks, pages read, and events of the game that follow before every
                  \* kind of packet was received, taken together

ASSUME BoundsAssumption == /\ {MaxLap, MaxSet} \subseteq Nat \ {0}
                           /\ {MaxChanges, MaxTroubles} \subseteq Nat

VARIABLES
  game,     \* the game: lap, fitted set, lap it was fitted in, race over
  saved,    \* the moments a flashback may go back to
  weird,    \* isFinishLineAfterPitGarage(m_session_info.m_track)
  due,      \* kinds of packets not received since the last event of the game
  cur,      \* m_lap_info.m_current_lap, 0 is None
  damage,   \* m_packet_copies.m_packet_car_damage
  sets,     \* m_packet_copies.m_packet_tyre_sets: the fitted index, 0 is None
  numLaps,  \* m_packet_copies.m_packet_session_history.m_numLaps, 0 is None
  snaps,    \* m_per_lap_snapshots: the laps it has, and the wear they keep
  stints,   \* m_tyre_set_history_manager.m_history
  pending,  \* the pending events of the manager of this kind of track
  recent,   \* m_tyre_info.tyre_wear, without repetitions
  exported, \* what the final classification was exported with
  changes, troubles,  \* of the bounds, used up
  exact     \* history: no flashback, no lost packets and no stint lost to a read so far

world == <<game, saved, weird>>
books == <<damage, sets, snaps, stints, pending, recent>>
vars == <<world, due, cur, numLaps, books, exported, changes, troubles, exact>>

Laps == 0..MaxLap
Sets == 1..MaxSet
Sample == [set : Sets, age : Laps]
Missing == [set |-> 0, age |-> 0]
Wear == [lap : Laps, of : Sample]
Kinds == {"lap", "damage", "sets", "history"}
Game == [lap : 1..MaxLap, set : Sets, since : 1..MaxLap + 1, over : BOOLEAN]

IsStint(s) == /\ s.start \in 1..MaxLap /\ s.index \in Sets
              /\ \A i \in DOMAIN s.wear : s.wear[i] \in Wear

TypeOK ==
  /\ game \in Game /\ Range(saved) \subseteq Game
  /\ weird \in BOOLEAN
  /\ due \subseteq Kinds /\ pending \subseteq {"lap", "damage"}
  /\ cur \in Laps /\ sets \in 0..MaxSet /\ numLaps \in Laps
  /\ damage \in Sample \cup {Missing}
  /\ snaps \in [Laps -> Sample \cup {Missing}]
  /\ \A i \in DOMAIN stints : IsStint(stints[i])
  /\ \A i \in DOMAIN recent : recent[i] \in [of : Sample, lap : 1..MaxLap]
  /\ \A i \in DOMAIN exported : IsStint(exported[i])
  /\ changes \in 0..MaxChanges /\ troubles \in Nat /\ exact \in BOOLEAN

Init ==
  /\ game = [lap |-> 1, set |-> 1, since |-> 1, over |-> FALSE] /\ saved = <<>>
  /\ weird \in BOOLEAN
  /\ due = Kinds
  /\ cur = 0 /\ damage = Missing /\ sets = 0 /\ numLaps = 0
  /\ snaps = [l \in Laps |-> Missing]
  /\ stints = <<>> /\ pending = {} /\ recent = <<>> /\ exported = <<>>
  /\ changes = 0 /\ troubles = 0 /\ exact = TRUE

-----------------------------------------------------------------------------
(* The game.  Laps and stops take long against the rate of the packets:     *)
(* each kind is received between two events, or that is one of the troubles.*)

Advances(trouble) ==
  LET n == trouble + IF due = {} THEN 0 ELSE 1
  IN /\ ~game.over
     /\ troubles + n <= MaxTroubles
     /\ troubles' = troubles + n
     /\ due' = Kinds
     /\ exact' = (exact /\ n = 0 /\ stints # <<>> /\ (weird \/ pending = {}))
     /\ UNCHANGED <<weird, cur, numLaps, books, exported>>

\* A flashback reaches the last two moments.
Saves == saved' = IF Len(saved) = 2 THEN <<saved[2], game>> ELSE Append(saved, game)

\* No lap goes by without lap data, which are the most frequent.
CompletesLap ==
  /\ Advances(0)
  /\ "lap" \notin due
  /\ game' = IF game.lap < MaxLap THEN [game EXCEPT !.lap = @ + 1] ELSE [game EXCEPT !.over = TRUE]
  /\ Saves
  /\ UNCHANGED changes

\* Where the line comes after the garage, the new tyres' first lap is the next one.
ChangesTyres ==
  /\ Advances(0)
  /\ changes < MaxChanges /\ changes' = changes + 1
  /\ \E s \in Sets \ {game.set} :
       game' = [game EXCEPT !.set = s, !.since = IF weird THEN game.lap + 1 ELSE game.lap]
  /\ Saves

\* Back to an earlier moment, over one finish line at most.
GoesBack ==
  /\ Advances(1)
  /\ \E i \in DOMAIN saved : /\ game.lap - saved[i].lap <= 1
                             /\ game' = saved[i] /\ saved' = SubSeq(saved, 1, i - 1)
  /\ UNCHANGED changes

Received(kind) == due' = due \ {kind} /\ UNCHANGED <<world, changes, troubles>>

-----------------------------------------------------------------------------
(* The books of a car, as the values an operation leaves behind.            *)

Books == [damage |-> damage, sets |-> sets, snaps |-> snaps, stints |-> stints,
          pending |-> pending, recent |-> recent]
Keep(b) == /\ damage' = b.damage /\ sets' = b.sets /\ snaps' = b.snaps
           /\ stints' = b.stints /\ pending' = b.pending /\ recent' = b.recent

WearOf(lap, sample) == [lap |-> lap, of |-> sample]
LastStint(h) == h[Len(h)]
WithWear(h, w) == [h EXCEPT ![Len(h)].wear = Append(@, w)]

\* TyreSetHistoryManager.remove: one wear entry and one stint, from the end.
Removed(h, laps) ==
  IF h = <<>> THEN h
  ELSE LET w == LastStint(h).wear
           h1 == IF w # <<>> /\ w[Len(w)].lap \in laps THEN [h EXCEPT ![Len(h)].wear = Front(@)] ELSE h
       IN IF LastStint(h).start \in laps THEN Front(h1) ELSE h1

\* _handleFlashBack: the laps from old on are outdated.
FlashedBack(b, old) ==
  LET outdated == {l \in old..MaxLap : b.snaps[l] # Missing}
  IN [b EXCEPT !.snaps  = [l \in Laps |-> IF l \in outdated THEN Missing ELSE @[l]],
               !.stints = Removed(@, outdated),
               !.recent = <<>>]

\* onLapChange(old): once per lap, a snapshot, and its wear under the current stint.
LapChanged(b, old, flashback) ==
  LET b1 == IF flashback THEN FlashedBack(b, old) ELSE b
  IN IF b1.snaps[old] # Missing THEN b1
     ELSE [b1 EXCEPT !.snaps[old] = b.damage,
                     !.stints = IF old # 0 /\ @ # <<>> THEN WithWear(@, WearOf(old, b.damage)) ELSE @]

\* The earliest of the measurements with the most wear.
MaxAverage(h) ==
  LET i == CHOOSE i \in DOMAIN h : /\ \A j \in DOMAIN h : h[j].of.age <= h[i].of.age
                                   /\ \A j \in 1..(i - 1) : h[j].of.age < h[i].of.age
  IN h[i].of

\* onTyreSetChange, with the copies of the packets as they are now.
NewStint(b, lap) == [start |-> lap, index |-> b.sets, wear |-> <<WearOf(lap - 1, b.damage)>>]

\* Mutant: the end of the last stint keeps what the lap change wrote.
TyresChanged_Weird(b, lap) == [b EXCEPT !.stints = Append(@, NewStint(b, lap))]

\* _delayedTyreSetsChangeNormal and _delayedTyreSetsChangeWeird: the second one first puts
\* the old tyres' last wear in place of the entry that the lap change made with the new ones',
\* and raises, leaving all as it is, when there is none or no such entry.
TyresChanged(b, lap) ==
  IF ~weird THEN [b EXCEPT !.stints = Append(@, NewStint(b, lap))]
  ELSE IF b.recent = <<>> \/ b.stints = <<>> THEN b
  ELSE IF LastStint(b.stints).wear = <<>> THEN b
  ELSE LET n == Len(b.stints)
           old == [b.stints EXCEPT ![n].wear = Append(Front(@), WearOf(lap - 1, MaxAverage(b.recent)))]
       IN [b EXCEPT !.stints = Append(old, NewStint(b, lap))]

\* PendingEventsManager.onEvent: the last of the awaited events runs the delayed change.
OnEvent(b, event, lap) ==
  IF event \notin b.pending THEN b
  ELSE LET b1 == [b EXCEPT !.pending = @ \ {event}]
       IN IF b1.pending = {} THEN TyresChanged(b1, lap) ELSE b1

-----------------------------------------------------------------------------
(* The packets.                                                             *)

\* shouldCaptureZerothLapSnapshot; the car status, position, speed and safety car fields it
\* also waits for may be there or not.
CapturesZerothLap(complete) ==
  cur = 1 /\ complete /\ damage # Missing /\ sets # 0 /\ snaps[0] = Missing

\* processLapDataUpdate: _handleLapChangeLogic, then the current lap.
LapData ==
  /\ Received("lap")
  /\ cur' = game.lap
  /\ \E complete \in BOOLEAN :
       LET b  == IF CapturesZerothLap(complete) THEN LapChanged(Books, 0, FALSE) ELSE Books
           b1 == IF cur < game.lap THEN LapChanged(b, cur, FALSE) ELSE LapChanged(b, game.lap, TRUE)
       IN Keep(IF cur \in {0, game.lap} THEN b ELSE OnEvent(b1, "lap", game.lap))
  /\ UNCHANGED <<numLaps, exported, exact>>

\* _ROLLING_HISTORY_MAXLEN, about 25 seconds: less than a lap, so that nothing is left of the
\* lap before the last, nor of the last when the car stops at the end of a lap.
Oldest == IF game.since > game.lap THEN game.lap ELSE game.lap - 1

\* The first of them that is young enough.
FirstKept(h) ==
  CHOOSE i \in 1..(Len(h) + 1) : /\ \A j \in 1..(i - 1) : h[j].lap < Oldest
                                 /\ i <= Len(h) => h[i].lap >= Oldest

\* A measurement comes in, those that are too old fall out in front.
Pushed(h, m) ==
  LET young == SubSeq(h, FirstKept(h), Len(h))
  IN IF Contains(young, m) THEN young ELSE Append(young, m)

\* What the game measures now.
Measured == [set |-> game.set, age |-> IF game.lap < game.since THEN 0 ELSE game.lap - game.since]

CarDamage ==
  /\ Received("damage")
  /\ LET b == [Books EXCEPT !.damage = Measured, !.recent = Pushed(@, [of |-> Measured, lap |-> game.lap])]
     IN Keep(OnEvent(b, "damage", cur))
  /\ UNCHANGED <<cur, numLaps, exported, exact>>

FirstStint(b) == [start |-> cur, index |-> b.sets, wear |-> <<WearOf(0, b.snaps[0])>>]

\* Mutant: every change waits for the next lap.
Awaited_Both == {"lap", "damage"}

\* What a detected change of the tyre set waits for.
Awaited == IF weird THEN {"lap", "damage"} ELSE {"damage"}

\* Mutant: the first stint does not wait for the zeroth lap's snapshot.
Updated_Early(b) ==
  IF cur = 0 THEN b
  ELSE IF b.stints = <<>> THEN [b EXCEPT !.stints = <<FirstStint(b)>>]
  ELSE IF b.sets # LastStint(b.stints).index /\ b.pending = {}
       THEN [b EXCEPT !.pending = Awaited] ELSE b

\* updateTyreSetData: the first stint, or a change that is to be handled later.
Updated(b) ==
  IF cur = 0 THEN b
  ELSE IF b.stints = <<>>
       THEN IF b.snaps[0] # Missing THEN [b EXCEPT !.stints = <<FirstStint(b)>>] ELSE b
  ELSE IF b.sets # LastStint(b.stints).index /\ b.pending = {}
       THEN [b EXCEPT !.pending = Awaited] ELSE b

TyreSets ==
  /\ Received("sets")
  /\ Keep(Updated([Books EXCEPT !.sets = game.set]))
  /\ UNCHANGED <<cur, numLaps, exported, exact>>

SessionHistory ==
  /\ Received("history")
  /\ numLaps' = game.lap
  /\ UNCHANGED <<cur, books, exported, exact>>

-----------------------------------------------------------------------------
(* The readers.  Writing the stints out computes their last laps, and takes *)
(* those that end before they start out of the books for good.              *)

EndLap(h, i, final) == IF i < Len(h) THEN h[i + 1].start - 1 ELSE final

\* Mutant: nothing is garbage.
Pruned_Not(h, final) == h

\* The numbers of a set in increasing order.
InOrder(S) == CHOOSE f \in [1..Cardinality(S) -> S] : \A i, j \in DOMAIN f : i < j => f[i] < f[j]

\* _computeTyreStintEndLaps.
Pruned(h, final) ==
  LET kept == InOrder({i \in DOMAIN h : h[i].start <= EndLap(h, i, final)})
  IN [k \in DOMAIN kept |-> h[kept[k]]]

KeepsLast(h, final) == h # <<>> => LastStint(h).start <= final

\* A page with the car on it, once its session history has been received.
Read ==
  /\ numLaps # 0
  /\ troubles < MaxTroubles /\ troubles' = troubles + 1
  /\ stints' = Pruned(stints, numLaps)
  /\ exact' = (exact /\ KeepsLast(stints, numLaps))
  /\ UNCHANGED <<world, due, cur, numLaps, damage, sets, snaps, pending, recent, exported, changes>>

\* processFinalClassificationUpdate: the last lap is closed and everything written out.
FinalClassification ==
  /\ game.over /\ numLaps # 0 /\ damage # Missing /\ exported = <<>>
  /\ LET b == LapChanged(Books, MaxLap, FALSE)
         h == Pruned(b.stints, numLaps)
     IN /\ Keep([b EXCEPT !.stints = h])
        /\ exported' = h
        /\ exact' = (exact /\ KeepsLast(b.stints, numLaps))
  /\ UNCHANGED <<world, due, cur, numLaps, changes, troubles>>

Packet == LapData \/ CarDamage \/ TyreSets \/ SessionHistory

Next == \/ CompletesLap \/ ChangesTyres \/ GoesBack
        \/ Packet \/ Read \/ FinalClassification

\* The game sends its packets over and over: as long as one would change the books, one does.
Spec == Init /\ [][Next]_vars /\ WF_vars(Packet)
-----------------------------------------------------------------------------
(* Properties.                                                              *)

\* Although a lap change, a tyre change and the damage packet that shows it come in any order:
\* every wear entry of a stint was measured on that stint's tyres, a stint that begins in lap n
\* keeps the wear of the laps n-1, n, n+1, ... without a gap or a repetition, and its successor
\* begins with the lap after its last entry.
StintsAreExact ==
  exact /\ pending = {} =>
    \A i \in DOMAIN stints :
      LET s == stints[i] IN
      /\ \A j \in DOMAIN s.wear : s.wear[j].of.set = s.index /\ s.wear[j].lap = s.start + j - 2
      /\ i > 1 => s.start = stints[i - 1].start + Len(stints[i - 1].wear) - 1

\* The exported classification has no stint without a lap, and gives every lap of the race,
\* from the one the stints begin in, to the one stint that the lap was driven on.
ExportCoversTheRace ==
  exact /\ exported # <<>> /\ pending = {} =>
    LET In(i) == exported[i].start..EndLap(exported, i, MaxLap)
        WearIn(i) == {exported[i].wear[j].lap : j \in 2..Len(exported[i].wear)}
    IN /\ \A i \in DOMAIN exported : In(i) # {} /\ In(i) = WearIn(i)
       /\ \A lap \in exported[1].start..MaxLap : \E i \in DOMAIN exported :
            {k \in DOMAIN exported : lap \in In(k)} = {i}

\* However often the player goes back, changes of tyres are lost or stints are read away, the
\* books come to the set that is on the car, or wait for the line after the garage.
BooksCatchUp ==
  <>[](stints # <<>> => LastStint(stints).index = game.set \/ (weird /\ "lap" \in pending))
=============================================================================
