------------------------------- MODULE Career -------------------------------
(***************************************************************************)
(* The career companion: the tables of CareerDatabase, the service that     *)
(* feeds them when a session is classified, and the points projection the   *)
(* dashboard shows while a race is running.                                 *)
(*                                                                          *)
(* A database method is one transaction and one step.  on_final_classi-     *)
(* fication awaits the recorder before it reads the active career, so HTTP  *)
(* requests run between Classify and Ingest; the receive loop does not (it  *)
(* waits for the handler), so the session shown cannot change meanwhile.    *)
(***************************************************************************)
EXTENDS Integers, Sequences, FiniteSets, Functions, Tables

CONSTANTS
  Cars,        \* cars of a session, by index
  Teams,
  Sessions,    \* session UIDs
  TypeOf,      \* "race", "sprint" or "qualifying", of each session
  KeyOf,       \* a car's name, case folded: the key of its results
  TeamOf,      \* the team each car's participant drives for
  DriverA, DriverB,  \* the selected cars
  Pairs,       \* keys of drivers A and B a career may be created with
  Points,      \* starting points a user may import
  Corrections, \* positions and points a result may be corrected to
  RacePoints, SprintPoints,  \* PointsRules, without the fastest-lap bonus
  None,
  MaxCareers, MaxEvents, MaxEdits  \* bounds on careers, classifications, and imports with corrections

Keys == {KeyOf[car] : car \in Cars}

ASSUME CareerAssumption ==
  /\ None \notin Sessions \cup Cars \cup Keys /\ Pairs \subseteq Keys \X Keys /\ TypeOf \in [Sessions -> {"race", "sprint", "qualifying"}]
  /\ IsFiniteSet(Cars) /\ {DriverA, DriverB} \subseteq Cars /\ DriverA # DriverB
  /\ TeamOf \in [Cars -> Teams]
  /\ RacePoints \in Seq(Nat) /\ SprintPoints \in Seq(Nat)
  /\ Points \subseteq Int /\ Corrections \subseteq Int \X Int
  /\ MaxCareers \in Nat /\ MaxEvents \in Nat /\ MaxEdits \in Nat


VARIABLES
  careers,  \* table careers: [a, b, round], by id
  drivers,  \* table career_drivers: of each career, [team, start] by key
  bases,    \* table constructor_bases: of each career, points by team
  events,   \* table career_events: [career, uid, type, round], by id
  results,  \* table career_results: of each event, its rows by key
  active,   \* preference active_career_id
  live,     \* the session shown, or None
  pos,      \* track positions
  pending,  \* the classification on_final_classification is recording
  edits, ingested  \* history: how often; bounds the run

tables == <<careers, drivers, bases, events, results>>
vars == <<tables, active, live, pos, pending, edits, ingested>>

Ids == DOMAIN careers
PositionsOf == {p \in [Cars -> 1..Cardinality(Cars)] : \A x, y \in Cars : p[x] = p[y] => x = y}
Row == [team : Teams, position : Int, points : Int, classified : BOOLEAN, manual : BOOLEAN]

\* The tables hold rows of their columns; each event and result belongs to a known career.
TypeOK ==
  /\ \A c \in Ids : careers[c].a # careers[c].b /\ careers[c].round \in Nat
  /\ DOMAIN drivers = Ids /\ DOMAIN bases = Ids /\ DOMAIN results = DOMAIN events
  /\ \A c \in Ids : DOMAIN bases[c] \subseteq Teams
  /\ \A e \in DOMAIN events :
       /\ events[e].career \in Ids /\ events[e].uid \in Sessions
       /\ \A k \in DOMAIN results[e] : results[e][k] \in Row /\ k \in DOMAIN drivers[events[e].career]
  /\ active \in Ids \cup {None} /\ live \in Sessions \cup {None} /\ pos \in PositionsOf

Init ==
  /\ careers = <<>> /\ drivers = <<>> /\ bases = <<>> /\ events = <<>> /\ results = <<>>
  /\ active = None /\ live = None /\ pos \in PositionsOf /\ pending = None
  /\ edits = 0 /\ ingested = 0

-----------------------------------------------------------------------------
(* Requests of the dashboard.                                               *)

CreateCareer(a, b) ==
  /\ a # b /\ Len(careers) < MaxCareers
  /\ careers' = Append(careers, [a |-> a, b |-> b, round |-> 0])
  /\ drivers' = Append(drivers, <<>>) /\ bases' = Append(bases, <<>>)
  /\ active' = Len(careers')
  /\ UNCHANGED <<events, results, live, pos, pending, edits, ingested>>

ActivateCareer(c) ==
  /\ c \in Ids /\ active' = c
  /\ UNCHANGED <<tables, live, pos, pending, edits, ingested>>

\* Mutant: the update adds the imported points to what was there.
Imported_Adds(old, pts) ==
  Upserted(old, [k \in DOMAIN pts |-> IF k \in DOMAIN old THEN [pts[k] EXCEPT !.start = @ + old[k].start]
                                      ELSE pts[k]])

\* Imported rows replace those of the same driver or team.
Imported(old, new) == Upserted(old, new)

\* The two drivers and their teams, as the form sends them.
ImportStandings(c, pts, teamPts, round) ==
  /\ c \in Ids /\ edits < MaxEdits
  /\ drivers' = [drivers EXCEPT ![c] =
       Imported(@, [k \in {KeyOf[DriverA], KeyOf[DriverB]} |->
         [team |-> TeamOf[CHOOSE car \in Cars : KeyOf[car] = k], start |-> pts[k]]])]
  /\ bases' = [bases EXCEPT ![c] = Imported(@, teamPts)]
  /\ careers' = [careers EXCEPT ![c].round = round]
  /\ edits' = edits + 1
  /\ UNCHANGED <<events, results, active, live, pos, pending, ingested>>

\* position and points are corrected together, as a steward's decision is.
CorrectResult(e, k, p, n) ==
  /\ e \in DOMAIN events /\ k \in DOMAIN results[e] /\ edits < MaxEdits
  /\ edits' = edits + 1
  /\ results' = [results EXCEPT ![e][k].position = p, ![e][k].points = n, ![e][k].manual = TRUE]
  /\ UNCHANGED <<careers, drivers, bases, events, active, live, pos, pending, ingested>>

-----------------------------------------------------------------------------
(* Sessions.                                                                *)

\* A session is shown (again: its data were cleared and its packets go on).
StartSession(s) ==
  /\ pending = None /\ live' = s
  /\ UNCHANGED <<tables, active, pos, pending, edits, ingested>>

\* The final classification arrives: positions are final, finalize() is awaited.
\* out is the car that was disqualified, or None.
Classify(p, out) ==
  /\ pending = None /\ live # None /\ ingested < MaxEvents
  /\ pos' = p
  /\ pending' = [uid |-> live, out |-> out]
  /\ UNCHANGED <<tables, active, live, edits, ingested>>

\* finalize() raised: nothing is ingested.
NotExported ==
  /\ pending # None /\ pending' = None
  /\ UNCHANGED <<tables, active, live, pos, edits, ingested>>

PointsFor(position, type) ==
  LET table == IF type = "sprint" THEN SprintPoints ELSE RacePoints
  IN  IF position \in DOMAIN table THEN table[position] ELSE 0

Scores(type, classified) == classified /\ type \in {"race", "sprint"}

ResultRow(type, car, classified) ==
  [team |-> TeamOf[car], position |-> pos[car], classified |-> classified, manual |-> FALSE,
   points |-> IF Scores(type, classified) THEN PointsFor(pos[car], type) ELSE 0]

\* Two cars of one name share a key: the second INSERT raises, the transaction rolls back.
NamesDiffer == \A x, y \in Cars : KeyOf[x] = KeyOf[y] => x = y

\* Mutant: no ON CONFLICT (career_id, session_uid, event_type).
EventOf_Fresh(c, s) == Len(events) + 1

\* The row of the session in career c: its old one if there is one.
EventOf(c, s) ==
  IF \E e \in DOMAIN events : events[e].career = c /\ events[e].uid = s
  THEN CHOOSE e \in DOMAIN events : events[e].career = c /\ events[e].uid = s
  ELSE Len(events) + 1

\* Mutant: the drivers of a result are not entered into the career.
Enrolled_Never(c, rows) == drivers[c]

\* ON CONFLICT DO UPDATE SET team: a driver keeps what it started with, a new one has 0.
Enrolled(c, rows) ==
  Upserted(drivers[c],
    [k \in Keys |-> [team |-> rows[k].team,
                     start |-> IF k \in DOMAIN drivers[c] THEN drivers[c][k].start ELSE 0]])

IngestEvent(c, s, out) ==
  LET e == EventOf(c, s)
      CarOf(k) == CHOOSE car \in Cars : KeyOf[car] = k
      rows == [k \in Keys |-> ResultRow(TypeOf[s], CarOf(k), CarOf(k) # out)]   \* DELETE, then INSERT
      round == careers[c].round + 1
  IN  /\ events' = Upserted(events, Only(e, [career |-> c, uid |-> s, type |-> TypeOf[s], round |-> round]))
      /\ results' = Upserted(results, Only(e, rows))
      /\ drivers' = [drivers EXCEPT ![c] = Enrolled(c, rows)]
      /\ careers' = [careers EXCEPT ![c].round = round]
      /\ UNCHANGED bases

\* finalize() returned: the result goes to the career that is active now.
Ingest ==
  /\ pending # None
  /\ pending' = None /\ ingested' = ingested + 1
  /\ IF active # None /\ NamesDiffer THEN IngestEvent(active, pending.uid, pending.out)
     ELSE UNCHANGED tables
  /\ UNCHANGED <<active, live, pos, edits>>

Next ==
  \/ \E pair \in Pairs : CreateCareer(pair[1], pair[2])
  \/ \E c \in 1..MaxCareers : ActivateCareer(c)
  \/ \E c \in 1..MaxCareers, pts \in [Keys -> Points], r \in 0..1 :
       \E ts \in SUBSET Teams : \E teamPts \in [ts -> Points] : ImportStandings(c, pts, teamPts, r)
  \/ \E e \in 1..MaxEvents, k \in Keys, ch \in Corrections : CorrectResult(e, k, ch[1], ch[2])
  \/ \E s \in Sessions : StartSession(s)
  \/ \E p \in PositionsOf, out \in Cars \cup {None} : Classify(p, out)
  \/ NotExported
  \/ Ingest

Spec == Init /\ [][Next]_vars

-----------------------------------------------------------------------------
(* What the dashboard reads.                                                *)

EventsOf(c) == {e \in DOMAIN events : events[e].career = c}

\* driver_standings: the starting points and a LEFT JOIN over all results of the career.
DriverPoints(c, k) ==
  drivers[c][k].start +
  SumFunction([e \in {e \in EventsOf(c) : k \in DOMAIN results[e]} |-> results[e][k].points])

\* constructor_standings: the teams listed, and their points.
Listed(c) == DOMAIN bases[c] \cup {drivers[c][k].team : k \in DOMAIN drivers[c]}

ScoredFor(t, e) == SumFunction([k \in {k \in DOMAIN results[e] : results[e][k].team = t} |-> results[e][k].points])

TeamPoints(c, t) ==
  (IF t \in DOMAIN bases[c] THEN bases[c][t] ELSE 0) + SumFunction([e \in EventsOf(c) |-> ScoredFor(t, e)])

\* _career_projection: the key a live car counts for, or None.
CarKey(c, car) ==
  LET key == CASE car = DriverA -> careers[c].a [] car = DriverB -> careers[c].b [] OTHER -> KeyOf[car]
  IN  IF key \in DOMAIN drivers[c] THEN key ELSE None

Projects(c) ==
  /\ live # None /\ TypeOf[live] \in {"race", "sprint"}
  /\ \E car \in Cars : CarKey(c, car) # None

\* Mutant: the projection of a sprint uses the race's points.
Earned_Race(car) == PointsFor(pos[car], "race")

Earned(car) == PointsFor(pos[car], TypeOf[live])

\* project_standings and project_constructor_standings.  earned is a dictionary: of two
\* cars that count for one key the later one stays (one is chosen here).
ProjectedDriver(c, k) ==
  LET mine == {car \in Cars : CarKey(c, car) = k}
  IN  DriverPoints(c, k) + (IF mine = {} THEN 0 ELSE Earned(CHOOSE car \in mine : TRUE))

ProjectedTeam(c, t) ==
  TeamPoints(c, t) +
  SumFunction([car \in {car \in Cars : TeamOf[car] = t /\ CarKey(c, car) # None} |-> Earned(car)])

-----------------------------------------------------------------------------
(* Properties.                                                              *)

EventUids(c) == {events[e].uid : e \in EventsOf(c)}
Booked(c, s) == CHOOSE e \in EventsOf(c) : events[e].uid = s

Ledger == INSTANCE CareerLedger WITH
  Ids <- 1..MaxCareers,
  Score <- Points \cup {0} \cup {ch[2] : ch \in Corrections} \cup {RacePoints[i] : i \in DOMAIN RacePoints}
             \cup {SprintPoints[i] : i \in DOMAIN SprintPoints},
  start <- [c \in Ids |-> [k \in DOMAIN drivers[c] |-> drivers[c][k].start]],
  book <- [c \in Ids |-> [s \in EventUids(c) |->
             [k \in DOMAIN results[Booked(c, s)] |-> results[Booked(c, s)][k].points]]]

\* The tables implement the ledger: a session classified again (career.py:273) replaces its
\* own results only, imports replace starting points, a correction changes one entry, and
\* nothing else moves a point.
KeepsTheLedger == Ledger!Spec

\* driver_standings (career.py:369), a sum over joined rows, is the ledger's total: no
\* interleaving of imports, repeated classifications and corrections counts a row twice or
\* leaves one out.
StandingsAreTheLedger ==
  \A c \in Ids : \A k \in DOMAIN drivers[c] : DriverPoints(c, k) = Ledger!Total(c, k)

\* A first result without disqualifications, of cars all known to the career.
IngestsAsProjected ==
  LET c == active
  IN  (/\ Ingest /\ tables' # tables
       /\ Projects(c) /\ pending.uid \notin EventUids(c)
       /\ \A car \in Cars : CarKey(c, car) = KeyOf[car] /\ pending.out = None)
      => /\ \A k \in DOMAIN drivers[c] : DriverPoints(c, k)' = ProjectedDriver(c, k)
         /\ \A t \in Listed(c)' : TeamPoints(c, t)' = ProjectedTeam(c, t)

\* What was projected from the final positions is what the standings become once the result
\* is ingested: two computations in two modules (championship.py:44 and career.py:309), on
\* two mappings of cars to drivers, agree for drivers and constructors.  Without
\* disqualifications, which the projection cannot see, and for a session the career does
\* not have yet, all of whose cars it knows under the selected drivers' own keys.
ProjectionIsExact == [][IngestsAsProjected]_vars
=============================================================================
