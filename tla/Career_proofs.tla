---------------------------- MODULE Career_proofs ----------------------------
(***************************************************************************)
(* Theorems about Career for every set of cars, sessions, teams, careers   *)
(* and points.                                                             *)
(*                                                                         *)
(* Inv says what the schema of the database declares and the code relies   *)
(* on: rows of the right columns, results of a career's own events and     *)
(* drivers (Belongs), and one event of a session per career (the UNIQUE    *)
(* constraint, OncePerSession).  It gives TypeCorrect.                     *)
(*                                                                         *)
(* The ledger is read off the tables: Start and Book.  OncePerSession      *)
(* makes Book the only book of the events (IsBook, OneBook), so each       *)
(* transaction is shown to make the ledger's step by giving the book after *)
(* it: CreateOpens, ImportImports, CorrectCorrects, IngestRecords.         *)
(*                                                                         *)
(* Standings are sums.  The recursion behind a sum exists, is unique and   *)
(* takes its elements in any order (RecursionExists to SumReindexed, each  *)
(* by a minimal counterexample: a smallest set it fails for).  So a total  *)
(* over the events of a career is the one over its sessions, and a result  *)
(* adds to each total what its cars earned: StandingsAreRight and          *)
(* ProjectedIsIngested.                                                    *)
(***************************************************************************)
EXTENDS Career, WellFoundedInduction, SequenceTheorems, FiniteSetTheorems, TLAPS

\* Tables with keys in K and rows in R.
Table(K, R) == UNION {[ks -> R] : ks \in SUBSET K}

\* A table is a function whose keys and rows are of the given kinds.
LEMMA TableIs ==
  ASSUME NEW K, NEW R, NEW f
  PROVE  f \in Table(K, R) <=> f \in [DOMAIN f -> R] /\ DOMAIN f \subseteq K
BY DEF Table

\* What an upsert leaves: the new rows, and the old ones of other keys.
LEMMA UpsertedIs ==
  ASSUME NEW f, NEW g
  PROVE  /\ DOMAIN Upserted(f, g) = DOMAIN f \cup DOMAIN g
         /\ \A k \in DOMAIN g : Upserted(f, g)[k] = g[k]
         /\ \A k \in DOMAIN f : k \notin DOMAIN g => Upserted(f, g)[k] = f[k]
         /\ Upserted(f, g) = [k \in DOMAIN Upserted(f, g) |-> Upserted(f, g)[k]]
BY DEF Upserted

\* A table of one row.
LEMMA OnlyIs ==
  ASSUME NEW key, NEW row
  PROVE  DOMAIN Only(key, row) = {key} /\ Only(key, row)[key] = row
BY DEF Only

\* The empty table, which is the empty sequence.
LEMMA EmptyTable ==
  ASSUME NEW K, NEW R
  PROVE  <<>> \in Table(K, R) /\ DOMAIN <<>> = {}
<1>1. <<>> = [k \in {} |-> k] /\ DOMAIN <<>> = {}
  OBVIOUS
<1>2. <<>> \in [{} -> R]
  BY <1>1
<1> QED BY <1>1, <1>2 DEF Table

\* Tables grow by an upsert, and rows stay rows.
LEMMA UpsertedTable ==
  ASSUME NEW K, NEW R, NEW f \in Table(K, R), NEW g \in Table(K, R)
  PROVE  Upserted(f, g) \in Table(K, R)
<1> DEFINE u == Upserted(f, g)
<1>1. /\ f \in [DOMAIN f -> R] /\ DOMAIN f \subseteq K
      /\ g \in [DOMAIN g -> R] /\ DOMAIN g \subseteq K
  BY TableIs
<1>2. /\ DOMAIN u = DOMAIN f \cup DOMAIN g
      /\ \A k \in DOMAIN g : u[k] = g[k]
      /\ \A k \in DOMAIN f : k \notin DOMAIN g => u[k] = f[k]
      /\ u = [k \in DOMAIN u |-> u[k]]
  BY UpsertedIs
<1> HIDE DEF u
<1>3. \A k \in DOMAIN u : u[k] \in R
  BY <1>1, <1>2
<1>4. u \in [DOMAIN u -> R]
  BY <1>2, <1>3
<1>5. u \in Table(K, R)
  BY <1>1, <1>2, <1>4, TableIs
<1> QED BY <1>5 DEF u

\* A sequence of rows: the new id is the next one.
LEMMA UpsertedSeq ==
  ASSUME NEW S, NEW s \in Seq(S), NEW row \in S, NEW e \in 1..(Len(s) + 1)
  PROVE  Upserted(s, Only(e, row)) \in Seq(S)
<1> DEFINE u == Upserted(s, Only(e, row))
           n == IF e \in 1..Len(s) THEN Len(s) ELSE Len(s) + 1
<1>1. Len(s) \in Nat /\ DOMAIN s = 1..Len(s) /\ \A i \in 1..Len(s) : s[i] \in S
  BY LenProperties, ElementOfSeq
<1>2. /\ DOMAIN u = DOMAIN s \cup {e} /\ u = [d \in DOMAIN u |-> u[d]]
      /\ u[e] = row /\ \A d \in DOMAIN s : d # e => u[d] = s[d]
  BY DEF Upserted, Only
<1> HIDE DEF u
<1>3. n \in Nat /\ DOMAIN u = 1..n
  BY <1>1, <1>2
<1>4. \A i \in 1..n : u[i] \in S
  BY <1>1, <1>2, <1>3
<1>5. u \in [1..n -> S]
  BY <1>2, <1>3, <1>4
<1>6. u \in Seq(S)
  BY <1>3, <1>5, SeqDef
<1> QED BY <1>6 DEF u

\* An interval from 1 determines its end.
LEMMA SameLength ==
  ASSUME NEW m \in Nat, NEW n \in Nat, 1..m = 1..n
  PROVE  m = n
<1>1. \A i \in Int : i \in 1..m <=> i \in 1..n
  OBVIOUS
<1>2. ~(m < n)
  <2>1. n \in 1..m <=> n \in 1..n
    BY <1>1
  <2> QED BY <2>1
<1>3. ~(n < m)
  <2>1. m \in 1..m <=> m \in 1..n
    BY <1>1
  <2> QED BY <2>1
<1> QED BY <1>2, <1>3

-----------------------------------------------------------------------------
CareerRow == [a : Keys, b : Keys, round : Nat]
DriverRow == [team : Teams, start : Int]
EventRow == [career : Nat, uid : Sessions, type : {"race", "sprint", "qualifying"}, round : Nat]

\* The tables hold rows of their columns, under the ids 1, 2, ...
Rows == /\ careers \in Seq(CareerRow) /\ Len(careers) \in 0..MaxCareers
        /\ drivers \in Seq(Table(Keys, DriverRow)) /\ Len(drivers) = Len(careers)
        /\ bases \in Seq(Table(Teams, Int)) /\ Len(bases) = Len(careers)
        /\ events \in Seq(EventRow)
        /\ results \in Seq(Table(Keys, Row)) /\ Len(results) = Len(events)

TwoDrivers == \A c \in Ids : careers[c].a # careers[c].b

\* The foreign keys: results are of an event of a career, and of drivers of that career.
Belongs == \A e \in DOMAIN events :
             /\ events[e].career \in Ids
             /\ DOMAIN results[e] \subseteq DOMAIN drivers[events[e].career]

\* UNIQUE (career_id, session_uid, event_type).
OncePerSession == \A d, e \in DOMAIN events :
                    events[d].career = events[e].career /\ events[d].uid = events[e].uid => d = e

\* What is outside the database: the session recorded is the one shown.
Service == /\ active \in Ids \cup {None} /\ live \in Sessions \cup {None} /\ pos \in PositionsOf
           /\ pending \in {None} \cup [uid : Sessions, out : Cars \cup {None}]
           /\ pending # None => pending.uid = live

Inv == Rows /\ TwoDrivers /\ Belongs /\ OncePerSession /\ Service

\* Ids and rows of the tables.
LEMMA RowsDomains ==
  ASSUME Rows
  PROVE  /\ Len(careers) \in Nat /\ Len(events) \in Nat
         /\ Ids = 1..Len(careers) /\ DOMAIN drivers = Ids /\ DOMAIN bases = Ids
         /\ DOMAIN events = 1..Len(events) /\ DOMAIN results = DOMAIN events
         /\ \A c \in Ids : /\ careers[c] \in CareerRow /\ drivers[c] \in Table(Keys, DriverRow)
                           /\ bases[c] \in Table(Teams, Int)
         /\ \A e \in DOMAIN events : events[e] \in EventRow /\ results[e] \in Table(Keys, Row)
<1> DEFINE S == Table(Keys, DriverRow)
           T == Table(Teams, Int)
           U == Table(Keys, Row)
<1>1. /\ careers \in Seq(CareerRow) /\ drivers \in Seq(S) /\ bases \in Seq(T)
      /\ events \in Seq(EventRow) /\ results \in Seq(U)
      /\ Len(drivers) = Len(careers) /\ Len(bases) = Len(careers) /\ Len(results) = Len(events)
  BY DEF Rows
<1> HIDE DEF S, T, U
<1>2. /\ Len(careers) \in Nat /\ DOMAIN careers = 1..Len(careers)
      /\ \A c \in 1..Len(careers) : careers[c] \in CareerRow
  BY <1>1, LenProperties, ElementOfSeq
<1>3. DOMAIN drivers = 1..Len(drivers) /\ \A c \in 1..Len(drivers) : drivers[c] \in S
  BY <1>1, LenProperties, ElementOfSeq
<1>4. DOMAIN bases = 1..Len(bases) /\ \A c \in 1..Len(bases) : bases[c] \in T
  BY <1>1, LenProperties, ElementOfSeq
<1>5. /\ Len(events) \in Nat /\ DOMAIN events = 1..Len(events)
      /\ \A c \in 1..Len(events) : events[c] \in EventRow
  BY <1>1, LenProperties, ElementOfSeq
<1>6. DOMAIN results = 1..Len(results) /\ \A c \in 1..Len(results) : results[c] \in U
  BY <1>1, LenProperties, ElementOfSeq
<1> QED BY <1>1, <1>2, <1>3, <1>4, <1>5, <1>6 DEF Ids, S, T, U

\* A row of a table replaced by another one.
LEMMA Replaced ==
  ASSUME NEW S, NEW s \in Seq(S), NEW i \in DOMAIN s, NEW row \in S
  PROVE  LET u == [s EXCEPT ![i] = row]
         IN  /\ u \in Seq(S) /\ Len(u) = Len(s) /\ DOMAIN u = DOMAIN s
             /\ u[i] = row /\ \A j \in DOMAIN s : j # i => u[j] = s[j]
<1> DEFINE u == [s EXCEPT ![i] = row]
<1>1. i \in 1..Len(s) /\ DOMAIN s = 1..Len(s)
  BY LenProperties
<1>2. u \in Seq(S) /\ Len(u) = Len(s)
  BY <1>1, ExceptSeq
<1>3. DOMAIN u = DOMAIN s /\ u[i] = row /\ \A j \in DOMAIN s : j # i => u[j] = s[j]
  BY <1>1
<1> QED BY <1>2, <1>3

\* A row added at the end of a table.
LEMMA Appended ==
  ASSUME NEW S, NEW s \in Seq(S), NEW row \in S
  PROVE  LET u == Append(s, row)
         IN  /\ u \in Seq(S) /\ Len(u) = Len(s) + 1 /\ DOMAIN u = DOMAIN s \cup {Len(s) + 1}
             /\ u[Len(s) + 1] = row /\ \A j \in DOMAIN s : u[j] = s[j]
<1> DEFINE u == Append(s, row)
<1>1. Len(s) \in Nat /\ DOMAIN s = 1..Len(s)
  BY LenProperties
<1>2. u \in Seq(S) /\ Len(u) = Len(s) + 1 /\ u[Len(s) + 1] = row /\ \A j \in 1..Len(s) : u[j] = s[j]
  BY AppendProperties
<1> HIDE DEF u
<1>3. DOMAIN u = 1..Len(u)
  BY <1>2, LenProperties
<1>4. DOMAIN u = DOMAIN s \cup {Len(s) + 1}
  BY <1>1, <1>2, <1>3
<1>5. \A j \in DOMAIN s : u[j] = s[j]
  BY <1>1, <1>2
<1> QED BY <1>2, <1>4, <1>5 DEF u

-----------------------------------------------------------------------------
\* An empty database.
LEMMA InitInv == Init => Inv
<1> SUFFICES ASSUME Init PROVE Inv
  OBVIOUS
<1>1. \A S : <<>> \in Seq(S) /\ Len(<<>>) = 0 /\ DOMAIN <<>> = {}
  BY EmptySeq
<1>2. Rows
  BY <1>1, CareerAssumption DEF Init, Rows
<1>3. TwoDrivers /\ Belongs /\ OncePerSession
  BY <1>1 DEF Init, TwoDrivers, Belongs, OncePerSession, Ids
<1>4. Service
  BY DEF Init, Service
<1> QED BY <1>2, <1>3, <1>4 DEF Inv

\* A career is created with the next id and no drivers.
LEMMA CreateInv ==
  ASSUME Inv, NEW a \in Keys, NEW b \in Keys, CreateCareer(a, b)
  PROVE  Inv'
<1> DEFINE n == Len(careers) + 1
           empty == <<>>
<1>1. a # b
  BY DEF CreateCareer
<1>2. \A K, R : empty \in Table(K, R)
  BY EmptyTable
<1>3. DOMAIN empty = {}
  BY EmptyTable
<1> HIDE DEF empty
<1> DEFINE row == [a |-> a, b |-> b, round |-> 0]
<1>4. row \in CareerRow /\ row.a # row.b
  BY <1>1 DEF CareerRow
<1> HIDE DEF row
<1>5. careers' = Append(careers, row) /\ drivers' = Append(drivers, empty) /\ bases' = Append(bases, empty)
  BY DEF CreateCareer, row, empty
<1> DEFINE S == Table(Keys, DriverRow)
           T == Table(Teams, Int)
<1>6. careers \in Seq(CareerRow) /\ drivers \in Seq(S) /\ bases \in Seq(T)
  BY DEF Inv, Rows
<1>7. empty \in S /\ empty \in T
  BY <1>2
<1>8. /\ careers' \in Seq(CareerRow) /\ Len(careers') = Len(careers) + 1
      /\ DOMAIN careers' = DOMAIN careers \cup {Len(careers) + 1}
      /\ careers'[Len(careers) + 1] = row /\ \A j \in DOMAIN careers : careers'[j] = careers[j]
  BY <1>4, <1>5, <1>6, Appended
<1> HIDE DEF S, T
<1>9. /\ drivers' \in Seq(S) /\ Len(drivers') = Len(drivers) + 1
      /\ \A j \in DOMAIN drivers : drivers'[j] = drivers[j]
  BY <1>5, <1>6, <1>7, Appended
<1>10. bases' \in Seq(T) /\ Len(bases') = Len(bases) + 1
  BY <1>5, <1>6, <1>7, Appended
<1>11. Len(careers) \in Nat /\ Ids = 1..Len(careers) /\ DOMAIN drivers = Ids
  BY RowsDomains DEF Inv
<1>12. Rows'
  BY <1>8, <1>9, <1>10, <1>11, CareerAssumption DEF Inv, Rows, CreateCareer, S, T
<1>13. Ids' = Ids \cup {n} /\ n \notin Ids
  BY <1>8, <1>11 DEF Ids
<1>14. TwoDrivers'
  BY <1>4, <1>8, <1>13 DEF Inv, TwoDrivers, Ids
<1>15. Belongs'
  BY <1>9, <1>11, <1>13 DEF Inv, Belongs, CreateCareer
<1>16. OncePerSession' /\ Service'
  <2>1. OncePerSession'
    BY DEF Inv, OncePerSession, CreateCareer
  <2>2. active' \in Ids'
    BY <1>8, <1>13 DEF CreateCareer
  <2> QED BY <2>1, <2>2 DEF Inv, Service, CreateCareer
<1> QED BY <1>12, <1>14, <1>15, <1>16 DEF Inv

\* Steps of the service alone.
LEMMA TablesKept ==
  ASSUME Inv, UNCHANGED tables, Service'
  PROVE  Inv'
<1>1. UNCHANGED <<careers, drivers, bases, events, results>>
  BY DEF tables
<1>2. Rows' /\ TwoDrivers' /\ Belongs' /\ OncePerSession'
  BY <1>1 DEF Inv, Rows, TwoDrivers, Belongs, OncePerSession, Ids
<1> QED BY <1>2 DEF Inv

\* The rows of an import are rows of their tables.
LEMMA ImportRows ==
  ASSUME NEW pts \in [Keys -> Points], NEW ts \in SUBSET Teams, NEW teamPts \in [ts -> Points]
  PROVE  /\ [k \in {KeyOf[DriverA], KeyOf[DriverB]} |->
              [team |-> TeamOf[CHOOSE car \in Cars : KeyOf[car] = k], start |-> pts[k]]]
              \in Table(Keys, DriverRow)
         /\ teamPts \in Table(Teams, Int)
<1> DEFINE ks == {KeyOf[DriverA], KeyOf[DriverB]}
           CarOf(k) == CHOOSE car \in Cars : KeyOf[car] = k
           rows == [k \in ks |-> [team |-> TeamOf[CarOf(k)], start |-> pts[k]]]
<1>1. \A k \in ks : k \in Keys /\ \E car \in Cars : KeyOf[car] = k
  BY CareerAssumption DEF Keys
<1>2. \A k \in ks : CarOf(k) \in Cars
  BY <1>1
<1> HIDE DEF CarOf
<1>3. \A k \in ks : TeamOf[CarOf(k)] \in Teams /\ pts[k] \in Int
  BY <1>1, <1>2, CareerAssumption
<1>4. \A k \in ks : [team |-> TeamOf[CarOf(k)], start |-> pts[k]] \in DriverRow
  BY <1>3 DEF DriverRow
<1>5. rows \in [ks -> DriverRow]
  BY <1>4
<1>6. ks \subseteq Keys
  BY <1>1
<1>7. rows \in Table(Keys, DriverRow)
  BY <1>5, <1>6 DEF Table
<1>8. teamPts \in [ts -> Int]
  BY CareerAssumption
<1>9. teamPts \in Table(Teams, Int)
  BY <1>8 DEF Table
<1> QED BY <1>7, <1>9 DEF CarOf

\* An import adds drivers and never removes one.
LEMMA ImportInv ==
  ASSUME Inv, NEW c, NEW pts \in [Keys -> Points], NEW r \in 0..1,
         NEW ts \in SUBSET Teams, NEW teamPts \in [ts -> Points], ImportStandings(c, pts, teamPts, r)
  PROVE  Inv'
<1> DEFINE rows == [k \in {KeyOf[DriverA], KeyOf[DriverB]} |->
                     [team |-> TeamOf[CHOOSE car \in Cars : KeyOf[car] = k], start |-> pts[k]]]
           S == Table(Keys, DriverRow)
           T == Table(Teams, Int)
<1>1. rows \in S /\ teamPts \in T
  BY ImportRows
<1>2. /\ c \in Ids
      /\ drivers' = [drivers EXCEPT ![c] = Upserted(drivers[c], rows)]
      /\ bases' = [bases EXCEPT ![c] = Upserted(bases[c], teamPts)]
      /\ careers' = [careers EXCEPT ![c].round = r]
      /\ UNCHANGED <<events, results, active, live, pos, pending>>
  BY RowsDomains DEF ImportStandings, Imported, Inv
<1> HIDE DEF rows
<1>3. drivers[c] \in S /\ bases[c] \in T
  BY <1>2, RowsDomains DEF Inv
<1> DEFINE d == Upserted(drivers[c], rows)
           b == Upserted(bases[c], teamPts)
<1>4. d \in S /\ b \in T
  BY <1>1, <1>3, UpsertedTable
<1>5. DOMAIN drivers[c] \subseteq DOMAIN d
  BY DEF Upserted
<1> HIDE DEF d, b
<1> DEFINE row == [careers[c] EXCEPT !.round = r]
<1>6. careers[c] \in CareerRow
  BY <1>2, RowsDomains DEF Inv
<1>7. row \in CareerRow /\ row.a = careers[c].a /\ row.b = careers[c].b
  BY <1>6 DEF CareerRow
<1>8. careers' = [careers EXCEPT ![c] = row]
  BY <1>2
<1> HIDE DEF row, S, T
<1>9. /\ careers \in Seq(CareerRow) /\ drivers \in Seq(S) /\ bases \in Seq(T)
      /\ c \in DOMAIN careers /\ c \in DOMAIN drivers /\ c \in DOMAIN bases
      /\ DOMAIN drivers = DOMAIN careers /\ DOMAIN events = DOMAIN results
  BY <1>2, RowsDomains DEF Inv, Rows, S, T, Ids
<1>10. /\ careers' \in Seq(CareerRow) /\ Len(careers') = Len(careers) /\ DOMAIN careers' = DOMAIN careers
       /\ careers'[c] = row /\ \A j \in DOMAIN careers : j # c => careers'[j] = careers[j]
  BY <1>7, <1>8, <1>9, Replaced
<1>11. /\ drivers' \in Seq(S) /\ Len(drivers') = Len(drivers)
       /\ drivers'[c] = d /\ \A j \in DOMAIN drivers : j # c => drivers'[j] = drivers[j]
  <2>1. drivers' = [drivers EXCEPT ![c] = d]
    BY <1>2 DEF d
  <2> QED BY <2>1, <1>4, <1>9, Replaced
<1>12. bases' \in Seq(T) /\ Len(bases') = Len(bases)
  <2>1. bases' = [bases EXCEPT ![c] = b]
    BY <1>2 DEF b
  <2> QED BY <2>1, <1>4, <1>9, Replaced
<1>13. Rows'
  BY <1>2, <1>10, <1>11, <1>12 DEF Inv, Rows, S, T
<1>14. Ids' = Ids
  BY <1>10 DEF Ids
<1>15. TwoDrivers'
  <2> SUFFICES ASSUME NEW x \in Ids PROVE careers'[x].a # careers'[x].b
    BY <1>14 DEF TwoDrivers
  <2>1. careers[x].a # careers[x].b
    BY DEF Inv, TwoDrivers
  <2> QED BY <2>1, <1>7, <1>10 DEF Ids
<1>16. Belongs'
  <2> SUFFICES ASSUME NEW e \in DOMAIN events
               PROVE  events[e].career \in Ids /\ DOMAIN results[e] \subseteq DOMAIN drivers'[events[e].career]
    BY <1>2, <1>14 DEF Belongs
  <2>1. events[e].career \in Ids /\ DOMAIN results[e] \subseteq DOMAIN drivers[events[e].career]
    BY DEF Inv, Belongs
  <2> QED BY <2>1, <1>5, <1>9, <1>11 DEF Ids
<1>17. OncePerSession' /\ Service'
  BY <1>2, <1>14 DEF Inv, OncePerSession, Service
<1> QED BY <1>13, <1>15, <1>16, <1>17 DEF Inv

\* What a correction changes.
Corrects(e, k, n) ==
  /\ e \in DOMAIN events /\ k \in DOMAIN results[e]
  /\ DOMAIN results' = DOMAIN results
  /\ DOMAIN results'[e] = DOMAIN results[e]
  /\ results'[e][k].points = n
  /\ \A x \in DOMAIN results[e] : x # k => results'[e][x] = results[e][x]
  /\ \A d \in DOMAIN results : d # e => results'[d] = results[d]

\* A correction stays in its row.
LEMMA CorrectInv ==
  ASSUME Inv, NEW e, NEW k, NEW p \in Int, NEW n \in Int, CorrectResult(e, k, p, n)
  PROVE  Inv' /\ Corrects(e, k, n)
<1> DEFINE S == Table(Keys, Row)
<1>2. /\ e \in DOMAIN events /\ k \in DOMAIN results[e]
      /\ results' = [results EXCEPT ![e][k].position = p, ![e][k].points = n, ![e][k].manual = TRUE]
      /\ UNCHANGED <<careers, drivers, bases, events, active, live, pos, pending>>
  BY DEF CorrectResult
<1>3. results \in Seq(S) /\ results[e] \in S /\ DOMAIN results = DOMAIN events
  BY <1>2, RowsDomains DEF Inv, Rows
<1>4. results[e] \in [DOMAIN results[e] -> Row] /\ DOMAIN results[e] \subseteq Keys
  BY <1>3, TableIs
<1>5. results[e][k] \in Row
  BY <1>2, <1>4
<1> DEFINE row == [results[e][k] EXCEPT !.position = p, !.points = n, !.manual = TRUE]
           t == [results[e] EXCEPT ![k] = row]
<1>6. row \in Row /\ row.points = n
  BY <1>5 DEF Row
<1>8. results' = [results EXCEPT ![e] = t]
  BY <1>2, <1>3, <1>4, <1>5
<1> HIDE DEF row
<1>9. t \in [DOMAIN results[e] -> Row] /\ DOMAIN t = DOMAIN results[e] /\ t[k] = row
      /\ \A x \in DOMAIN results[e] : x # k => t[x] = results[e][x]
  BY <1>2, <1>4, <1>6
<1> HIDE DEF t
<1>10. t \in S
  BY <1>4, <1>9, TableIs
<1> HIDE DEF S
<1>11. /\ results' \in Seq(S) /\ Len(results') = Len(results) /\ DOMAIN results' = DOMAIN results
       /\ results'[e] = t /\ \A d \in DOMAIN results : d # e => results'[d] = results[d]
  <2>1. results \in Seq(S) /\ e \in DOMAIN results
    BY <1>2, <1>3 DEF S
  <2> QED BY <2>1, <1>8, <1>10, Replaced
<1>12. Rows' /\ TwoDrivers' /\ OncePerSession' /\ Service'
  BY <1>2, <1>11 DEF Inv, Rows, TwoDrivers, OncePerSession, Service, Ids, S
<1>13. Belongs'
  <2> SUFFICES ASSUME NEW d \in DOMAIN events
               PROVE  events[d].career \in Ids /\ DOMAIN results'[d] \subseteq DOMAIN drivers[events[d].career]
    BY <1>2 DEF Belongs, Ids
  <2>1. events[d].career \in Ids /\ DOMAIN results[d] \subseteq DOMAIN drivers[events[d].career]
    BY DEF Inv, Belongs
  <2> QED BY <2>1, <1>3, <1>9, <1>11
<1>14. results'[e][k].points = n
  BY <1>6, <1>9, <1>11
<1>15. Inv'
  BY <1>12, <1>13 DEF Inv
<1>16. Corrects(e, k, n)
  BY <1>2, <1>9, <1>11, <1>14 DEF Corrects
<1> QED BY <1>15, <1>16

-----------------------------------------------------------------------------
\* The points a driver can get.
Score == Points \cup {0} \cup {ch[2] : ch \in Corrections} \cup {RacePoints[i] : i \in DOMAIN RacePoints}
           \cup {SprintPoints[i] : i \in DOMAIN SprintPoints}

\* The row written for a car: its points are those of the rules.
LEMMA ResultRowType ==
  ASSUME NEW type, NEW car \in Cars, NEW classified \in BOOLEAN, pos \in PositionsOf
  PROVE  ResultRow(type, car, classified) \in Row /\ ResultRow(type, car, classified).points \in Score
<1>1. Cardinality(Cars) \in Nat
  BY FS_CardinalityType, CareerAssumption
<1>2. pos[car] \in Int
  BY <1>1 DEF PositionsOf
<1>3. PointsFor(pos[car], type) \in Int /\ PointsFor(pos[car], type) \in Score
  <2> DEFINE table == IF type = "sprint" THEN SprintPoints ELSE RacePoints
  <2>1. table \in Seq(Nat)
    BY CareerAssumption
  <2>2. \A i \in DOMAIN table : table[i] \in Nat /\ table[i] \in Score
    <3>1. \A i \in DOMAIN table : table[i] \in Nat
      BY <2>1, ElementOfSeq, LenProperties
    <3>2. \A i \in DOMAIN table : table[i] \in Score
      BY DEF Score
    <3> QED BY <3>1, <3>2
  <2>3. PointsFor(pos[car], type) = IF pos[car] \in DOMAIN table THEN table[pos[car]] ELSE 0
    BY DEF PointsFor
  <2>4. 0 \in Score
    BY DEF Score
  <2> HIDE DEF table
  <2> QED BY <2>2, <2>3, <2>4
<1>4. 0 \in Score
  BY DEF Score
<1> DEFINE n == IF Scores(type, classified) THEN PointsFor(pos[car], type) ELSE 0
<1>5. n \in Int /\ n \in Score
  BY <1>3, <1>4
<1> HIDE DEF n
<1>6. ResultRow(type, car, classified) =
        [team |-> TeamOf[car], position |-> pos[car], classified |-> classified, manual |-> FALSE, points |-> n]
  BY DEF ResultRow, n
<1>7. TeamOf[car] \in Teams
  BY CareerAssumption
<1> QED BY <1>2, <1>5, <1>6, <1>7 DEF Row

\* The session's row: its old one, or the next.
LEMMA EventOfIs ==
  ASSUME Inv, NEW c, NEW s
  PROVE  LET e == EventOf(c, s)
         IN  /\ e \in 1..(Len(events) + 1)
             /\ e \in DOMAIN events => events[e].career = c /\ events[e].uid = s
             /\ e \notin DOMAIN events =>
                  /\ e = Len(events) + 1
                  /\ \A d \in DOMAIN events : ~(events[d].career = c /\ events[d].uid = s)
<1> DEFINE e == EventOf(c, s)
<1>1. DOMAIN events = 1..Len(events) /\ Len(events) \in Nat
  BY RowsDomains DEF Inv
<1>2. CASE \E d \in DOMAIN events : events[d].career = c /\ events[d].uid = s
  <2>1. e = CHOOSE d \in DOMAIN events : events[d].career = c /\ events[d].uid = s
    BY <1>2 DEF EventOf
  <2>2. e \in DOMAIN events /\ events[e].career = c /\ events[e].uid = s
    BY <1>2, <2>1
  <2> HIDE DEF e
  <2>3. e \in 1..(Len(events) + 1)
    BY <1>1, <2>2
  <2> QED BY <2>2, <2>3 DEF e
<1>3. CASE ~ \E d \in DOMAIN events : events[d].career = c /\ events[d].uid = s
  <2>1. e = Len(events) + 1
    BY <1>3 DEF EventOf
  <2> HIDE DEF e
  <2>2. e \in 1..(Len(events) + 1) /\ e \notin DOMAIN events
    BY <1>1, <2>1
  <2> QED BY <1>3, <2>1, <2>2 DEF e
<1> QED BY <1>2, <1>3

\* What ingest_event writes.
Writes(c, s, e, row, rows) ==
  /\ e = EventOf(c, s) /\ row \in EventRow /\ row.career = c /\ row.uid = s
  /\ rows \in [Keys -> Row] /\ \A k \in Keys : rows[k].points \in Score
  /\ events' = Upserted(events, Only(e, row))
  /\ results' = Upserted(results, Only(e, rows))
  /\ drivers' = [drivers EXCEPT ![c] = Enrolled(c, rows)]
  /\ careers' = [careers EXCEPT ![c].round = careers[c].round + 1]
  /\ bases' = bases

\* ingest_event writes such rows.
LEMMA IngestWrites ==
  ASSUME Inv, NEW c \in Ids, NEW s \in Sessions, NEW out, IngestEvent(c, s, out)
  PROVE  \E e, row, rows : Writes(c, s, e, row, rows)
<1> DEFINE e == EventOf(c, s)
           CarOf(k) == CHOOSE car \in Cars : KeyOf[car] = k
           rows == [k \in Keys |-> ResultRow(TypeOf[s], CarOf(k), CarOf(k) # out)]
           round == careers[c].round + 1
           row == [career |-> c, uid |-> s, type |-> TypeOf[s], round |-> round]
<1>1. Ids = 1..Len(careers) /\ Len(careers) \in Nat /\ careers[c] \in CareerRow
  BY RowsDomains DEF Inv
<1>2. row \in EventRow
  <2>1. round \in Nat
    BY <1>1 DEF CareerRow
  <2>2. TypeOf[s] \in {"race", "sprint", "qualifying"} /\ c \in Nat
    BY <1>1, CareerAssumption
  <2> HIDE DEF round
  <2> QED BY <2>1, <2>2 DEF EventRow
<1>3. \A k \in Keys : CarOf(k) \in Cars
  BY DEF Keys
<1>4. rows \in [Keys -> Row] /\ \A k \in Keys : rows[k].points \in Score
  <2> HIDE DEF CarOf
  <2>1. \A k \in Keys : /\ ResultRow(TypeOf[s], CarOf(k), CarOf(k) # out) \in Row
                        /\ ResultRow(TypeOf[s], CarOf(k), CarOf(k) # out).points \in Score
    <3> SUFFICES ASSUME NEW k \in Keys
                 PROVE  /\ ResultRow(TypeOf[s], CarOf(k), CarOf(k) # out) \in Row
                        /\ ResultRow(TypeOf[s], CarOf(k), CarOf(k) # out).points \in Score
      OBVIOUS
    <3> DEFINE b == CarOf(k) # out
    <3>1. b \in BOOLEAN /\ CarOf(k) \in Cars /\ pos \in PositionsOf
      BY <1>3 DEF Inv, Service
    <3> HIDE DEF b
    <3>2. ResultRow(TypeOf[s], CarOf(k), b) \in Row /\ ResultRow(TypeOf[s], CarOf(k), b).points \in Score
      BY <3>1, ResultRowType
    <3> QED BY <3>2 DEF b
  <2> DEFINE R(k) == ResultRow(TypeOf[s], CarOf(k), CarOf(k) # out)
  <2>2. rows = [k \in Keys |-> R(k)] /\ \A k \in Keys : R(k) \in Row /\ R(k).points \in Score
    BY <2>1
  <2> HIDE DEF rows, R
  <2>3. rows \in [Keys -> Row]
    BY <2>2
  <2>4. \A k \in Keys : rows[k] = R(k)
    BY <2>2
  <2> QED BY <2>2, <2>3, <2>4
<1>5. /\ events' = Upserted(events, Only(e, row)) /\ results' = Upserted(results, Only(e, rows))
      /\ drivers' = [drivers EXCEPT ![c] = Enrolled(c, rows)]
      /\ careers' = [careers EXCEPT ![c].round = round]
      /\ bases' = bases
  BY DEF IngestEvent
<1>6. row.career = c /\ row.uid = s
  OBVIOUS
<1>7. careers' = [careers EXCEPT ![c].round = careers[c].round + 1] /\ e = EventOf(c, s)
  BY <1>5
<1> HIDE DEF e, rows, row
<1>8. Writes(c, s, e, row, rows)
  BY <1>2, <1>4, <1>5, <1>6, <1>7 DEF Writes
<1> QED BY <1>8

\* The drivers of a result are in the career, with the points they started with, or 0.
LEMMA EnrolledIs ==
  ASSUME Inv, NEW c \in Ids, NEW rows \in [Keys -> Row]
  PROVE  LET d == Enrolled(c, rows)
         IN  /\ d \in Table(Keys, DriverRow) /\ DOMAIN d = DOMAIN drivers[c] \cup Keys
             /\ \A k \in DOMAIN d : d[k].start = IF k \in DOMAIN drivers[c] THEN drivers[c][k].start ELSE 0
<1> DEFINE old == drivers[c]
           Start(k) == IF k \in DOMAIN old THEN old[k].start ELSE 0
           new == [k \in Keys |-> [team |-> rows[k].team, start |-> Start(k)]]
           S == Table(Keys, DriverRow)
           d == Upserted(old, new)
<1>1. old \in S
  BY RowsDomains DEF Inv
<1> HIDE DEF old
<1>2. old \in [DOMAIN old -> DriverRow] /\ DOMAIN old \subseteq Keys
  BY <1>1, TableIs
<1>3. \A k \in Keys : rows[k].team \in Teams /\ Start(k) \in Int
  BY <1>2 DEF Row, DriverRow
<1> HIDE DEF Start
<1>4. new \in [Keys -> DriverRow]
  BY <1>3 DEF DriverRow
<1>5. DOMAIN new = Keys /\ \A k \in Keys : new[k].start = Start(k)
  OBVIOUS
<1> HIDE DEF new
<1>6. new \in S
  BY <1>4 DEF Table
<1>7. d \in S
  BY <1>1, <1>6, UpsertedTable
<1>8. DOMAIN d = DOMAIN old \cup Keys
  BY <1>5 DEF Upserted
<1>9. \A k \in DOMAIN d : d[k].start = Start(k)
  <2> SUFFICES ASSUME NEW k \in DOMAIN d PROVE d[k].start = Start(k)
    OBVIOUS
  <2>1. k \in Keys
    BY <1>2, <1>8
  <2>2. d[k] = new[k]
    BY <1>5, <2>1 DEF Upserted
  <2> HIDE DEF d
  <2> QED BY <1>5, <2>1, <2>2
<1>10. d = Enrolled(c, rows)
  BY DEF Enrolled, old, new, Start
<1> HIDE DEF d
<1> QED BY <1>7, <1>8, <1>9, <1>10 DEF Start, old

\* A result is entered with its drivers, once.
LEMMA IngestInv ==
  ASSUME Inv, NEW c \in Ids, NEW s \in Sessions, NEW e, NEW row, NEW rows,
         Writes(c, s, e, row, rows), Service'
  PROVE  Inv'
<1> DEFINE S == Table(Keys, DriverRow)
           U == Table(Keys, Row)
           d == Enrolled(c, rows)
           career == [careers[c] EXCEPT !.round = careers[c].round + 1]
<1>1. /\ e \in 1..(Len(events) + 1)
      /\ e \in DOMAIN events => events[e].career = c /\ events[e].uid = s
      /\ e \notin DOMAIN events =>
           /\ e = Len(events) + 1
           /\ \A x \in DOMAIN events : ~(events[x].career = c /\ events[x].uid = s)
  BY EventOfIs DEF Writes
<1>2. /\ row \in EventRow /\ row.career = c /\ row.uid = s /\ rows \in [Keys -> Row]
      /\ events' = Upserted(events, Only(e, row))
      /\ results' = Upserted(results, Only(e, rows))
      /\ drivers' = [drivers EXCEPT ![c] = d]
      /\ careers' = [careers EXCEPT ![c] = career]
      /\ bases' = bases
  BY DEF Writes
<1>3. /\ Len(careers) \in Nat /\ Len(events) \in Nat /\ careers[c] \in CareerRow
      /\ Ids = 1..Len(careers) /\ DOMAIN drivers = Ids /\ DOMAIN careers = Ids
      /\ DOMAIN events = 1..Len(events) /\ DOMAIN results = DOMAIN events
  BY RowsDomains DEF Inv, Ids
<1>4. /\ careers \in Seq(CareerRow) /\ drivers \in Seq(S) /\ events \in Seq(EventRow)
      /\ results \in Seq(U) /\ Len(results) = Len(events)
  BY DEF Inv, Rows
<1>5. d \in S /\ DOMAIN d = DOMAIN drivers[c] \cup Keys
  BY <1>2, EnrolledIs
<1>6. career \in CareerRow /\ career.a = careers[c].a /\ career.b = careers[c].b
  BY <1>3 DEF CareerRow
<1>7. rows \in U /\ DOMAIN rows = Keys
  BY <1>2 DEF Table
<1> HIDE DEF S, U, d, career
<1>8. /\ careers' \in Seq(CareerRow) /\ Len(careers') = Len(careers) /\ DOMAIN careers' = DOMAIN careers
      /\ careers'[c] = career /\ \A x \in DOMAIN careers : x # c => careers'[x] = careers[x]
  BY <1>2, <1>3, <1>4, <1>6, Replaced
<1>9. /\ drivers' \in Seq(S) /\ Len(drivers') = Len(drivers)
      /\ drivers'[c] = d /\ \A x \in DOMAIN drivers : x # c => drivers'[x] = drivers[x]
  BY <1>2, <1>3, <1>4, <1>5, Replaced
<1>10. /\ events' \in Seq(EventRow)
       /\ DOMAIN events' = DOMAIN events \cup {e} /\ events'[e] = row
       /\ \A x \in DOMAIN events : x # e => events'[x] = events[x]
  <2>1. events \in Seq(EventRow) /\ row \in EventRow /\ e \in 1..(Len(events) + 1)
    BY <1>1, <1>2, <1>4
  <2>2. events' = Upserted(events, Only(e, row))
    BY <1>2
  <2>3. DOMAIN events' = DOMAIN events \cup {e}
    BY <2>2 DEF Upserted, Only
  <2>4. events'[e] = row
    BY <2>2 DEF Upserted, Only
  <2>5. \A x \in DOMAIN events : x # e => events'[x] = events[x]
    BY <2>2 DEF Upserted, Only
  <2> QED BY <2>1, <2>2, <2>3, <2>4, <2>5, UpsertedSeq
<1>11. /\ results' \in Seq(U)
       /\ DOMAIN results' = DOMAIN results \cup {e} /\ results'[e] = rows
       /\ \A x \in DOMAIN results : x # e => results'[x] = results[x]
  <2>1. results \in Seq(U) /\ rows \in U /\ e \in 1..(Len(results) + 1)
    BY <1>1, <1>4, <1>7
  <2>2. results' = Upserted(results, Only(e, rows))
    BY <1>2
  <2>3. DOMAIN results' = DOMAIN results \cup {e}
    BY <2>2 DEF Upserted, Only
  <2>4. results'[e] = rows
    BY <2>2 DEF Upserted, Only
  <2>5. \A x \in DOMAIN results : x # e => results'[x] = results[x]
    BY <2>2 DEF Upserted, Only
  <2> QED BY <2>1, <2>2, <2>3, <2>4, <2>5, UpsertedSeq
<1>12. Ids' = Ids
  BY <1>8 DEF Ids
<1>13. Rows'
  <2>1. Len(results') = Len(events')
    <3>1. DOMAIN results' = DOMAIN events'
      BY <1>3, <1>10, <1>11
    <3>2. /\ Len(results') \in Nat /\ DOMAIN results' = 1..Len(results')
          /\ Len(events') \in Nat /\ DOMAIN events' = 1..Len(events')
      BY <1>10, <1>11, LenProperties
    <3> QED BY <3>1, <3>2, SameLength
  <2> QED BY <2>1, <1>2, <1>8, <1>9, <1>10, <1>11 DEF Inv, Rows, S, U
<1>14. TwoDrivers'
  <2> SUFFICES ASSUME NEW x \in Ids PROVE careers'[x].a # careers'[x].b
    BY <1>12 DEF TwoDrivers
  <2>1. careers[x].a # careers[x].b
    BY DEF Inv, TwoDrivers
  <2> QED BY <2>1, <1>3, <1>6, <1>8
<1>15. Belongs'
  <2> SUFFICES ASSUME NEW x \in DOMAIN events'
               PROVE  events'[x].career \in Ids /\ DOMAIN results'[x] \subseteq DOMAIN drivers'[events'[x].career]
    BY <1>12 DEF Belongs
  <2>1. CASE x = e
    BY <2>1, <1>2, <1>5, <1>7, <1>9, <1>10, <1>11
  <2>2. CASE x # e
    <3>1. /\ x \in DOMAIN events /\ events'[x] = events[x] /\ results'[x] = results[x]
      BY <2>2, <1>3, <1>10, <1>11
    <3>2. events[x].career \in Ids /\ DOMAIN results[x] \subseteq DOMAIN drivers[events[x].career]
      BY <3>1 DEF Inv, Belongs
    <3>3. DOMAIN drivers[events[x].career] \subseteq DOMAIN drivers'[events[x].career]
      BY <3>2, <1>3, <1>5, <1>9
    <3> QED BY <3>1, <3>2, <3>3
  <2> QED BY <2>1, <2>2
<1>16. OncePerSession'
  <2> SUFFICES ASSUME NEW x \in DOMAIN events', NEW y \in DOMAIN events',
                      events'[x].career = events'[y].career, events'[x].uid = events'[y].uid
               PROVE  x = y
    BY DEF OncePerSession
  <2>1. \A z \in DOMAIN events : z # e => ~(events[z].career = c /\ events[z].uid = s)
    BY <1>1 DEF Inv, OncePerSession
  <2>2. CASE x # e /\ y # e
    BY <2>2, <1>10 DEF Inv, OncePerSession
  <2>3. CASE x = e /\ y # e
    BY <2>1, <2>3, <1>2, <1>10
  <2>4. CASE x # e /\ y = e
    BY <2>1, <2>4, <1>2, <1>10
  <2> QED BY <2>2, <2>3, <2>4
<1> QED BY <1>13, <1>14, <1>15, <1>16 DEF Inv

\* The invariant is inductive.
LEMMA NextInv == Inv /\ [Next]_vars => Inv'
<1> SUFFICES ASSUME Inv, [Next]_vars PROVE Inv'
  OBVIOUS
<1>1. ASSUME NEW pair \in Pairs, CreateCareer(pair[1], pair[2]) PROVE Inv'
  <2>1. pair[1] \in Keys /\ pair[2] \in Keys
    BY CareerAssumption
  <2> QED BY <1>1, <2>1, CreateInv
<1>2. ASSUME NEW c, ActivateCareer(c) PROVE Inv'
  <2>1. Service'
    BY <1>2 DEF Inv, Service, ActivateCareer, tables, Ids
  <2> QED BY <1>2, <2>1, TablesKept DEF ActivateCareer
<1>3. ASSUME NEW c \in 1..MaxCareers, NEW pts \in [Keys -> Points], NEW r \in 0..1, NEW ts \in SUBSET Teams,
             NEW teamPts \in [ts -> Points], ImportStandings(c, pts, teamPts, r)
      PROVE  Inv'
  BY <1>3, ImportInv
<1>4. ASSUME NEW e, NEW k, NEW ch \in Corrections, CorrectResult(e, k, ch[1], ch[2]) PROVE Inv'
  <2>1. ch[1] \in Int /\ ch[2] \in Int
    BY CareerAssumption
  <2> QED BY <1>4, <2>1, CorrectInv
<1>5. ASSUME NEW s \in Sessions, StartSession(s) PROVE Inv'
  <2>1. Service'
    BY <1>5 DEF Inv, Service, StartSession, tables, Ids
  <2> QED BY <1>5, <2>1, TablesKept DEF StartSession
<1>6. ASSUME NEW p \in PositionsOf, NEW out \in Cars \cup {None}, Classify(p, out) PROVE Inv'
  <2>1. Service'
    BY <1>6 DEF Inv, Service, Classify, tables, Ids, PositionsOf
  <2> QED BY <1>6, <2>1, TablesKept DEF Classify
<1>7. CASE NotExported
  <2>1. Service'
    BY <1>7 DEF Inv, Service, NotExported, tables, Ids
  <2> QED BY <1>7, <2>1, TablesKept DEF NotExported
<1>8. CASE Ingest
  <2>1. CASE active # None /\ NamesDiffer
    <3>1. active \in Ids /\ pending.uid \in Sessions
      BY <1>8, <2>1 DEF Inv, Service, Ingest
    <3>2. IngestEvent(active, pending.uid, pending.out)
      BY <1>8, <2>1 DEF Ingest
    <3>3. PICK e, row, rows : Writes(active, pending.uid, e, row, rows)
      BY <3>1, <3>2, IngestWrites
    <3>4. Service'
      <4>1. Ids' = Ids
        BY <3>3, <3>1, RowsDomains DEF Writes, Ids
      <4> QED BY <1>8, <4>1 DEF Inv, Service, Ingest
    <3> QED BY <3>1, <3>3, <3>4, IngestInv
  <2>2. CASE ~(active # None /\ NamesDiffer)
    <3>1. Service' /\ UNCHANGED tables
      BY <1>8, <2>2 DEF Inv, Service, Ingest, tables, Ids
    <3> QED BY <3>1, TablesKept
  <2> QED BY <2>1, <2>2
<1>9. CASE UNCHANGED vars
  <2>1. Service' /\ UNCHANGED tables
    BY <1>9 DEF Inv, Service, vars, tables, Ids
  <2> QED BY <2>1, TablesKept
<1> QED BY <1>1, <1>2, <1>3, <1>4, <1>5, <1>6, <1>7, <1>8, <1>9 DEF Next

\* It holds in every state.
LEMMA Invariance == Spec => []Inv
BY InitInv, NextInv, PTL DEF Spec

\* It implies TypeOK.
LEMMA InvTypeOK == Inv => TypeOK
<1> SUFFICES ASSUME Inv PROVE TypeOK
  OBVIOUS
<1>1. /\ DOMAIN drivers = Ids /\ DOMAIN bases = Ids /\ DOMAIN results = DOMAIN events
      /\ \A c \in Ids : careers[c] \in CareerRow /\ bases[c] \in Table(Teams, Int)
      /\ \A e \in DOMAIN events : events[e] \in EventRow /\ results[e] \in Table(Keys, Row)
  BY RowsDomains DEF Inv
<1>2. \A c \in Ids : careers[c].a # careers[c].b /\ careers[c].round \in Nat
  BY <1>1 DEF Inv, TwoDrivers, CareerRow
<1>3. \A c \in Ids : DOMAIN bases[c] \subseteq Teams
  BY <1>1, TableIs
<1>4. ASSUME NEW e \in DOMAIN events
      PROVE  /\ events[e].career \in Ids /\ events[e].uid \in Sessions
             /\ \A k \in DOMAIN results[e] : results[e][k] \in Row /\ k \in DOMAIN drivers[events[e].career]
  <2>1. events[e].career \in Ids /\ DOMAIN results[e] \subseteq DOMAIN drivers[events[e].career]
    BY DEF Inv, Belongs
  <2>2. events[e].uid \in Sessions
    BY <1>1 DEF EventRow
  <2>3. results[e] \in [DOMAIN results[e] -> Row]
    BY <1>1, TableIs
  <2> QED BY <2>1, <2>2, <2>3
<1>5. active \in Ids \cup {None} /\ live \in Sessions \cup {None} /\ pos \in PositionsOf
  BY DEF Inv, Service
<1> QED BY <1>1, <1>2, <1>3, <1>4, <1>5 DEF TypeOK

\* The tables hold rows of their columns, and every result belongs to an event and a driver of a
\* known career (the foreign keys of career.py), whatever is imported, corrected and ingested.
THEOREM TypeCorrect == Spec => []TypeOK
BY Invariance, InvTypeOK, PTL

-----------------------------------------------------------------------------
\* What the tables say of the ledger.
StartOf(d) == [k \in DOMAIN d |-> d[k].start]
PointsOf(r) == [k \in DOMAIN r |-> r[k].points]
Start == [c \in Ids |-> StartOf(drivers[c])]
Book == [c \in Ids |-> [s \in EventUids(c) |-> PointsOf(results[Booked(c, s)])]]

\* The ledger's formulas, said of them.
LEMMA LedgerInit == Ledger!Init <=> Start = <<>> /\ Book = <<>>
BY DEF Ledger!Init, Start, StartOf, Book, PointsOf

\* Opening a career.
LEMMA LedgerOpen ==
  Ledger!Open <=> \E c \in (1..MaxCareers) \ DOMAIN Start :
                    /\ Start' = Upserted(Start, Only(c, <<>>))
                    /\ Book' = Upserted(Book, Only(c, <<>>))
BY DEF Ledger!Open, Ledger!Careers, Ledger!Upserted, Ledger!Only, Upserted, Only, Start, StartOf, Book, PointsOf

\* Importing points.
LEMMA LedgerImport ==
  Ledger!Import <=> \E c \in DOMAIN Start : \E ks \in SUBSET Keys : \E pts \in [ks -> Score] :
                      /\ Start' = [Start EXCEPT ![c] = Upserted(Start[c], pts)]
                      /\ UNCHANGED Book
BY DEF Ledger!Import, Ledger!Careers, Ledger!Upserted, Upserted, Start, StartOf, Book, PointsOf, Score

\* Recording a session.
LEMMA LedgerRecord ==
  Ledger!Record <=> \E c \in DOMAIN Start, s \in Sessions : \E ks \in SUBSET Keys : \E pts \in [ks -> Score] :
                      /\ Book' = [Book EXCEPT ![c] = Upserted(Book[c], Only(s, pts))]
                      /\ Start' = [Start EXCEPT ![c] = Upserted([k \in ks |-> 0], Start[c])]
BY DEF Ledger!Record, Ledger!Careers, Ledger!Upserted, Ledger!Only, Upserted, Only, Start, StartOf,
       Book, PointsOf, Score

\* Correcting an entry.
LEMMA LedgerCorrect ==
  Ledger!Correct <=> \E c \in DOMAIN Start : \E s \in DOMAIN Book[c] : \E k \in DOMAIN Book[c][s], p \in Score :
                       /\ Book' = [Book EXCEPT ![c][s][k] = p]
                       /\ UNCHANGED Start
BY DEF Ledger!Correct, Ledger!Careers, Start, StartOf, Book, PointsOf, Score

\* The ledger's specification.
LEMMA LedgerSpec ==
  KeepsTheLedger <=> Ledger!Init /\ [][Ledger!Next]_<<Start, Book>>
BY DEF KeepsTheLedger, Ledger!Spec, Start, StartOf, Book, PointsOf

\* Functions are equal that agree everywhere.
LEMMA SameTable ==
  ASSUME NEW f, NEW g, f = [k \in DOMAIN f |-> f[k]], g = [k \in DOMAIN g |-> g[k]],
         DOMAIN f = DOMAIN g, \A k \in DOMAIN f : f[k] = g[k]
  PROVE  f = g
OBVIOUS

\* A book b of the events evs of the careers ids, whose results are res.
UidsOf(evs, c) == {evs[e].uid : e \in {d \in DOMAIN evs : evs[d].career = c}}
IsBook(b, ids, evs, res) ==
  /\ b = [c \in ids |-> b[c]]
  /\ \A c \in ids : b[c] = [s \in UidsOf(evs, c) |-> b[c][s]]
  /\ \A e \in DOMAIN evs : evs[e].career \in ids => b[evs[e].career][evs[e].uid] = PointsOf(res[e])

\* There is only one.
LEMMA OneBook ==
  ASSUME NEW a, NEW b, NEW ids, NEW evs, NEW res, IsBook(a, ids, evs, res), IsBook(b, ids, evs, res)
  PROVE  a = b
<1>1. ASSUME NEW c \in ids PROVE a[c] = b[c]
  <2>1. a[c] = [s \in UidsOf(evs, c) |-> a[c][s]] /\ b[c] = [s \in UidsOf(evs, c) |-> b[c][s]]
    BY DEF IsBook
  <2>2. ASSUME NEW s \in UidsOf(evs, c) PROVE a[c][s] = b[c][s]
    <3>1. PICK e \in DOMAIN evs : evs[e].career = c /\ evs[e].uid = s
      BY DEF UidsOf
    <3>2. a[evs[e].career][evs[e].uid] = PointsOf(res[e]) /\ b[evs[e].career][evs[e].uid] = PointsOf(res[e])
      BY <3>1 DEF IsBook
    <3> QED BY <3>1, <3>2
  <2> QED BY <2>1, <2>2
<1>2. a = [c \in ids |-> a[c]] /\ b = [c \in ids |-> b[c]]
  BY DEF IsBook
<1> QED BY <1>1, <1>2

\* In the book a session's points are those of the one event it has.
LEMMA BookIs == Inv => IsBook(Book, Ids, events, results)
<1> SUFFICES ASSUME Inv PROVE IsBook(Book, Ids, events, results)
  OBVIOUS
<1>1. ASSUME NEW c \in Ids PROVE EventUids(c) = UidsOf(events, c)
  BY DEF EventUids, EventsOf, UidsOf
<1>2. Book = [c \in Ids |-> Book[c]] /\ \A c \in Ids : Book[c] = [s \in UidsOf(events, c) |-> Book[c][s]]
  BY <1>1 DEF Book
<1>3. ASSUME NEW e \in DOMAIN events
      PROVE  Book[events[e].career][events[e].uid] = PointsOf(results[e])
  <2> DEFINE c == events[e].career
             s == events[e].uid
             d == Booked(c, s)
  <2>1. e \in EventsOf(c)
    BY DEF EventsOf
  <2>2. d \in EventsOf(c) /\ events[d].uid = s
    BY <2>1 DEF Booked
  <2>3. d \in DOMAIN events /\ events[d].career = c
    BY <2>2 DEF EventsOf
  <2> HIDE DEF d
  <2>4. d = e
    BY <2>2, <2>3 DEF Inv, OncePerSession
  <2>5. c \in Ids /\ s \in EventUids(c)
    BY <2>1 DEF Inv, Belongs, EventUids
  <2>6. Book[c][s] = PointsOf(results[Booked(c, s)])
    BY <2>5 DEF Book
  <2> QED BY <2>4, <2>6 DEF d
<1> QED BY <1>2, <1>3 DEF IsBook

\* The same after a step.
LEMMA NextBookIs == Inv' => IsBook(Book', Ids', events', results')
<1>1. Inv' => IsBook(Book, Ids, events, results)'
  BY BookIs, PTL
<1> QED BY <1>1

\* What drivers started with.
LEMMA StartIs == Start = [c \in Ids |-> StartOf(drivers[c])]
BY DEF Start

\* Steps that leave the drivers and the results alone leave the ledger alone.
LEMMA LedgerStutters ==
  ASSUME Ids' = Ids, UNCHANGED <<drivers, events, results>>
  PROVE  UNCHANGED <<Start, Book>>
<1>1. Start' = Start
  BY DEF Start
<1>2. Book' = Book
  BY DEF Book, EventUids, EventsOf, Booked
<1> QED BY <1>1, <1>2

\* Imported rows are imported points.
LEMMA StartUpserted ==
  ASSUME NEW old, NEW new
  PROVE  StartOf(Upserted(old, new)) = Upserted(StartOf(old), StartOf(new))
BY DEF StartOf, Upserted

-----------------------------------------------------------------------------
\* A new career is opened in the ledger.
LEMMA CreateOpens ==
  ASSUME Inv, NEW a \in Keys, NEW b \in Keys, CreateCareer(a, b)
  PROVE  Ledger!Open
<1> DEFINE n == Len(careers) + 1
           none == <<>>
           S == Upserted(Start, Only(n, none))
           B == Upserted(Book, Only(n, none))
<1>1. Inv'
  BY CreateInv
<1>2. /\ Len(careers) \in Nat /\ Ids = 1..Len(careers) /\ DOMAIN drivers = Ids /\ drivers \in Seq(Table(Keys, DriverRow))
  BY RowsDomains DEF Inv, Rows
<1>3. Len(drivers) = Len(careers)
  BY DEF Inv, Rows
<1>4. Len(careers') = n /\ DOMAIN careers' = Ids \cup {n} /\ n \in 1..MaxCareers /\ n \notin Ids
  <2>1. careers \in Seq(CareerRow) /\ [a |-> a, b |-> b, round |-> 0] \in CareerRow
    BY DEF Inv, Rows, CareerRow
  <2> DEFINE row == [a |-> a, b |-> b, round |-> 0]
  <2>2. careers' = Append(careers, row) /\ Len(careers) < MaxCareers
    BY DEF CreateCareer
  <2> HIDE DEF row
  <2>3. Len(careers') = Len(careers) + 1 /\ DOMAIN careers' = DOMAIN careers \cup {Len(careers) + 1}
    BY <2>1, <2>2, Appended DEF row
  <2> QED BY <1>2, <2>2, <2>3, CareerAssumption DEF Ids
<1>5. drivers'[n] = none /\ \A j \in Ids : drivers'[j] = drivers[j]
  <2> HIDE DEF none
  <2> DEFINE T == Table(Keys, DriverRow)
  <2>1. none \in T
    BY EmptyTable DEF none
  <2>2. drivers' = Append(drivers, none) /\ drivers \in Seq(T)
    BY <1>2 DEF CreateCareer, none
  <2> HIDE DEF T
  <2>3. drivers'[Len(drivers) + 1] = none /\ \A j \in DOMAIN drivers : drivers'[j] = drivers[j]
    BY <2>1, <2>2, Appended
  <2> QED BY <1>2, <1>3, <2>3
<1>6. Ids' = Ids \cup {n}
  BY <1>4 DEF Ids
<1>7. none = [k \in {} |-> k] /\ StartOf(none) = none
  BY DEF StartOf
<1> HIDE DEF none, n
<1>8. Start' = S
  <2>1. Start' = [c \in Ids' |-> StartOf(drivers'[c])]
    BY DEF Start
  <2>2. \A c \in Ids' : StartOf(drivers'[c]) = IF c = n THEN none ELSE StartOf(drivers[c])
    BY <1>5, <1>6, <1>7
  <2>3. S = [c \in Ids \cup {n} |-> IF c = n THEN none ELSE StartOf(drivers[c])]
    BY <1>4, StartIs DEF Upserted, Only
  <2> QED BY <1>6, <2>1, <2>2, <2>3
<1>9. Book' = B
  <2>1. IsBook(Book, Ids, events, results) /\ IsBook(Book', Ids', events', results')
    BY <1>1, BookIs, NextBookIs
  <2>2. events' = events /\ results' = results
    BY DEF CreateCareer
  <2>3. \A e \in DOMAIN events : events[e].career \in Ids
    BY DEF Inv, Belongs
  <2>4. Book = [c \in Ids |-> Book[c]]
    BY <2>1 DEF IsBook
  <2>5. B = [c \in Ids \cup {n} |-> B[c]] /\ B[n] = none /\ \A c \in Ids : B[c] = Book[c]
    <3>1. DOMAIN Book = Ids
      BY <2>4
    <3> QED BY <1>4, <3>1 DEF Upserted, Only
  <2>6. UidsOf(events, n) = {}
    BY <1>4, <2>3 DEF UidsOf
  <2> HIDE DEF B
  <2>7. ASSUME NEW c \in Ids \cup {n} PROVE B[c] = [s \in UidsOf(events, c) |-> B[c][s]]
    <3>1. CASE c = n
      BY <3>1, <1>7, <2>5, <2>6
    <3>2. CASE c \in Ids
      BY <3>2, <2>1, <2>5 DEF IsBook
    <3> QED BY <3>1, <3>2
  <2>8. ASSUME NEW e \in DOMAIN events
        PROVE  B[events[e].career][events[e].uid] = PointsOf(results[e])
    BY <2>1, <2>3, <2>5 DEF IsBook
  <2>9. IsBook(B, Ids', events', results')
    BY <1>6, <2>2, <2>5, <2>7, <2>8 DEF IsBook
  <2> QED BY <2>1, <2>9, OneBook
<1>10. n \in (1..MaxCareers) \ DOMAIN Start
  BY <1>4 DEF Start
<1> QED BY <1>8, <1>9, <1>10, LedgerOpen DEF none

\* An import of rows is an import of points.
LEMMA ImportImports ==
  ASSUME Inv, NEW c, NEW pts \in [Keys -> Points], NEW r \in 0..1,
         NEW ts \in SUBSET Teams, NEW teamPts \in [ts -> Points], ImportStandings(c, pts, teamPts, r)
  PROVE  Ledger!Import
<1> DEFINE ks == {KeyOf[DriverA], KeyOf[DriverB]}
           rows == [k \in ks |-> [team |-> TeamOf[CHOOSE car \in Cars : KeyOf[car] = k], start |-> pts[k]]]
           given == [k \in ks |-> pts[k]]
<1>1. ks \in SUBSET Keys
  BY CareerAssumption DEF Keys
<1>2. given \in [ks -> Score]
  BY <1>1 DEF Score
<1>3. StartOf(rows) = given
  BY DEF StartOf
<1>4. /\ c \in Ids /\ drivers' = [drivers EXCEPT ![c] = Upserted(drivers[c], rows)]
      /\ careers' = [careers EXCEPT ![c].round = r] /\ UNCHANGED <<events, results>>
  BY RowsDomains DEF ImportStandings, Imported, Inv
<1> HIDE DEF rows, given, ks
<1>5. Ids' = Ids /\ DOMAIN drivers = Ids
  BY <1>4, RowsDomains DEF Ids, Inv
<1>6. Start' = [Start EXCEPT ![c] = Upserted(Start[c], given)]
  <2>1. Start' = [x \in Ids |-> StartOf(drivers'[x])] /\ Start = [x \in Ids |-> StartOf(drivers[x])]
    BY <1>5 DEF Start
  <2>2. StartOf(drivers'[c]) = Upserted(StartOf(drivers[c]), given)
    <3>1. drivers'[c] = Upserted(drivers[c], rows)
      BY <1>4, <1>5
    <3>2. StartOf(Upserted(drivers[c], rows)) = Upserted(StartOf(drivers[c]), StartOf(rows))
      BY StartUpserted
    <3> QED BY <1>3, <3>1, <3>2
  <2>3. \A x \in Ids : x # c => drivers'[x] = drivers[x]
    BY <1>4, <1>5
  <2>4. Start[c] = StartOf(drivers[c])
    BY <1>4, <2>1
  <2> QED BY <1>4, <2>1, <2>2, <2>3, <2>4
<1>7. UNCHANGED Book
  BY <1>4, <1>5 DEF Book, EventUids, EventsOf, Booked
<1>8. c \in DOMAIN Start
  BY <1>4 DEF Start
<1> QED BY <1>1, <1>2, <1>6, <1>7, <1>8, LedgerImport

\* A corrected row is a corrected entry.
LEMMA CorrectCorrects ==
  ASSUME Inv, NEW e, NEW k, NEW p \in Int, NEW n \in Int \cap Score, CorrectResult(e, k, p, n)
  PROVE  Ledger!Correct
<1> DEFINE c == events[e].career
           s == events[e].uid
           B == [Book EXCEPT ![c][s][k] = n]
<1>1. /\ Inv' /\ e \in DOMAIN events /\ k \in DOMAIN results[e]
      /\ DOMAIN results' = DOMAIN results
      /\ DOMAIN results'[e] = DOMAIN results[e]
      /\ results'[e][k].points = n
      /\ \A x \in DOMAIN results[e] : x # k => results'[e][x] = results[e][x]
      /\ \A d \in DOMAIN results : d # e => results'[d] = results[d]
  BY CorrectInv DEF Corrects
<1>3. UNCHANGED <<careers, drivers, events>> /\ Ids' = Ids
  BY DEF CorrectResult, Ids
<1>4. IsBook(Book, Ids, events, results) /\ IsBook(Book', Ids, events, results')
  BY <1>1, <1>3, BookIs, NextBookIs
<1>5. c \in Ids /\ s \in UidsOf(events, c)
  BY <1>1 DEF Inv, Belongs, UidsOf
<1>6. Book = [x \in Ids |-> Book[x]] /\ Book[c] = [y \in UidsOf(events, c) |-> Book[c][y]]
      /\ Book[c][s] = PointsOf(results[e])
  BY <1>1, <1>4, <1>5 DEF IsBook
<1>7. DOMAIN Book[c][s] = DOMAIN results[e] /\ k \in DOMAIN Book[c][s] /\ s \in DOMAIN Book[c] /\ c \in DOMAIN Book
  BY <1>1, <1>5, <1>6 DEF PointsOf
<1>8. PointsOf(results'[e]) = [PointsOf(results[e]) EXCEPT ![k] = n]
  <2>1. \A x \in DOMAIN results[e] : results'[e][x].points = IF x = k THEN n ELSE results[e][x].points
    BY <1>1
  <2> QED BY <1>1, <2>1 DEF PointsOf
<1>9. DOMAIN results = DOMAIN events
  BY RowsDomains DEF Inv
<1>10. /\ B = [x \in Ids |-> B[x]]
       /\ B[c] = [y \in UidsOf(events, c) |-> B[c][y]]
       /\ B[c][s] = [Book[c][s] EXCEPT ![k] = n]
       /\ \A y \in UidsOf(events, c) : y # s => B[c][y] = Book[c][y]
       /\ \A x \in Ids : x # c => B[x] = Book[x]
  <2> HIDE DEF c, s
  <2> DEFINE t == [Book[c][s] EXCEPT ![k] = n]
             u == [Book[c] EXCEPT ![s] = t]
  <2>1. B = [Book EXCEPT ![c] = u]
    OBVIOUS
  <2> HIDE DEF B, t
  <2>2. DOMAIN u = UidsOf(events, c) /\ u = [y \in UidsOf(events, c) |-> u[y]] /\ u[s] = t
        /\ \A y \in UidsOf(events, c) : y # s => u[y] = Book[c][y]
    BY <1>5, <1>6
  <2> HIDE DEF u
  <2>3. B = [x \in Ids |-> B[x]] /\ B[c] = u /\ \A x \in Ids : x # c => B[x] = Book[x]
    BY <1>5, <1>6, <2>1
  <2> QED BY <2>2, <2>3 DEF t
<1> HIDE DEF B
<1>11. IsBook(B, Ids, events, results')
  <2>1. ASSUME NEW x \in Ids PROVE B[x] = [y \in UidsOf(events, x) |-> B[x][y]]
    <3>1. Book[x] = [y \in UidsOf(events, x) |-> Book[x][y]]
      BY <1>4 DEF IsBook
    <3> HIDE DEF c, s
    <3> QED BY <1>10, <3>1
  <2>2. ASSUME NEW d \in DOMAIN events, events[d].career \in Ids
        PROVE  B[events[d].career][events[d].uid] = PointsOf(results'[d])
    <3>1. Book[events[d].career][events[d].uid] = PointsOf(results[d])
      BY <1>4, <2>2 DEF IsBook
    <3>2. CASE d = e
      BY <3>2, <1>6, <1>8, <1>10
    <3>3. CASE d # e
      <4>1. results'[d] = results[d]
        BY <3>3, <1>1, <1>9
      <4>2. events[d].career # c \/ events[d].uid # s
        BY <3>3, <1>1 DEF Inv, OncePerSession
      <4>3. events[d].uid \in UidsOf(events, events[d].career)
        BY DEF UidsOf
      <4> QED BY <2>2, <3>1, <4>1, <4>2, <4>3, <1>10
    <3> QED BY <3>2, <3>3
  <2> QED BY <1>10, <2>1, <2>2 DEF IsBook
<1>12. Book' = B
  BY <1>4, <1>11, OneBook
<1>13. UNCHANGED Start
  BY <1>3 DEF Start
<1>14. c \in DOMAIN Start
  BY <1>5 DEF Start
<1>15. Book' = [Book EXCEPT ![c][s][k] = n]
  BY <1>12 DEF B
<1> HIDE DEF c, s
<1> QED BY <1>7, <1>13, <1>14, <1>15, LedgerCorrect

\* A result, first or again, is recorded as its session's only one.
LEMMA IngestRecords ==
  ASSUME Inv, NEW c \in Ids, NEW s \in Sessions, NEW e, NEW row, NEW rows,
         Writes(c, s, e, row, rows), Inv'
  PROVE  Ledger!Record
<1> DEFINE pts == PointsOf(rows)
           t == Upserted(Book[c], Only(s, pts))
           B == [Book EXCEPT ![c] = t]
<1>1. /\ row \in EventRow /\ row.career = c /\ row.uid = s
      /\ rows \in [Keys -> Row] /\ \A k \in Keys : rows[k].points \in Score
      /\ events' = Upserted(events, Only(e, row))
      /\ results' = Upserted(results, Only(e, rows))
      /\ drivers' = [drivers EXCEPT ![c] = Enrolled(c, rows)]
      /\ careers' = [careers EXCEPT ![c].round = careers[c].round + 1]
  BY DEF Writes
<1>2. /\ e \in DOMAIN events => events[e].career = c /\ events[e].uid = s
      /\ e \notin DOMAIN events => \A d \in DOMAIN events : ~(events[d].career = c /\ events[d].uid = s)
  BY EventOfIs DEF Writes
<1>3. pts \in [Keys -> Score]
  BY <1>1 DEF PointsOf
<1>4. Ids' = Ids /\ DOMAIN drivers = Ids /\ DOMAIN results = DOMAIN events
  BY <1>1, RowsDomains DEF Ids, Inv
<1>5. DOMAIN events' = DOMAIN events \cup {e} /\ events'[e] = row
      /\ \A d \in DOMAIN events : d # e => events'[d] = events[d]
  BY <1>1 DEF Upserted, Only
<1>6. results'[e] = rows /\ \A d \in DOMAIN events : d # e => results'[d] = results[d]
  BY <1>1, <1>4 DEF Upserted, Only
<1>7. IsBook(Book, Ids, events, results) /\ IsBook(Book', Ids, events', results')
  BY <1>4, BookIs, NextBookIs
<1> HIDE DEF pts
<1>8. Start' = [Start EXCEPT ![c] = Upserted([k \in Keys |-> 0], Start[c])]
  <2> DEFINE d == Enrolled(c, rows)
             old == StartOf(drivers[c])
  <2>1. /\ DOMAIN d = DOMAIN drivers[c] \cup Keys
        /\ \A k \in DOMAIN d : d[k].start = IF k \in DOMAIN drivers[c] THEN drivers[c][k].start ELSE 0
    BY <1>1, EnrolledIs
  <2> HIDE DEF d
  <2>2. Start' = [x \in Ids |-> StartOf(drivers'[x])] /\ Start = [x \in Ids |-> StartOf(drivers[x])]
    BY <1>4 DEF Start
  <2>3. StartOf(d) = Upserted([k \in Keys |-> 0], old)
    <3>1. StartOf(d) = [k \in DOMAIN drivers[c] \cup Keys |->
                         IF k \in DOMAIN drivers[c] THEN drivers[c][k].start ELSE 0]
      BY <2>1 DEF StartOf
    <3>2. Upserted([k \in Keys |-> 0], old) = [k \in DOMAIN drivers[c] \cup Keys |->
                         IF k \in DOMAIN drivers[c] THEN drivers[c][k].start ELSE 0]
      BY DEF Upserted, StartOf
    <3> QED BY <3>1, <3>2
  <2>4. drivers'[c] = d /\ \A x \in Ids : x # c => drivers'[x] = drivers[x]
    BY <1>1, <1>4 DEF d
  <2>5. Start[c] = old
    BY <2>2
  <2> HIDE DEF old
  <2> QED BY <2>2, <2>3, <2>4, <2>5
<1>9. /\ \A x \in Ids : x # c => UidsOf(events', x) = UidsOf(events, x)
      /\ UidsOf(events', c) = UidsOf(events, c) \cup {s}
  <2>1. ASSUME NEW x \in Ids, x # c PROVE UidsOf(events', x) = UidsOf(events, x)
    <3>1. \A d : d \in DOMAIN events' /\ events'[d].career = x <=> d \in DOMAIN events /\ events[d].career = x
      BY <1>1, <1>2, <1>5, <2>1
    <3>2. \A d \in DOMAIN events : events[d].career = x => events'[d] = events[d]
      BY <1>2, <1>5, <2>1
    <3> QED BY <3>1, <3>2 DEF UidsOf
  <2>2. UidsOf(events', c) \subseteq UidsOf(events, c) \cup {s}
    <3> SUFFICES ASSUME NEW d \in DOMAIN events', events'[d].career = c
                 PROVE  events'[d].uid \in UidsOf(events, c) \cup {s}
      BY DEF UidsOf
    <3>1. CASE d = e
      BY <3>1, <1>1, <1>5
    <3>2. CASE d # e
      BY <3>2, <1>5 DEF UidsOf
    <3> QED BY <3>1, <3>2
  <2>3. UidsOf(events, c) \subseteq UidsOf(events', c)
    <3> SUFFICES ASSUME NEW d \in DOMAIN events, events[d].career = c
                 PROVE  events[d].uid \in UidsOf(events', c)
      BY DEF UidsOf
    <3>1. d \in DOMAIN events' /\ events'[d].career = c /\ events'[d].uid = events[d].uid
      <4>1. CASE d = e
        BY <4>1, <1>1, <1>2, <1>5
      <4>2. CASE d # e
        BY <4>2, <1>5
      <4> QED BY <4>1, <4>2
    <3> QED BY <3>1 DEF UidsOf
  <2>4. s \in UidsOf(events', c)
    BY <1>1, <1>5 DEF UidsOf
  <2> QED BY <2>1, <2>2, <2>3, <2>4
<1>10. Book = [x \in Ids |-> Book[x]] /\ Book[c] = [y \in UidsOf(events, c) |-> Book[c][y]]
  BY <1>7 DEF IsBook
<1>11. /\ t = [y \in UidsOf(events', c) |-> t[y]] /\ t[s] = pts
       /\ \A y \in UidsOf(events, c) : y # s => t[y] = Book[c][y]
  <2>1. DOMAIN Book[c] = UidsOf(events, c)
    BY <1>10
  <2> QED BY <1>9, <2>1 DEF Upserted, Only
<1>12. B = [x \in Ids |-> B[x]] /\ B[c] = t /\ \A x \in Ids : x # c => B[x] = Book[x]
  <2> HIDE DEF t
  <2> QED BY <1>10
<1> HIDE DEF t, B
<1>13. IsBook(B, Ids, events', results')
  <2>1. ASSUME NEW x \in Ids PROVE B[x] = [y \in UidsOf(events', x) |-> B[x][y]]
    <3>1. Book[x] = [y \in UidsOf(events, x) |-> Book[x][y]]
      BY <1>7 DEF IsBook
    <3>2. CASE x = c
      BY <3>2, <1>11, <1>12
    <3>3. CASE x # c
      <4>1. B[x] = Book[x] /\ UidsOf(events', x) = UidsOf(events, x)
        BY <3>3, <1>9, <1>12
      <4> QED BY <3>1, <4>1
    <3> QED BY <3>2, <3>3
  <2>2. ASSUME NEW d \in DOMAIN events', events'[d].career \in Ids
        PROVE  B[events'[d].career][events'[d].uid] = PointsOf(results'[d])
    <3>1. CASE d = e
      BY <3>1, <1>1, <1>5, <1>6, <1>11, <1>12 DEF pts
    <3>2. CASE d # e
      <4>1. d \in DOMAIN events /\ events'[d] = events[d] /\ results'[d] = results[d]
        BY <3>2, <1>5, <1>6
      <4>2. Book[events[d].career][events[d].uid] = PointsOf(results[d])
        BY <1>7, <2>2, <4>1 DEF IsBook
      <4>3. events[d].career # c \/ events[d].uid # s
        <5>1. CASE e \in DOMAIN events
          BY <5>1, <3>2, <4>1, <1>2 DEF Inv, OncePerSession
        <5>2. CASE e \notin DOMAIN events
          BY <5>2, <4>1, <1>2
        <5> QED BY <5>1, <5>2
      <4>4. events[d].uid \in UidsOf(events, events[d].career)
        BY <4>1 DEF UidsOf
      <4>5. B[events[d].career][events[d].uid] = Book[events[d].career][events[d].uid]
        <5>1. CASE events[d].career = c
          BY <5>1, <4>3, <4>4, <1>11, <1>12
        <5>2. CASE events[d].career # c
          BY <5>2, <2>2, <4>1, <1>12
        <5> QED BY <5>1, <5>2
      <4> QED BY <4>1, <4>2, <4>5
    <3> QED BY <3>1, <3>2
  <2> QED BY <1>12, <2>1, <2>2 DEF IsBook
<1>14. Book' = [Book EXCEPT ![c] = Upserted(Book[c], Only(s, pts))]
  BY <1>7, <1>13, OneBook DEF B, t
<1>15. c \in DOMAIN Start
  BY DEF Start
<1>16. Keys \in SUBSET Keys
  OBVIOUS
<1> QED BY <1>3, <1>8, <1>14, <1>15, <1>16, LedgerRecord

\* Each step is a step of the ledger or leaves it alone.
LEMMA LedgerNext == Inv /\ [Next]_vars => [Ledger!Next]_<<Start, Book>>
<1> SUFFICES ASSUME Inv, [Next]_vars PROVE Ledger!Next \/ UNCHANGED <<Start, Book>>
  OBVIOUS
<1> USE DEF Ledger!Next
<1>1. ASSUME NEW pair \in Pairs, CreateCareer(pair[1], pair[2]) PROVE Ledger!Open
  <2>1. pair[1] \in Keys /\ pair[2] \in Keys
    BY CareerAssumption
  <2> QED BY <1>1, <2>1, CreateOpens
<1>2. ASSUME NEW c, ActivateCareer(c) PROVE UNCHANGED <<Start, Book>>
  BY <1>2, LedgerStutters DEF ActivateCareer, tables, Ids
<1>3. ASSUME NEW c \in 1..MaxCareers, NEW pts \in [Keys -> Points], NEW r \in 0..1, NEW ts \in SUBSET Teams,
             NEW teamPts \in [ts -> Points], ImportStandings(c, pts, teamPts, r)
      PROVE  Ledger!Import
  BY <1>3, ImportImports
<1>4. ASSUME NEW e, NEW k, NEW ch \in Corrections, CorrectResult(e, k, ch[1], ch[2]) PROVE Ledger!Correct
  <2>1. ch[1] \in Int /\ ch[2] \in Int
    BY CareerAssumption
  <2>2. ch[2] \in Int \cap Score
    BY <2>1 DEF Score
  <2> QED BY <1>4, <2>1, <2>2, CorrectCorrects
<1>5. ASSUME NEW s \in Sessions, StartSession(s) PROVE UNCHANGED <<Start, Book>>
  BY <1>5, LedgerStutters DEF StartSession, tables, Ids
<1>6. ASSUME NEW p, NEW out, Classify(p, out) PROVE UNCHANGED <<Start, Book>>
  BY <1>6, LedgerStutters DEF Classify, tables, Ids
<1>7. ASSUME NotExported PROVE UNCHANGED <<Start, Book>>
  BY <1>7, LedgerStutters DEF NotExported, tables, Ids
<1>8. ASSUME Ingest PROVE Ledger!Record \/ UNCHANGED <<Start, Book>>
  <2>1. CASE active # None /\ NamesDiffer
    <3>1. active \in Ids /\ pending.uid \in Sessions
      BY <1>8, <2>1 DEF Inv, Service, Ingest
    <3>2. IngestEvent(active, pending.uid, pending.out)
      BY <1>8, <2>1 DEF Ingest
    <3>3. PICK e, row, rows : Writes(active, pending.uid, e, row, rows)
      BY <3>1, <3>2, IngestWrites
    <3>4. Inv'
      BY <1>8, NextInv DEF Next
    <3> QED BY <3>1, <3>3, <3>4, IngestRecords
  <2>2. CASE ~(active # None /\ NamesDiffer)
    BY <1>8, <2>2, LedgerStutters DEF Ingest, tables, Ids
  <2> QED BY <2>1, <2>2
<1>9. CASE UNCHANGED vars
  BY <1>9, LedgerStutters DEF vars, tables, Ids
<1> QED BY <1>1, <1>2, <1>3, <1>4, <1>5, <1>6, <1>7, <1>8, <1>9 DEF Next

\* The database implements the ledger: whatever order creations, imports, corrections and classified
\* sessions come in, a session classified again replaces its own points only, and no other step
\* moves a point (career.py:267-330).
THEOREM ImplementsLedger == Spec => KeepsTheLedger
<1>1. Init => Ledger!Init
  <2> SUFFICES ASSUME Init PROVE Start = <<>> /\ Book = <<>>
    BY LedgerInit
  <2>1. Ids = {}
    BY DEF Init, Ids
  <2> QED BY <2>1 DEF Start, Book
<1>2. Inv /\ [Next]_vars => [Ledger!Next]_<<Start, Book>>
  BY LedgerNext
<1>3. Spec => Ledger!Init /\ [][Ledger!Next]_<<Start, Book>>
  BY <1>1, <1>2, Invariance, PTL DEF Spec
<1> QED BY <1>3, LedgerSpec

-----------------------------------------------------------------------------
\* One element of a set, as SumFunctionOnSet picks it, and the others.
Pick(s) == CHOOSE x \in s : TRUE
Others(s) == s \ {Pick(s)}
Recurs(it, f, S) == it = [s \in SUBSET S |-> IF s = {} THEN 0 ELSE f[Pick(s)] + it[Others(s)]]
Sum(f, S) == SumFunctionOnSet(f, S)

\* The sum is the value of the recursion the fold is defined by.
LEMMA SumIs ==
  ASSUME NEW f, NEW S
  PROVE  Sum(f, S) = (CHOOSE it : Recurs(it, f, S))[S]
BY DEF Sum, SumFunctionOnSet, FoldFunctionOnSet, MapThenFoldSet, Recurs, Pick, Others

\* What is left of a set when an element is picked.
LEMMA OthersIs ==
  ASSUME NEW s, IsFiniteSet(s), s # {}
  PROVE  /\ Pick(s) \in s /\ Others(s) \subseteq s /\ IsFiniteSet(Others(s))
         /\ Cardinality(s) \in Nat /\ Cardinality(Others(s)) \in Nat
         /\ Cardinality(Others(s)) = Cardinality(s) - 1
<1>1. Pick(s) \in s
  BY DEF Pick
<1>2. Others(s) = s \ {Pick(s)}
  BY DEF Others
<1> QED BY <1>1, <1>2, FS_CardinalityType, FS_RemoveElement

\* A set of natural numbers has a least one.
LEMMA Least ==
  ASSUME NEW B \in SUBSET Nat, B # {}
  PROVE  \E n \in B : \A m \in B : n <= m
<1> DEFINE R == OpToRel(<, Nat)
<1>1. IsWellFoundedOn(R, Nat)
  BY NatLessThanWellFounded
<1>2. \A m, n \in Nat : m < n => <<m, n>> \in R
  BY DEF OpToRel
<1> HIDE DEF R
<1>3. PICK n \in B : \A m \in B : ~ (<<m, n>> \in R)
  BY <1>1, WFMin
<1>4. ASSUME NEW m \in B PROVE n <= m
  <2>1. m \in Nat /\ n \in Nat /\ ~(m < n)
    BY <1>2, <1>3
  <2> QED BY <2>1
<1> QED BY <1>4

\* The function a sum recurs with exists, by induction on the sizes of the subsets.
LEMMA RecursionExists ==
  ASSUME NEW f, NEW S, IsFiniteSet(S)
  PROVE  \E it : Recurs(it, f, S)
<1> DEFINE Small(n) == {s \in SUBSET S : Cardinality(s) <= n}
           Up(it, n) == it = [s \in Small(n) |-> IF s = {} THEN 0 ELSE f[Pick(s)] + it[Others(s)]]
           Bad == {n \in Nat : ~ \E it : Up(it, n)}
<1>1. \A s \in SUBSET S : IsFiniteSet(s) /\ Cardinality(s) \in Nat
  BY FS_Subset, FS_CardinalityType
<1>2. \A s \in SUBSET S : s # {} => Others(s) \in SUBSET S /\ Cardinality(Others(s)) = Cardinality(s) - 1
  BY <1>1, OthersIs
<1>3. \A s \in SUBSET S : Cardinality(s) = 0 <=> s = {}
  BY <1>1, FS_EmptySet
<1>4. Bad = {}
  <2> SUFFICES ASSUME Bad # {} PROVE FALSE
    OBVIOUS
  <2>1. PICK n \in Bad : \A m \in Bad : n <= m
    BY Least
  <2>2. n # 0
    <3> DEFINE it == [s \in Small(0) |-> 0]
    <3>1. \A s \in Small(0) : s = {}
      BY <1>1, <1>3
    <3>2. Up(it, 0)
      BY <3>1
    <3> QED BY <3>2
  <2>3. n - 1 \in Nat /\ n - 1 \notin Bad
    <3>1. n \in Nat
      OBVIOUS
    <3> HIDE DEF Bad
    <3> QED BY <2>1, <2>2, <3>1
  <2>4. PICK g : Up(g, n - 1)
    BY <2>3
  <2> DEFINE it == [s \in Small(n) |-> IF s = {} THEN 0 ELSE f[Pick(s)] + g[Others(s)]]
  <2>5. ASSUME NEW s \in Small(n - 1) PROVE it[s] = g[s]
    <3>1. s \in Small(n)
      BY <1>1, <2>3
    <3> QED BY <2>4, <3>1
  <2>6. ASSUME NEW s \in Small(n), s # {} PROVE it[Others(s)] = g[Others(s)]
    <3>1. Others(s) \in Small(n - 1)
      BY <1>1, <1>2, <2>6, <2>3
    <3> QED BY <2>5, <3>1
  <2>7. Up(it, n)
    BY <2>6
  <2> QED BY <2>1, <2>7
<1>5. Cardinality(S) \in Nat
  BY FS_CardinalityType
<1>6. PICK it : Up(it, Cardinality(S))
  BY <1>4, <1>5
<1>7. Small(Cardinality(S)) = SUBSET S
  BY FS_Subset, <1>1
<1>8. Recurs(it, f, S)
  BY <1>6, <1>7 DEF Recurs
<1> QED BY <1>8

\* Two recursions agree where their values do.
LEMMA RecursionsAgree ==
  ASSUME NEW f, NEW g, NEW S, NEW T \in SUBSET S, IsFiniteSet(S), NEW it, Recurs(it, f, S),
         NEW jt, Recurs(jt, g, T), \A x \in T : f[x] = g[x]
  PROVE  \A s \in SUBSET T : it[s] = jt[s]
<1> DEFINE Bad == {n \in Nat : \E s \in SUBSET T : Cardinality(s) = n /\ it[s] # jt[s]}
<1>1. \A s \in SUBSET T : s \in SUBSET S /\ IsFiniteSet(s) /\ Cardinality(s) \in Nat
  BY FS_Subset, FS_CardinalityType
<1>2. ASSUME NEW s \in SUBSET T
      PROVE  /\ it[s] = IF s = {} THEN 0 ELSE f[Pick(s)] + it[Others(s)]
             /\ jt[s] = IF s = {} THEN 0 ELSE g[Pick(s)] + jt[Others(s)]
  BY <1>1 DEF Recurs
<1>3. Bad = {}
  <2> SUFFICES ASSUME Bad # {} PROVE FALSE
    OBVIOUS
  <2>1. PICK n \in Bad : \A m \in Bad : n <= m
    BY Least
  <2>2. n \in Nat
    OBVIOUS
  <2>3. PICK s \in SUBSET T : Cardinality(s) = n /\ it[s] # jt[s]
    OBVIOUS
  <2>4. s # {}
    BY <1>2, <2>3
  <2>5. /\ Pick(s) \in T /\ Others(s) \in SUBSET T
        /\ Cardinality(Others(s)) = n - 1 /\ n - 1 \in Nat
    BY <1>1, <2>3, <2>4, OthersIs
  <2>6. n - 1 \notin Bad
    <3> HIDE DEF Bad
    <3> QED BY <2>1, <2>2
  <2>7. it[Others(s)] = jt[Others(s)]
    BY <2>5, <2>6
  <2> QED BY <1>2, <2>3, <2>4, <2>5, <2>7
<1>4. ASSUME NEW s \in SUBSET T PROVE it[s] = jt[s]
  BY <1>1, <1>3
<1> QED BY <1>4

\* Sums are values of such a function.
LEMMA SumRecurs ==
  ASSUME NEW f, NEW S, IsFiniteSet(S)
  PROVE  \E it : Recurs(it, f, S) /\ Sum(f, S) = it[S]
<1>1. Recurs(CHOOSE it : Recurs(it, f, S), f, S)
  BY RecursionExists
<1> QED BY <1>1, SumIs

\* Nothing sums to 0.
LEMMA SumEmpty ==
  ASSUME NEW f
  PROVE  Sum(f, {}) = 0
<1>1. PICK it : Recurs(it, f, {}) /\ Sum(f, {}) = it[{}]
  BY SumRecurs, FS_EmptySet
<1> QED BY <1>1 DEF Recurs

\* A sum is one summand and the sum of the others.
LEMMA SumStep ==
  ASSUME NEW f, NEW S, IsFiniteSet(S), S # {}
  PROVE  Sum(f, S) = f[Pick(S)] + Sum(f, Others(S))
<1> DEFINE T == Others(S)
<1>1. T \in SUBSET S /\ IsFiniteSet(T)
  BY OthersIs
<1>2. PICK it : Recurs(it, f, S) /\ Sum(f, S) = it[S]
  BY SumRecurs
<1>3. PICK jt : Recurs(jt, f, T) /\ Sum(f, T) = jt[T]
  BY <1>1, SumRecurs
<1>4. it[T] = jt[T]
  BY <1>1, <1>2, <1>3, RecursionsAgree
<1>5. it[S] = f[Pick(S)] + it[T]
  BY <1>2 DEF Recurs
<1> QED BY <1>2, <1>3, <1>4, <1>5

\* Sums of the same values.
LEMMA SumSame ==
  ASSUME NEW f, NEW g, NEW S, IsFiniteSet(S), \A x \in S : f[x] = g[x]
  PROVE  Sum(f, S) = Sum(g, S)
<1>1. PICK it : Recurs(it, f, S) /\ Sum(f, S) = it[S]
  BY SumRecurs
<1>2. PICK jt : Recurs(jt, g, S) /\ Sum(g, S) = jt[S]
  BY SumRecurs
<1>3. S \in SUBSET S
  OBVIOUS
<1>4. \A s \in SUBSET S : it[s] = jt[s]
  BY <1>1, <1>2, <1>3, RecursionsAgree
<1> QED BY <1>1, <1>2, <1>3, <1>4

\* Sums of integers are integers.
LEMMA SumInt ==
  ASSUME NEW f, NEW S, IsFiniteSet(S), \A x \in S : f[x] \in Int
  PROVE  Sum(f, S) \in Int
<1> DEFINE Bad == {n \in Nat : \E s \in SUBSET S : Cardinality(s) = n /\ Sum(f, s) \notin Int}
<1>1. \A s \in SUBSET S : IsFiniteSet(s) /\ Cardinality(s) \in Nat
  BY FS_Subset, FS_CardinalityType
<1>2. Bad = {}
  <2> SUFFICES ASSUME Bad # {} PROVE FALSE
    OBVIOUS
  <2>1. PICK n \in Bad : \A m \in Bad : n <= m
    BY Least
  <2>2. n \in Nat
    OBVIOUS
  <2>3. PICK s \in SUBSET S : Cardinality(s) = n /\ Sum(f, s) \notin Int
    OBVIOUS
  <2>4. s # {}
    BY <2>3, SumEmpty
  <2>5. /\ Pick(s) \in S /\ Others(s) \in SUBSET S
        /\ Cardinality(Others(s)) = n - 1 /\ n - 1 \in Nat
    BY <1>1, <2>3, <2>4, OthersIs
  <2>6. n - 1 \notin Bad
    <3> HIDE DEF Bad
    <3> QED BY <2>1, <2>2
  <2>7. Sum(f, Others(s)) \in Int
    BY <2>5, <2>6
  <2>8. Sum(f, s) = f[Pick(s)] + Sum(f, Others(s))
    BY <1>1, <2>4, SumStep
  <2> QED BY <2>3, <2>5, <2>7, <2>8
<1> QED BY <1>1, <1>2

\* The order of the summands does not matter: any of them can be taken out.
LEMMA SumRemove ==
  ASSUME NEW f, NEW S, IsFiniteSet(S), \A x \in S : f[x] \in Int, NEW x \in S
  PROVE  Sum(f, S) = f[x] + Sum(f, S \ {x})
<1> DEFINE Right(s) == \A y \in s : Sum(f, s) = f[y] + Sum(f, s \ {y})
<1> HIDE DEF Right
<1> DEFINE Bad == {n \in Nat : \E s \in SUBSET S : Cardinality(s) = n /\ ~Right(s)}
<1>1. \A s \in SUBSET S : IsFiniteSet(s) /\ Cardinality(s) \in Nat /\ Sum(f, s) \in Int
  BY FS_Subset, FS_CardinalityType, SumInt
<1>2. Bad = {}
  <2> SUFFICES ASSUME Bad # {} PROVE FALSE
    OBVIOUS
  <2>1. PICK n \in Bad : \A m \in Bad : n <= m
    BY Least
  <2>2. n \in Nat
    OBVIOUS
  <2>3. PICK s \in SUBSET S : Cardinality(s) = n /\ ~Right(s)
    OBVIOUS
  <2>4. PICK y \in s : Sum(f, s) # f[y] + Sum(f, s \ {y})
    BY <2>3 DEF Right
  <2> DEFINE p == Pick(s)
  <2>5. p \in s /\ Others(s) = s \ {p} /\ Sum(f, s) = f[p] + Sum(f, s \ {p})
    BY <1>1, <2>4, SumStep DEF Pick, Others
  <2> HIDE DEF p
  <2>6. n - 1 \in Nat /\ \A z \in s : Cardinality(s \ {z}) = n - 1
    <3>1. IsFiniteSet(s) /\ s # {}
      BY <1>1, <2>4
    <3>2. n - 1 \in Nat
      BY <2>3, <3>1, OthersIs
    <3>3. \A z \in s : Cardinality(s \ {z}) = Cardinality(s) - 1
      BY <3>1, FS_RemoveElement
    <3> QED BY <2>3, <3>2, <3>3
  <2>7. n - 1 \notin Bad
    <3> HIDE DEF Bad
    <3> QED BY <2>1, <2>2
  <2>8. \A z \in s : Right(s \ {z})
    BY <2>6, <2>7
  <2>9. p # y
    BY <2>4, <2>5
  <2>10. Sum(f, s \ {p}) = f[y] + Sum(f, (s \ {p}) \ {y})
    BY <2>5, <2>8, <2>9 DEF Right
  <2>11. Sum(f, s \ {y}) = f[p] + Sum(f, (s \ {y}) \ {p})
    BY <2>5, <2>8, <2>9 DEF Right
  <2>12. (s \ {p}) \ {y} = (s \ {y}) \ {p}
    OBVIOUS
  <2>13. f[p] \in Int /\ f[y] \in Int /\ Sum(f, (s \ {y}) \ {p}) \in Int
    BY <1>1, <2>5
  <2> DEFINE X == Sum(f, (s \ {y}) \ {p})
  <2>14. Sum(f, s \ {p}) = f[y] + X /\ Sum(f, s \ {y}) = f[p] + X /\ X \in Int
    BY <2>10, <2>11, <2>12, <2>13
  <2> HIDE DEF X
  <2>15. Sum(f, s) = f[p] + (f[y] + X)
    BY <2>5, <2>14
  <2>16. f[y] + Sum(f, s \ {y}) = f[y] + (f[p] + X)
    BY <2>14
  <2> QED BY <2>4, <2>13, <2>14, <2>15, <2>16
<1>3. Right(S)
  BY <1>1, <1>2
<1> QED BY <1>3 DEF Right

\* Summing over another index.
LEMMA SumReindexed ==
  ASSUME NEW f, NEW S, IsFiniteSet(S), \A x \in S : f[x] \in Int, NEW g, NEW T, NEW h,
         \A x \in S : h[x] \in T /\ f[x] = g[h[x]],
         \A x, y \in S : h[x] = h[y] => x = y,
         \A y \in T : \E x \in S : h[x] = y
  PROVE  Sum(f, S) = Sum(g, T)
<1> DEFINE Image(s) == {h[x] : x \in s}
           Bad == {n \in Nat : \E s \in SUBSET S : Cardinality(s) = n /\ Sum(f, s) # Sum(g, Image(s))}
<1>1. \A s \in SUBSET S : IsFiniteSet(s) /\ Cardinality(s) \in Nat
  BY FS_Subset, FS_CardinalityType
<1>2. \A s \in SUBSET S : IsFiniteSet(Image(s)) /\ \A y \in Image(s) : g[y] \in Int
  <2> SUFFICES ASSUME NEW s \in SUBSET S PROVE IsFiniteSet(Image(s)) /\ \A y \in Image(s) : g[y] \in Int
    OBVIOUS
  <2>1. IsFiniteSet(s)
    BY <1>1
  <2> DEFINE m == [x \in s |-> h[x]]
  <2>2. m \in Surjection(s, Image(s))
    BY DEF Surjection
  <2>3. IsFiniteSet(Image(s))
    BY <2>1, <2>2, FS_Surjection
  <2> QED BY <2>3
<1>3. Bad = {}
  <2> SUFFICES ASSUME Bad # {} PROVE FALSE
    OBVIOUS
  <2>1. PICK n \in Bad : \A m \in Bad : n <= m
    BY Least
  <2>2. n \in Nat
    OBVIOUS
  <2>3. PICK s \in SUBSET S : Cardinality(s) = n /\ Sum(f, s) # Sum(g, Image(s))
    OBVIOUS
  <2>4. s # {}
    <3>1. Image({}) = {}
      OBVIOUS
    <3> QED BY <2>3, <3>1, SumEmpty
  <2>5. /\ Pick(s) \in S /\ Others(s) \in SUBSET S /\ Pick(s) \in s /\ Others(s) = s \ {Pick(s)}
        /\ Cardinality(Others(s)) = n - 1 /\ n - 1 \in Nat
    <3>1. IsFiniteSet(s) /\ Cardinality(s) = n
      BY <1>1, <2>3
    <3>2. Pick(s) \in s /\ Cardinality(Others(s)) = n - 1 /\ n - 1 \in Nat
      BY <2>4, <3>1, OthersIs
    <3>3. Others(s) = s \ {Pick(s)}
      BY DEF Others
    <3> QED BY <3>2, <3>3
  <2>6. n - 1 \notin Bad
    <3> HIDE DEF Bad
    <3> QED BY <2>1, <2>2
  <2>7. Sum(f, Others(s)) = Sum(g, Image(Others(s)))
    BY <2>5, <2>6
  <2>8. Image(Others(s)) = Image(s) \ {h[Pick(s)]}
    BY <2>5
  <2>9. Sum(f, s) = f[Pick(s)] + Sum(f, Others(s))
    BY <1>1, <2>4, SumStep
  <2>10. Sum(g, Image(s)) = g[h[Pick(s)]] + Sum(g, Image(s) \ {h[Pick(s)]})
    <3> DEFINE I == Image(s)
    <3>1. IsFiniteSet(I) /\ \A y \in I : g[y] \in Int
      BY <1>2
    <3>2. h[Pick(s)] \in I
      BY <2>5
    <3> HIDE DEF I
    <3>3. Sum(g, I) = g[h[Pick(s)]] + Sum(g, I \ {h[Pick(s)]})
      BY <3>1, <3>2, SumRemove
    <3> QED BY <3>3 DEF I
  <2> QED BY <2>3, <2>5, <2>7, <2>8, <2>9, <2>10
<1>4. Image(S) = T
  OBVIOUS
<1>5. Sum(f, S) = Sum(g, Image(S))
  BY <1>1, <1>3
<1> QED BY <1>4, <1>5

-----------------------------------------------------------------------------
\* Totals are sums over the events of a career, and over its sessions.
LEMMA TotalsAre ==
  ASSUME NEW c, NEW k
  PROVE  /\ DriverPoints(c, k) =
              drivers[c][k].start + Sum([e \in {e \in EventsOf(c) : k \in DOMAIN results[e]} |-> results[e][k].points],
                                        {e \in EventsOf(c) : k \in DOMAIN results[e]})
         /\ Ledger!Total(c, k) =
              Start[c][k] + Sum([s \in {s \in DOMAIN Book[c] : k \in DOMAIN Book[c][s]} |-> Book[c][s][k]],
                                {s \in DOMAIN Book[c] : k \in DOMAIN Book[c][s]})
<1>1. DriverPoints(c, k) =
        drivers[c][k].start + Sum([e \in {e \in EventsOf(c) : k \in DOMAIN results[e]} |-> results[e][k].points],
                                  {e \in EventsOf(c) : k \in DOMAIN results[e]})
  BY DEF DriverPoints, SumFunction, Sum
<1>2. Ledger!Total(c, k) =
        Start[c][k] + Sum([s \in {s \in DOMAIN Book[c] : k \in DOMAIN Book[c][s]} |-> Book[c][s][k]],
                          {s \in DOMAIN Book[c] : k \in DOMAIN Book[c][s]})
  BY DEF Ledger!Total, Start, StartOf, Book, PointsOf, Sum, SumFunctionOnSet, FoldFunctionOnSet, MapThenFoldSet,
         Ledger!SumFunction, Ledger!SumFunctionOnSet, Ledger!FoldFunctionOnSet, Ledger!MapThenFoldSet
<1> QED BY <1>1, <1>2

\* The sums are of finitely many integers.
LEMMA TablesFinite ==
  ASSUME Inv
  PROVE  /\ \A c : IsFiniteSet(EventsOf(c)) /\ EventsOf(c) \subseteq DOMAIN events
         /\ \A e \in DOMAIN events : IsFiniteSet(DOMAIN results[e]) /\ DOMAIN results[e] \subseteq Keys
         /\ \A e \in DOMAIN events : \A k \in DOMAIN results[e] : results[e][k].points \in Int
<1>1. /\ DOMAIN events = 1..Len(events) /\ Len(events) \in Nat
      /\ \A e \in DOMAIN events : results[e] \in Table(Keys, Row)
  BY RowsDomains DEF Inv
<1>2. IsFiniteSet(DOMAIN events)
  BY <1>1, FS_Interval
<1>3. ASSUME NEW c PROVE IsFiniteSet(EventsOf(c)) /\ EventsOf(c) \subseteq DOMAIN events
  <2>1. EventsOf(c) \in SUBSET DOMAIN events
    BY DEF EventsOf
  <2> QED BY <1>2, <2>1, FS_Subset
<1>4. IsFiniteSet(Keys)
  <2> DEFINE m == [car \in Cars |-> KeyOf[car]]
  <2>1. m \in Surjection(Cars, Keys)
    BY DEF Surjection, Keys
  <2> QED BY <2>1, FS_Surjection, CareerAssumption
<1>5. ASSUME NEW e \in DOMAIN events
      PROVE  /\ IsFiniteSet(DOMAIN results[e]) /\ DOMAIN results[e] \subseteq Keys
             /\ \A k \in DOMAIN results[e] : results[e][k].points \in Int
  <2>1. results[e] \in [DOMAIN results[e] -> Row] /\ DOMAIN results[e] \subseteq Keys
    BY <1>1, TableIs
  <2>2. IsFiniteSet(DOMAIN results[e])
    BY <1>4, <2>1, FS_Subset
  <2>3. \A k \in DOMAIN results[e] : results[e][k].points \in Int
    BY <2>1 DEF Row
  <2> QED BY <2>1, <2>2, <2>3
<1> QED BY <1>3, <1>5

\* A driver's results over events are its results over sessions, one to one.
LEMMA StandingsMatch == Inv => StandingsAreTheLedger
<1> SUFFICES ASSUME Inv, NEW c \in Ids, NEW k \in DOMAIN drivers[c]
             PROVE  DriverPoints(c, k) = Ledger!Total(c, k)
  BY DEF StandingsAreTheLedger
<1> DEFINE E == {e \in EventsOf(c) : k \in DOMAIN results[e]}
           T == {s \in DOMAIN Book[c] : k \in DOMAIN Book[c][s]}
           f == [e \in E |-> results[e][k].points]
           g == [s \in T |-> Book[c][s][k]]
           h == [e \in E |-> events[e].uid]
<1>1. IsBook(Book, Ids, events, results)
  BY BookIs
<1>2. /\ Book[c] = [s \in UidsOf(events, c) |-> Book[c][s]]
      /\ \A e \in EventsOf(c) : Book[c][events[e].uid] = PointsOf(results[e])
  BY <1>1 DEF IsBook, EventsOf
<1>3. DOMAIN Book[c] = UidsOf(events, c)
  BY <1>2
<1>4. \A e \in EventsOf(c) : events[e].uid \in DOMAIN Book[c]
  BY <1>3 DEF UidsOf, EventsOf
<1>5. \A s \in DOMAIN Book[c] : \E e \in EventsOf(c) : events[e].uid = s
  BY <1>3 DEF UidsOf, EventsOf
<1>6. IsFiniteSet(E)
  <2>1. IsFiniteSet(EventsOf(c)) /\ E \in SUBSET EventsOf(c)
    BY TablesFinite
  <2> QED BY <2>1, FS_Subset
<1>7. \A e \in E : f[e] \in Int
  BY TablesFinite
<1>8. ASSUME NEW e \in E PROVE h[e] \in T /\ f[e] = g[h[e]]
  <2> DEFINE s == events[e].uid
  <2>1. s \in DOMAIN Book[c] /\ Book[c][s] = PointsOf(results[e])
    BY <1>2, <1>4
  <2>2. DOMAIN PointsOf(results[e]) = DOMAIN results[e] /\ PointsOf(results[e])[k] = results[e][k].points
    BY DEF PointsOf
  <2>3. s \in T /\ Book[c][s][k] = results[e][k].points
    BY <2>1, <2>2
  <2> QED BY <2>3
<1>9. \A x, y \in E : h[x] = h[y] => x = y
  BY DEF Inv, OncePerSession, EventsOf
<1>10. ASSUME NEW s \in T PROVE \E e \in E : h[e] = s
  <2>1. PICK e \in EventsOf(c) : events[e].uid = s
    BY <1>5
  <2>2. Book[c][s] = PointsOf(results[e])
    BY <1>2, <2>1
  <2>3. k \in DOMAIN results[e]
    BY <2>2 DEF PointsOf
  <2> QED BY <2>1, <2>3
<1>11. drivers[c][k].start = Start[c][k]
  BY DEF Start, StartOf
<1>12. DriverPoints(c, k) = drivers[c][k].start + Sum(f, E) /\ Ledger!Total(c, k) = Start[c][k] + Sum(g, T)
  BY TotalsAre
<1> HIDE DEF E, T, f, g, h
<1>13. Sum(f, E) = Sum(g, T)
  BY <1>6, <1>7, <1>8, <1>9, <1>10, SumReindexed
<1> QED BY <1>11, <1>12, <1>13

\* The standings are the ledger's totals: no interleaving of imports, repeated classifications and
\* corrections counts a row twice or leaves one out (career.py:369).
THEOREM StandingsAreRight == Spec => []StandingsAreTheLedger
BY Invariance, StandingsMatch, PTL

-----------------------------------------------------------------------------
\* What the database holds once a session it did not have yet is ingested with the given rows.
Entered(c, e, rows) ==
  /\ e \notin DOMAIN events /\ DOMAIN events' = DOMAIN events \cup {e} /\ events'[e].career = c
  /\ \A d \in DOMAIN events : events'[d] = events[d] /\ results'[d] = results[d]
  /\ results'[e] = rows /\ rows \in [Keys -> Row]
  /\ \A k \in DOMAIN drivers[c] : drivers'[c][k].start = drivers[c][k].start
  /\ bases' = bases

\* The rows of a race or sprint nobody is disqualified from are what its cars have earned.
Earns(rows) == \A car \in Cars : rows[KeyOf[car]].points = Earned(car) /\ rows[KeyOf[car]].team = TeamOf[car]

\* What ingest_event does with a session it did not have.
LEMMA IngestEnters ==
  ASSUME Inv, NEW c \in Ids, NEW s \in Sessions, IngestEvent(c, s, None), s \notin EventUids(c)
  PROVE  \E e, rows : /\ Entered(c, e, rows)
                      /\ s = live /\ TypeOf[s] \in {"race", "sprint"} /\ NamesDiffer => Earns(rows)
<1> DEFINE CarOf(k) == CHOOSE car \in Cars : KeyOf[car] = k
           new == [k \in Keys |-> ResultRow(TypeOf[s], CarOf(k), CarOf(k) # None)]
<1>1. PICK e, row, rows : Writes(c, s, e, row, rows)
  BY IngestWrites
<1>2. e \notin DOMAIN events
  <2>1. e \in DOMAIN events => events[e].career = c /\ events[e].uid = s
    BY <1>1, EventOfIs DEF Writes
  <2> QED BY <2>1 DEF EventUids, EventsOf
<1>3. /\ events' = Upserted(events, Only(e, row)) /\ results' = Upserted(results, Only(e, rows))
      /\ row.career = c /\ rows \in [Keys -> Row] /\ bases' = bases
      /\ drivers' = [drivers EXCEPT ![c] = Enrolled(c, rows)]
  BY <1>1 DEF Writes
<1>4. DOMAIN results = DOMAIN events /\ DOMAIN drivers = Ids
  BY RowsDomains DEF Inv
<1>5. DOMAIN events' = DOMAIN events \cup {e} /\ events'[e] = row
  BY <1>3 DEF Upserted, Only
<1>6. results'[e] = rows
  BY <1>3 DEF Upserted, Only
<1>7. \A d \in DOMAIN events : events'[d] = events[d]
  BY <1>2, <1>3 DEF Upserted, Only
<1>8. \A d \in DOMAIN events : results'[d] = results[d]
  BY <1>2, <1>3, <1>4 DEF Upserted, Only
<1>9. \A k \in DOMAIN drivers[c] : drivers'[c][k].start = drivers[c][k].start
  <2> DEFINE d == Enrolled(c, rows)
  <2>1. /\ DOMAIN d = DOMAIN drivers[c] \cup Keys
        /\ \A k \in DOMAIN d : d[k].start = IF k \in DOMAIN drivers[c] THEN drivers[c][k].start ELSE 0
    BY <1>3, EnrolledIs
  <2> HIDE DEF d
  <2>2. drivers'[c] = d
    BY <1>3, <1>4 DEF d
  <2> QED BY <2>1, <2>2
<1>10. Entered(c, e, rows)
  BY <1>2, <1>3, <1>5, <1>6, <1>7, <1>8, <1>9 DEF Entered
<1>11. ASSUME s = live, TypeOf[s] \in {"race", "sprint"}, NamesDiffer PROVE Earns(rows)
  <2>1. rows = new
    <3>1. e = EventOf(c, s) /\ results' = Upserted(results, Only(EventOf(c, s), new))
      BY <1>1 DEF IngestEvent, Writes
    <3> HIDE DEF new
    <3>2. results'[e] = new
      BY <3>1 DEF Upserted, Only
    <3> QED BY <1>6, <3>2
  <2> SUFFICES ASSUME NEW car \in Cars
               PROVE  rows[KeyOf[car]].points = Earned(car) /\ rows[KeyOf[car]].team = TeamOf[car]
    BY DEF Earns
  <2>2. KeyOf[car] \in Keys /\ CarOf(KeyOf[car]) = car
    <3>1. KeyOf[car] \in Keys
      BY DEF Keys
    <3>2. CarOf(KeyOf[car]) \in Cars /\ KeyOf[CarOf(KeyOf[car])] = KeyOf[car]
      OBVIOUS
    <3> QED BY <1>11, <3>1, <3>2 DEF NamesDiffer
  <2>3. car # None
    BY CareerAssumption
  <2>4. rows[KeyOf[car]] = ResultRow(TypeOf[s], car, TRUE)
    <3>1. new[KeyOf[car]] = ResultRow(TypeOf[s], CarOf(KeyOf[car]), CarOf(KeyOf[car]) # None)
      BY <2>2
    <3> HIDE DEF CarOf, new
    <3>2. (CarOf(KeyOf[car]) # None) = TRUE
      BY <2>2, <2>3
    <3> QED BY <2>1, <2>2, <3>1, <3>2
  <2>5. Scores(TypeOf[s], TRUE)
    BY <1>11 DEF Scores
  <2> QED BY <1>11, <2>4, <2>5 DEF ResultRow, Earned
<1> QED BY <1>10, <1>11

\* The points of a team in the rows of an event.
TeamSum(t, rows) == LET ks == {k \in DOMAIN rows : rows[k].team = t} IN Sum([k \in ks |-> rows[k].points], ks)

\* The cars that count for a team, and what they have earned.
CarsOf(t) == {car \in Cars : TeamOf[car] = t}
CarSum(t) == Sum([car \in CarsOf(t) |-> Earned(car)], CarsOf(t))

\* Points earned are integers.
LEMMA EarnedInt ==
  ASSUME Inv, NEW rows \in [Keys -> Row], Earns(rows)
  PROVE  \A car \in Cars : Earned(car) \in Int
<1> SUFFICES ASSUME NEW car \in Cars PROVE Earned(car) \in Int
  OBVIOUS
<1>1. rows[KeyOf[car]] \in Row
  BY DEF Keys
<1> QED BY <1>1 DEF Earns, Row

\* A driver's total grows by what the car of that key has earned.
LEMMA DriverProjected ==
  ASSUME Inv, NEW c \in Ids, NEW e, NEW rows, Entered(c, e, rows), Earns(rows), NamesDiffer,
         \A car \in Cars : CarKey(c, car) = KeyOf[car], active' = active, c = active, NEW k \in DOMAIN drivers[c]
  PROVE  DriverPoints(c, k)' = ProjectedDriver(c, k)
<1> DEFINE S == {x \in EventsOf(c) : k \in DOMAIN results[x]}
           T == S \cup {e}
           f == [x \in S |-> results[x][k].points]
           g == [x \in T |-> results'[x][k].points]
           mine == {car \in Cars : CarKey(c, car) = k}
<1>1. drivers[c] \in [DOMAIN drivers[c] -> DriverRow] /\ DOMAIN drivers[c] \subseteq Keys
  BY RowsDomains, TableIs DEF Inv
<1>2. k \in Keys /\ drivers[c][k].start \in Int
  BY <1>1 DEF DriverRow
<1>3. PICK car \in Cars : KeyOf[car] = k
  BY <1>2 DEF Keys
<1>4. mine = {car}
  BY <1>3 DEF NamesDiffer
<1>5. ProjectedDriver(c, k) = DriverPoints(c, k) + Earned(car)
  <2>1. mine # {} /\ (CHOOSE x \in mine : TRUE) = car
    BY <1>4
  <2> QED BY <2>1 DEF ProjectedDriver
<1>6. Earned(car) \in Int
  BY EarnedInt DEF Entered
<1>7. IsFiniteSet(S) /\ S \subseteq DOMAIN events
  <2>1. IsFiniteSet(EventsOf(c)) /\ EventsOf(c) \subseteq DOMAIN events /\ S \in SUBSET EventsOf(c)
    BY TablesFinite
  <2> QED BY <2>1, FS_Subset
<1>8. \A x \in S : f[x] \in Int
  BY <1>7, TablesFinite
<1>9. T = {x \in EventsOf(c)' : k \in DOMAIN results'[x]}
  <2>1. EventsOf(c)' = EventsOf(c) \cup {e}
    BY DEF EventsOf, Entered
  <2>2. DOMAIN results'[e] = Keys
    BY DEF Entered
  <2>3. \A x \in EventsOf(c) : results'[x] = results[x]
    BY DEF Entered, EventsOf
  <2> QED BY <1>2, <2>1, <2>2, <2>3
<1>10. \A x \in S : g[x] = f[x]
  BY <1>7 DEF Entered
<1>11. g[e] = Earned(car)
  BY <1>3 DEF Entered, Earns
<1>12. DriverPoints(c, k) = drivers[c][k].start + Sum(f, S)
  BY DEF DriverPoints, SumFunction, Sum
<1>13. DriverPoints(c, k)' = drivers'[c][k].start + Sum(g, T)
  BY <1>9 DEF DriverPoints, SumFunction, Sum
<1>14. e \notin S /\ IsFiniteSet(T)
  BY <1>7, FS_AddElement DEF Entered
<1>15. T \ {e} = S /\ e \in T
  BY <1>14
<1> HIDE DEF S, T, f, g
<1>16. \A x \in T : g[x] \in Int
  BY <1>6, <1>8, <1>10, <1>11 DEF T
<1>17. Sum(g, T) = g[e] + Sum(g, S)
  BY <1>14, <1>15, <1>16, SumRemove
<1>18. Sum(g, S) = Sum(f, S) /\ Sum(f, S) \in Int
  BY <1>7, <1>8, <1>10, SumSame, SumInt
<1>19. drivers'[c][k].start = drivers[c][k].start
  BY DEF Entered
<1> QED BY <1>2, <1>5, <1>6, <1>11, <1>12, <1>13, <1>17, <1>18, <1>19

\* Summing a team's rows by key and summing its cars is the same.
LEMMA TeamEarns ==
  ASSUME Inv, NEW rows \in [Keys -> Row], Earns(rows), NamesDiffer, NEW t
  PROVE  TeamSum(t, rows) = CarSum(t) /\ CarSum(t) \in Int
<1> DEFINE S == CarsOf(t)
           T == {k \in DOMAIN rows : rows[k].team = t}
           f == [car \in S |-> Earned(car)]
           g == [k \in T |-> rows[k].points]
           h == [car \in S |-> KeyOf[car]]
<1>1. IsFiniteSet(S)
  <2>1. S \in SUBSET Cars
    BY DEF CarsOf
  <2> QED BY <2>1, FS_Subset, CareerAssumption
<1>2. \A x \in S : f[x] \in Int
  BY EarnedInt DEF CarsOf
<1>3. \A x \in S : h[x] \in T /\ f[x] = g[h[x]]
  BY DEF CarsOf, Keys, Earns
<1>4. \A x, y \in S : h[x] = h[y] => x = y
  BY DEF CarsOf, NamesDiffer
<1>5. \A y \in T : \E x \in S : h[x] = y
  BY DEF CarsOf, Keys, Earns
<1>6. TeamSum(t, rows) = Sum(g, T) /\ CarSum(t) = Sum(f, S)
  BY DEF TeamSum, CarSum
<1> HIDE DEF S, T, f, g, h
<1>7. Sum(f, S) = Sum(g, T) /\ Sum(f, S) \in Int
  BY <1>1, <1>2, <1>3, <1>4, <1>5, SumReindexed, SumInt
<1> QED BY <1>6, <1>7

\* A team's total grows by what its cars have earned.
LEMMA TeamProjected ==
  ASSUME Inv, NEW c \in Ids, NEW e, NEW rows, Entered(c, e, rows), Earns(rows), NamesDiffer,
         \A car \in Cars : CarKey(c, car) = KeyOf[car], active' = active, c = active, NEW t
  PROVE  TeamPoints(c, t)' = ProjectedTeam(c, t)
<1> DEFINE S == EventsOf(c)
           T == S \cup {e}
           f == [x \in S |-> ScoredFor(t, x)]
           g == [x \in T |-> ScoredFor(t, x)']
           base == IF t \in DOMAIN bases[c] THEN bases[c][t] ELSE 0
<1>1. base \in Int
  <2>1. bases[c] \in [DOMAIN bases[c] -> Int]
    BY RowsDomains, TableIs DEF Inv
  <2> QED BY <2>1
<1>2. IsFiniteSet(S) /\ S \subseteq DOMAIN events
  BY TablesFinite
<1>3. \A x : ScoredFor(t, x) = TeamSum(t, results[x])
  BY DEF ScoredFor, TeamSum, SumFunction, Sum
<1>4. \A x : ScoredFor(t, x)' = TeamSum(t, results'[x])
  BY DEF ScoredFor, TeamSum, SumFunction, Sum
<1>5. ASSUME NEW x \in S PROVE f[x] \in Int
  <2> DEFINE ks == {k \in DOMAIN results[x] : results[x][k].team = t}
             p == [k \in ks |-> results[x][k].points]
  <2>1. IsFiniteSet(DOMAIN results[x]) /\ ks \in SUBSET DOMAIN results[x]
    BY <1>2, TablesFinite
  <2>2. IsFiniteSet(ks)
    BY <2>1, FS_Subset
  <2>3. \A k \in ks : p[k] \in Int
    BY <1>2, TablesFinite
  <2>4. Sum(p, ks) \in Int
    BY <2>2, <2>3, SumInt
  <2> QED BY <1>3, <2>4 DEF TeamSum
<1>6. \A x \in S : g[x] = f[x]
  BY <1>2, <1>3, <1>4 DEF Entered
<1>7. g[e] = CarSum(t) /\ CarSum(t) \in Int
  <2>1. results'[e] = rows /\ rows \in [Keys -> Row]
    BY DEF Entered
  <2>2. TeamSum(t, rows) = CarSum(t) /\ CarSum(t) \in Int
    BY <2>1, TeamEarns
  <2> QED BY <1>4, <2>1, <2>2
<1>8. EventsOf(c)' = T
  BY DEF EventsOf, Entered
<1>9. TeamPoints(c, t) = base + Sum(f, S)
  BY DEF TeamPoints, SumFunction, Sum
<1>10. TeamPoints(c, t)' = base + Sum(g, T)
  BY <1>8 DEF TeamPoints, SumFunction, Sum, Entered
<1>11. ProjectedTeam(c, t) = TeamPoints(c, t) + CarSum(t)
  <2>1. {car \in Cars : TeamOf[car] = t /\ CarKey(c, car) # None} = CarsOf(t)
    <3>1. \A car \in Cars : CarKey(c, car) # None
      BY CareerAssumption DEF Keys
    <3> QED BY <3>1 DEF CarsOf
  <2> QED BY <2>1 DEF ProjectedTeam, CarSum, SumFunction, Sum
<1>12. e \notin S /\ IsFiniteSet(T)
  BY <1>2, FS_AddElement DEF Entered
<1>13. T \ {e} = S /\ e \in T
  BY <1>12
<1> HIDE DEF S, T, f, g, base
<1>14. \A x \in T : g[x] \in Int
  BY <1>5, <1>6, <1>7 DEF T
<1>15. Sum(g, T) = g[e] + Sum(g, S)
  BY <1>12, <1>13, <1>14, SumRemove
<1>16. Sum(g, S) = Sum(f, S) /\ Sum(f, S) \in Int
  BY <1>2, <1>5, <1>6, SumSame, SumInt
<1> QED BY <1>1, <1>7, <1>9, <1>10, <1>11, <1>15, <1>16

\* The projection is exact in each step.
LEMMA StepProjected == Inv /\ [Next]_vars => [IngestsAsProjected]_vars
<1> SUFFICES ASSUME Inv, Ingest, tables' # tables, Projects(active), pending.uid \notin EventUids(active),
                    \A car \in Cars : CarKey(active, car) = KeyOf[car] /\ pending.out = None
             PROVE  /\ \A k \in DOMAIN drivers[active] : DriverPoints(active, k)' = ProjectedDriver(active, k)
                    /\ \A t \in Listed(active)' : TeamPoints(active, t)' = ProjectedTeam(active, t)
  BY DEF IngestsAsProjected
<1>1. pending # None /\ active' = active
  BY DEF Ingest
<1>2. active # None /\ NamesDiffer /\ IngestEvent(active, pending.uid, pending.out)
  BY DEF Ingest
<1>3. active \in Ids /\ pending.uid \in Sessions /\ pending.uid = live
  BY <1>1, <1>2 DEF Inv, Service
<1>4. pending.out = None
  BY CareerAssumption
<1>5. TypeOf[live] \in {"race", "sprint"}
  BY DEF Projects
<1>6. PICK c : c = active
  OBVIOUS
<1>7. PICK e, rows : Entered(c, e, rows) /\ Earns(rows)
  <2>1. IngestEvent(c, pending.uid, None) /\ c \in Ids /\ pending.uid \notin EventUids(c)
    BY <1>2, <1>3, <1>4, <1>6
  <2> QED BY <1>2, <1>3, <1>5, <2>1, IngestEnters
<1>8. \A car \in Cars : CarKey(c, car) = KeyOf[car]
  BY <1>6
<1>9. ASSUME NEW k \in DOMAIN drivers[active] PROVE DriverPoints(active, k)' = ProjectedDriver(active, k)
  <2>1. DriverPoints(c, k)' = ProjectedDriver(c, k)
    BY <1>1, <1>2, <1>3, <1>6, <1>7, <1>8, DriverProjected
  <2>2. DriverPoints(active, k)' = DriverPoints(c, k)'
    BY <1>1, <1>6 DEF DriverPoints
  <2> QED BY <1>6, <2>1, <2>2
<1>10. ASSUME NEW t PROVE TeamPoints(active, t)' = ProjectedTeam(active, t)
  <2>1. TeamPoints(c, t)' = ProjectedTeam(c, t)
    BY <1>1, <1>2, <1>3, <1>6, <1>7, <1>8, TeamProjected
  <2>2. TeamPoints(active, t)' = TeamPoints(c, t)'
    BY <1>1, <1>6 DEF TeamPoints
  <2> QED BY <1>6, <2>1, <2>2
<1> QED BY <1>9, <1>10

\* What the dashboard projects from the final positions is what the standings become when the
\* result is ingested, for drivers and constructors (championship.py:44, career.py:309).
THEOREM ProjectedIsIngested == Spec => ProjectionIsExact
BY Invariance, StepProjected, PTL DEF Spec, ProjectionIsExact
=============================================================================
