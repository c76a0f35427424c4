---------------------------- MODULE CareerLedger ----------------------------
(***************************************************************************)
(* What the career companion promises: a driver's points are those the     *)
(* season was started or corrected with, plus those of every session that  *)
(* was classified, each session once and as it was last known.             *)
(***************************************************************************)
EXTENDS Integers, Functions, Tables

CONSTANTS
  Ids, Keys, Sessions,
  Score    \* points a session or an import can give

VARIABLES
  start,  \* of each career: the points its drivers were imported with
  book    \* of each career: the points of each classified session

Careers == DOMAIN start

Init == start = <<>> /\ book = <<>>

\* A career is opened empty.
Open ==
  \E c \in Ids \ Careers :
    /\ start' = Upserted(start, Only(c, <<>>))
    /\ book' = Upserted(book, Only(c, <<>>))

\* Points are imported: they replace what the same drivers started with.
Import ==
  \E c \in Careers : \E ks \in SUBSET Keys : \E pts \in [ks -> Score] :
    /\ start' = [start EXCEPT ![c] = Upserted(@, pts)]
    /\ UNCHANGED book

\* A session is classified, for the first time or again: its points replace its old ones.
Record ==
  \E c \in Careers, s \in Sessions : \E ks \in SUBSET Keys : \E pts \in [ks -> Score] :
    /\ book' = [book EXCEPT ![c] = Upserted(@, Only(s, pts))]
    /\ start' = [start EXCEPT ![c] = Upserted([k \in ks |-> 0], @)]

\* One driver's points in one session are corrected.
Correct ==
  \E c \in Careers : \E s \in DOMAIN book[c] : \E k \in DOMAIN book[c][s], p \in Score :
    /\ book' = [book EXCEPT ![c][s][k] = p]
    /\ UNCHANGED start

Next == Open \/ Import \/ Record \/ Correct

Spec == Init /\ [][Next]_<<start, book>>

\* Where driver k of career c stands.
Total(c, k) ==
  start[c][k] +
  SumFunction([s \in {s \in DOMAIN book[c] : k \in DOMAIN book[c][s]} |-> book[c][s][k]])
=============================================================================
