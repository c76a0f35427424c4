------------------------------ MODULE MCDealer ------------------------------
(* Dealer for TLC.  Requests are interchangeable, and so are fires.           *)
EXTENDS Dealer, TLC

Symmetry == Permutations(Calls) \cup Permutations(Fires)
=============================================================================
