---------------------------- MODULE MCTyreStints ----------------------------
(* A race of one car for TLC.                                               *)
EXTENDS TyreStints
=============================================================================
