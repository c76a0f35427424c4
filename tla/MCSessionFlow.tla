---------------------------- MODULE MCSessionFlow ----------------------------
(* SessionFlow for TLC.                                                      *)
EXTENDS SessionFlow
=============================================================================
