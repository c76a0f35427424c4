------------------------------- MODULE MCHud -------------------------------
(* The HUD for TLC.                                                         *)
EXTENDS Hud, TLC

CONSTANTS tower, radar, all
=============================================================================
