----------------------------- MODULE MCFrameGate -----------------------------
(* FrameGate for TLC.  Sessions and packet types are interchangeable.         *)
EXTENDS FrameGate, TLC

Symmetry == Permutations(Uids) \cup Permutations(Types)
=============================================================================
