----------------------------- MODULE MCRecorder -----------------------------
(* Instances of Recorder for TLC.  The session UIDs are interchangeable.      *)
EXTENDS Recorder, TLC

Symmetry == Permutations(Uids)

\* Without the end of the process, to look at one run of the program.
OneRun == Init /\ [][Step]_vars
OneRunLive == OneRun /\ Fairness
=============================================================================
