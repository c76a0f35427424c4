---------------------------- MODULE MCSubsystem ----------------------------
(* One manager for TLC; the operators are interchangeable.                  *)
EXTENDS Subsystem, TLC

CONSTANTS ui, pool

\* A child that announces both its port and its initialisation and runs until it is stopped,
\* and one that announces its port only, and crashes, refuses to start or is terminated.
Children == {[prints |-> {"port", "init"}, ends |-> {}],
             [prints |-> {"port"}, ends |-> {"crashed", "refused", "term"}]}

Symmetry == Permutations(Operators)
=============================================================================
