----------------------------- MODULE MCTaskLife -----------------------------
(* Instances of the task life cycle for TLC: init and two others. *)
EXTENDS TaskLife, TLC

CONSTANTS init, a, b
InitReaps == [t \in Tasks |-> init]
OthersSymmetry == Permutations(Tasks \ {init})
=============================================================================
