----------------------------- MODULE MCKthreadd -----------------------------
(* Instances of kthreadd for TLC: two callers of kthread_create. *)
EXTENDS Kthreadd

CONSTANTS x1, x2
=============================================================================
