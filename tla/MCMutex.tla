------------------------------- MODULE MCMutex -------------------------------
(* Instances of the mutex for TLC: the tasks are model values. *)
EXTENDS Mutex

CONSTANTS t1, t2, t3, t4
=============================================================================
