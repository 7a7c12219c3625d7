----------------------------- MODULE MCRunQueue -----------------------------
(* Instances of the run queues for TLC. *)
EXTENDS RunQueue

CONSTANTS c1, c2, t1, t2, t3, w1, w2

AllOnFirst == [t \in Tasks |-> c1]

(* One waker per CPU: w1 races with the first CPU from the second one. *)
OnePerCpu  == [w \in Wakers |-> IF w = w1 THEN c2 ELSE c1]
=============================================================================
