---------------------------- MODULE MCTimerQueue ----------------------------
(***************************************************************************)
(* The timer queue for TLC: the timers of one CPU, one more than its heap  *)
(* holds; one of them is periodic, another may go to any CPU.              *)
(***************************************************************************)
EXTENDS TimerQueue

CONSTANTS t1, t2, t3, t4

OneUnpinned == [t \in Timers |-> IF t = t4 THEN -1 ELSE 0]
OnePeriodic == [t \in Timers |-> IF t = t1 THEN 1 ELSE 0]
OwnCpu      == [t \in Timers |-> CPUs]
=============================================================================
