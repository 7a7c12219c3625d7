------------------------------ MODULE RunQueue ------------------------------
(***************************************************************************)
(* The per-CPU run queues of kernel/sched/{core,rr,idle}.c: sched(), the   *)
(* time slice, demotion and aging, sleep_on, do_exit's leaving, and        *)
(* wake_up_process (kernel/sched/fork.c) running on other CPUs.            *)
(*                                                                         *)
(* What happens under one rq->lock is one step; everything the code does   *)
(* outside it (marking a task SLEEPING or RUNNING, the check in            *)
(* wake_up_process, the resched request) is a step of its own.  The kernel *)
(* is not preempted inside the kernel, so a waker keeps its CPU's tasks    *)
(* from moving while it is in wake_up_process.                             *)
(*                                                                         *)
(* The idle task of CPU c is written c.                                    *)
(***************************************************************************)
EXTENDS Naturals, FiniteSets, SequencesExt

CONSTANTS CPUs, Tasks, Wakers,
          BootCpu,      \* the CPU whose idle loop is the end of start_kernel
          CpuOf,        \* task_thread_info(t)->cpu: fixed once t is attached
          WakerCpu,     \* the CPU each waker runs on
          Sleepers,     \* the tasks that call sleep_on, mutex_lock or do_exit
          Yielders,     \* the tasks that call yield before their slice is over
          Lowest,       \* PRIO_LOWEST
          DemoteAfter,  \* full time slices before a task is demoted
          AgingTicks    \* AGING_THRESHOLD_NS in time slices

ASSUME RunQueueAssumption ==
  /\ CPUs \cap Tasks = {} /\ BootCpu \in CPUs /\ IsFiniteSet(Tasks)
  /\ CpuOf \in [Tasks -> CPUs] /\ WakerCpu \in [Wakers -> CPUs]
  /\ Sleepers \subseteq Tasks /\ Yielders \subseteq Tasks
  /\ Lowest \in Nat /\ Lowest > 1 /\ DemoteAfter \in Nat /\ AgingTicks \in Nat

VARIABLES rq,            \* rq[c]: the queues, the bitmap, nr_running, the clocks
          on_rq, prio, consec_ticks,  \* the scheduling fields of each task
          status, need_resched, curr,
          pc,            \* where each task is in sleep_on or do_exit
          waker,         \* where each waker is in wake_up_process, and for whom
          armed,         \* rq->sched_timer is pending
          ipi,           \* an IPI_RESCHED is pending
          halt,          \* where the idle loop is: "awake", "halting", "wfi"
          lost           \* the CPU follows a pointer that is no runnable task

vars == <<rq, on_rq, prio, consec_ticks, status, need_resched, curr, pc,
          waker, armed, ipi, halt, lost>>

BasePrio == 1                     \* init_task.base_prio, inherited by every task
Levels   == 0 .. Lowest
NoWake   == [at |-> "none"]

TypeOK ==
  /\ rq \in [CPUs -> [runnable : [Levels -> Seq(Tasks)], bitmap : SUBSET Levels,
                      nr_running : Nat, age : [Levels -> 0 .. AgingTicks]]]
  /\ curr \in [CPUs -> Tasks \cup CPUs] /\ \A c \in CPUs : curr[c] \in Tasks \cup {c}
  /\ on_rq \in [Tasks -> BOOLEAN]
  /\ prio \in [Tasks -> Levels]
  /\ consec_ticks \in [Tasks -> 0 .. DemoteAfter]
  /\ status \in [Tasks -> {"RUNNING", "SLEEPING", "ZOMBIE"}]
  /\ need_resched \in [Tasks \cup CPUs -> BOOLEAN]
  /\ pc \in [Tasks -> {"run", "marked", "block", "exit"}]
  /\ waker \in [Wakers -> {NoWake} \cup [at : {"checked", "set", "queued"}, task : Tasks]]
  /\ armed \in [CPUs -> BOOLEAN] /\ ipi \in [CPUs -> BOOLEAN]
  /\ halt \in [CPUs -> {"awake", "halting", "wfi"}] /\ lost \in [CPUs -> BOOLEAN]

(* After sched_init and sched_fork: idle CPUs, tasks forked but not woken. *)
Init ==
  /\ rq = [c \in CPUs |-> [runnable |-> [l \in Levels |-> <<>>], bitmap |-> {},
                           nr_running |-> 0, age |-> [l \in Levels |-> 0]]]
  /\ on_rq = [t \in Tasks |-> FALSE]
  /\ prio = [t \in Tasks |-> BasePrio]
  /\ consec_ticks = [t \in Tasks |-> 0]
  /\ status = [t \in Tasks |-> "SLEEPING"]
  /\ need_resched = [t \in Tasks \cup CPUs |-> FALSE]
  /\ curr = [c \in CPUs |-> c]
  /\ pc = [t \in Tasks |-> "block"]
  /\ waker = [w \in Wakers |-> NoWake]
  /\ armed = [c \in CPUs |-> c = BootCpu]
  /\ ipi = [c \in CPUs |-> FALSE]
  /\ halt = [c \in CPUs |-> "halting"]
  /\ lost = [c \in CPUs |-> FALSE]

-----------------------------------------------------------------------------
(***************************************************************************)
(* The operations of rr_sched_class, on the record that View gives of one  *)
(* run queue and of the scheduling fields of the tasks.                    *)
(***************************************************************************)
View(c) == [runnable |-> rq[c].runnable, bitmap |-> rq[c].bitmap,
            nr_running |-> rq[c].nr_running, age |-> rq[c].age,
            on_rq |-> on_rq, prio |-> prio, consec |-> consec_ticks]

Commit(c, s) ==
  /\ rq' = [rq EXCEPT ![c] = [runnable |-> s.runnable, bitmap |-> s.bitmap,
                              nr_running |-> s.nr_running, age |-> s.age]]
  /\ on_rq' = s.on_rq /\ prio' = s.prio /\ consec_ticks' = s.consec

(* Mutant: rr_enqueue_task without its on_rq test. *)
EnqueueAgain(s, p) ==
  LET l == s.prio[p]
  IN  [s EXCEPT !.runnable[l] = Append(@, p), !.bitmap = @ \cup {l},
                !.on_rq[p] = TRUE, !.nr_running = @ + 1,
                !.age[l] = IF l \in s.bitmap THEN @ ELSE 0]

(* Mutant: rr_enqueue_task that never sets the bit of its level. *)
EnqueueNoBit(s, p) ==
  IF s.on_rq[p] THEN s
  ELSE [s EXCEPT !.runnable[s.prio[p]] = Append(@, p),
                 !.on_rq[p] = TRUE, !.nr_running = @ + 1]

(* Mutant: rr_enqueue_task adds at the head of the list. *)
EnqueueAtHead(s, p) ==
  IF s.on_rq[p] THEN s
  ELSE LET l == s.prio[p]
       IN  [s EXCEPT !.runnable[l] = <<p>> \o @, !.bitmap = @ \cup {l},
                     !.on_rq[p] = TRUE, !.nr_running = @ + 1,
                     !.age[l] = IF l \in s.bitmap THEN @ ELSE 0]

rr_enqueue_task(s, p) ==
  IF s.on_rq[p] THEN s
  ELSE LET l == s.prio[p]
       IN  [s EXCEPT !.runnable[l] = Append(@, p), !.bitmap = @ \cup {l},
                     !.on_rq[p] = TRUE, !.nr_running = @ + 1,
                     !.age[l] = IF l \in s.bitmap THEN @ ELSE 0]

(***************************************************************************)
(* list_del takes the node off whatever list it is on; the bit that may be *)
(* cleared is that of p->prio, which need not be the same level.           *)
(***************************************************************************)
rr_remove_task(s, p) ==
  IF ~s.on_rq[p] THEN s
  ELSE LET q == [l \in Levels |-> RemoveFirst(s.runnable[l], p)]
           l == s.prio[p]
       IN  [s EXCEPT !.runnable = q, !.on_rq[p] = FALSE,
                     !.bitmap = IF q[l] = <<>> THEN @ \ {l} ELSE @,
                     !.nr_running = IF @ > 0 THEN @ - 1 ELSE @]

rr_dequeue_task(s, p) ==
  IF ~s.on_rq[p] THEN s
  ELSE [rr_remove_task(s, p) EXCEPT !.prio[p] = BasePrio, !.consec[p] = 0]

(* A task that has used up DemoteAfter time slices in a row goes down one. *)
Demote(s, p) ==
  IF s.consec[p] >= DemoteAfter /\ s.prio[p] > 0 /\ s.prio[p] < Lowest
  THEN [s EXCEPT !.prio[p] = @ + 1, !.consec[p] = 0]
  ELSE s

(* Mutant: rr_pick_next_task forgets the task it preempts. *)
RequeueNobody(s, c) == s

(* The first half of rr_pick_next_task: a curr that may go on is queued. *)
Requeue(s, c) ==
  IF curr[c] # c /\ status[curr[c]] = "RUNNING"
  THEN rr_enqueue_task(Demote(s, curr[c]), curr[c])
  ELSE s

Highest(s) == CHOOSE l \in s.bitmap : \A m \in s.bitmap : l <= m  \* ctz32

(***************************************************************************)
(* What rr_aging does to the levels of old: each moves up, all of it, to   *)
(* the tail of the next one, whose clock starts again.  The code goes      *)
(* upwards in l, so a level has moved before the one below moves into it.  *)
(***************************************************************************)
Promote(s, old) ==
  LET above == {l - 1 : l \in old}
  IN  [s EXCEPT !.prio = [t \in Tasks |->
                  IF \E l \in old : t \in ToSet(s.runnable[l])
                  THEN (CHOOSE l \in old : t \in ToSet(s.runnable[l])) - 1
                  ELSE @[t]],
                !.runnable = [l \in Levels |->
                  (IF l \in old THEN <<>> ELSE s.runnable[l])
                    \o (IF l \in above THEN s.runnable[l + 1] ELSE <<>>)],
                !.bitmap = (@ \ old) \cup above,
                !.age = [l \in Levels |-> IF l \in above THEN 0 ELSE @[l]]]

(* The levels from first on that have waited for AgingTicks. *)
Aged(s, first) == {l \in s.bitmap : l >= first /\ s.age[l] >= AgingTicks}

(* Mutant: aging starts at level 1. *)
AgingFromOne(s) == Promote(s, Aged(s, 1))

rr_aging(s) == Promote(s, Aged(s, 2))

(* Time passes for the clocks of the levels that hold tasks. *)
Elapse(s) ==
  [s EXCEPT !.age = [l \in Levels |->
     IF l \in s.bitmap /\ s.age[l] < AgingTicks THEN s.age[l] + 1 ELSE s.age[l]]]

-----------------------------------------------------------------------------
(* CPU c executes its current task: no waker is busy there. *)
Free(c) == ~lost[c] /\ \A w \in Wakers : WakerCpu[w] = c => waker[w] = NoWake

Runs(t) == curr[CpuOf[t]] = t /\ Free(CpuOf[t])

(* Mutant: sched() arms the time slice only when it goes on with the same task. *)
SwitchNoTimer(c, s, next, resched) ==
  /\ Commit(c, s)
  /\ curr' = [curr EXCEPT ![c] = next]
  /\ need_resched' = IF next = curr[c] THEN [resched EXCEPT ![next] = FALSE] ELSE resched
  /\ armed' = [armed EXCEPT ![c] = @ \/ next = curr[c]]
  /\ pc' = IF next \in Tasks THEN [pc EXCEPT ![next] = "run"] ELSE pc
  /\ halt' = [halt EXCEPT ![c] = IF next = c THEN "halting" ELSE "awake"]
  /\ UNCHANGED <<lost, status, waker, ipi>>

(***************************************************************************)
(* sched() on CPU c, resched being need_resched as sched() finds it.  An   *)
(* empty bitmap means the idle task; a bit of an empty level makes the CPU *)
(* take the list head for a task; a task that has exited must not return.  *)
(***************************************************************************)
Switch(c, s, next, resched) ==
  /\ Commit(c, s)
  /\ curr' = [curr EXCEPT ![c] = next]
  /\ need_resched' = IF next = curr[c] THEN [resched EXCEPT ![next] = FALSE] ELSE resched
  /\ armed' = [armed EXCEPT ![c] = TRUE]
  /\ lost' = [lost EXCEPT ![c] = next \in Tasks /\ pc[next] = "exit"]
  /\ pc' = IF next \in Tasks /\ pc[next] # "exit" THEN [pc EXCEPT ![next] = "run"] ELSE pc
  /\ halt' = [halt EXCEPT ![c] = IF next = c THEN "halting" ELSE "awake"]
  /\ UNCHANGED <<status, waker, ipi>>

sched(c, resched) ==
  \E s \in {Requeue(View(c), c)} :
    IF s.bitmap = {}
    THEN Switch(c, s, c, resched)
    ELSE IF s.runnable[Highest(s)] = <<>>
    THEN /\ lost' = [lost EXCEPT ![c] = TRUE]
         /\ Commit(c, s)
         /\ UNCHANGED <<curr, need_resched, armed, pc, halt, status, waker, ipi>>
    ELSE \E p \in {Head(s.runnable[Highest(s)])} :
           \E left \in {[rr_remove_task(s, p) EXCEPT !.age[Highest(s)] = 0]} :
             Switch(c, left, p, resched)

(* sched_handle_user_return *)
UserReturn(t) ==
  /\ Runs(t) /\ pc[t] = "run" /\ need_resched[t]
  /\ sched(CpuOf[t], [need_resched EXCEPT ![t] = FALSE])

yield(t) ==
  /\ Runs(t) /\ pc[t] = "run"
  /\ sched(CpuOf[t], need_resched)

(* sleep_on marks the task; mutex_lock marks it and goes straight to sched. *)
SleepMark(t) ==
  /\ Runs(t) /\ pc[t] = "run"
  /\ status' = [status EXCEPT ![t] = "SLEEPING"]
  /\ \E next \in {"marked", "block"} : pc' = [pc EXCEPT ![t] = next]
  /\ UNCHANGED <<rq, on_rq, prio, consec_ticks, need_resched, curr, waker,
                 armed, ipi, halt, lost>>

(* sleep_on and wait_sleep_on_child: dequeue_task under rq->lock. *)
SleepDequeue(t) ==
  /\ Runs(t) /\ pc[t] = "marked"
  /\ Commit(CpuOf[t], rr_dequeue_task(View(CpuOf[t]), t))
  /\ pc' = [pc EXCEPT ![t] = "block"]
  /\ UNCHANGED <<status, need_resched, curr, waker, armed, ipi, halt, lost>>

(* do_exit: ZOMBIE and dequeue_task under rq->lock. *)
Exit(t) ==
  /\ Runs(t) /\ pc[t] = "run"
  /\ status' = [status EXCEPT ![t] = "ZOMBIE"]
  /\ Commit(CpuOf[t], rr_dequeue_task(View(CpuOf[t]), t))
  /\ pc' = [pc EXCEPT ![t] = "exit"]
  /\ UNCHANGED <<need_resched, curr, waker, armed, ipi, halt, lost>>

(* The call of sched() that ends sleep_on, mutex_lock's turn and do_exit. *)
Leave(t) ==
  /\ Runs(t) /\ pc[t] \in {"block", "exit"}
  /\ sched(CpuOf[t], need_resched)

-----------------------------------------------------------------------------
(***************************************************************************)
(* The idle loops: wfi, then sched(); the loop of secondary_entry tests    *)
(* first whether there is a reason to, the one of start_kernel does not.   *)
(***************************************************************************)
IdleHalt(c) ==
  /\ curr[c] = c /\ Free(c) /\ halt[c] = "halting"
  /\ halt' = [halt EXCEPT ![c] = "wfi"]
  /\ UNCHANGED <<rq, on_rq, prio, consec_ticks, status, need_resched, curr, pc,
                 waker, armed, ipi, lost>>

IdleLoop(c) ==
  /\ curr[c] = c /\ Free(c) /\ halt[c] = "awake"
  /\ IF c = BootCpu \/ need_resched[c] \/ rq[c].nr_running > 0
     THEN sched(c, need_resched)
     ELSE /\ halt' = [halt EXCEPT ![c] = "halting"]
          /\ UNCHANGED <<rq, on_rq, prio, consec_ticks, status, need_resched, curr,
                         pc, waker, armed, ipi, lost>>

(* An interrupt ends wfi; before wfi it leaves no trace in the idle loop. *)
Interrupt(c) ==
  halt' = [halt EXCEPT ![c] = IF @ = "wfi" THEN "awake" ELSE @]

(* sched_event: count the slice, age the queues, ask for sched(). *)
Tick(c) ==
  /\ armed[c] /\ ~lost[c]
  /\ \E s \in {Elapse(View(c))} :
       \E counted \in {IF curr[c] \in Tasks
                       THEN [s EXCEPT !.consec[curr[c]] =
                                        IF @ < DemoteAfter THEN @ + 1 ELSE @]
                       ELSE s} : Commit(c, rr_aging(counted))
  /\ need_resched' = [need_resched EXCEPT ![curr[c]] = TRUE]
  /\ armed' = [armed EXCEPT ![c] = FALSE]
  /\ Interrupt(c)
  /\ UNCHANGED <<status, curr, pc, waker, ipi, lost>>

(* Voluntary switches use up time too. *)
TimePasses(c) ==
  /\ Elapse(View(c)) # View(c)
  /\ Commit(c, Elapse(View(c)))
  /\ UNCHANGED <<status, need_resched, curr, pc, waker, armed, ipi, halt, lost>>

(* s_soft_interrupt_handler *)
ReschedIpi(c) ==
  /\ ipi[c] /\ ~lost[c]
  /\ ipi' = [ipi EXCEPT ![c] = FALSE]
  /\ need_resched' = [need_resched EXCEPT ![curr[c]] = TRUE]
  /\ Interrupt(c)
  /\ UNCHANGED <<rq, on_rq, prio, consec_ticks, status, curr, pc, waker, armed, lost>>

-----------------------------------------------------------------------------
(***************************************************************************)
(* wake_up_process: test, set, enqueue, request; only the third is locked. *)
(* A waker on an idle CPU is an interrupt handler there.                   *)
(***************************************************************************)
WakeCheck(w, t) ==
  /\ waker[w] = NoWake /\ ~lost[WakerCpu[w]]
  /\ status[t] = "SLEEPING"
  /\ waker' = [waker EXCEPT ![w] = [at |-> "checked", task |-> t]]
  /\ Interrupt(WakerCpu[w])
  /\ UNCHANGED <<rq, on_rq, prio, consec_ticks, status, need_resched, curr, pc,
                 armed, ipi, lost>>

WakeSet(w) ==
  /\ waker[w].at = "checked"
  /\ status' = [status EXCEPT ![waker[w].task] = "RUNNING"]
  /\ waker' = [waker EXCEPT ![w].at = "set"]
  /\ UNCHANGED <<rq, on_rq, prio, consec_ticks, need_resched, curr, pc,
                 armed, ipi, halt, lost>>

WakeEnqueue(w) ==
  /\ waker[w].at = "set"
  /\ LET c == CpuOf[waker[w].task]
     IN  Commit(c, rr_enqueue_task(View(c), waker[w].task))
  /\ waker' = [waker EXCEPT ![w].at = "queued"]
  /\ UNCHANGED <<status, need_resched, curr, pc, armed, ipi, halt, lost>>

(* sched_resched_cpu: a flag on this CPU, an IPI on another one. *)
WakeResched(w) ==
  /\ waker[w].at = "queued"
  /\ LET c == CpuOf[waker[w].task]
     IN  IF c = WakerCpu[w]
         THEN need_resched' = [need_resched EXCEPT ![curr[c]] = TRUE] /\ UNCHANGED ipi
         ELSE ipi' = [ipi EXCEPT ![c] = TRUE] /\ UNCHANGED need_resched
  /\ waker' = [waker EXCEPT ![w] = NoWake]
  /\ UNCHANGED <<rq, on_rq, prio, consec_ticks, status, curr, pc, armed, halt, lost>>

-----------------------------------------------------------------------------
TaskStep(t) == UserReturn(t) \/ SleepDequeue(t) \/ Leave(t)
CpuStep(c)  == Tick(c) \/ ReschedIpi(c) \/ IdleLoop(c) \/ IdleHalt(c)
WakeStep(w) == WakeSet(w) \/ WakeEnqueue(w) \/ WakeResched(w)

Next ==
  \/ \E t \in Tasks : TaskStep(t)
  \/ \E t \in Yielders : yield(t)
  \/ \E t \in Sleepers : SleepMark(t) \/ Exit(t)
  \/ \E c \in CPUs : CpuStep(c) \/ TimePasses(c)
  \/ \E w \in Wakers : WakeStep(w) \/ \E t \in Tasks : WakeCheck(w, t)

Spec == Init /\ [][Next]_vars

(***************************************************************************)
(* Kernel code runs on to its end, returns to user mode and handles its    *)
(* interrupts.  sched() re-arms the timer each time, so only a task that   *)
(* does not yield before is sure to see its slice end.                     *)
(***************************************************************************)
FairSpec ==
  /\ Spec
  /\ \A t \in Tasks : WF_vars(TaskStep(t))
  /\ \A t \in Yielders : WF_vars(yield(t))
  /\ \A c \in CPUs : /\ WF_vars(Tick(c) /\ curr[c] \notin Yielders)
                     /\ WF_vars(ReschedIpi(c)) /\ WF_vars(IdleLoop(c))
  /\ \A w \in Wakers : WF_vars(WakeStep(w))

-----------------------------------------------------------------------------
Occurrences(c, t) ==
  Cardinality(UNION {{l} \X {i \in DOMAIN rq[c].runnable[l] : rq[c].runnable[l][i] = t}
                     : l \in Levels})

(***************************************************************************)
(* on_rq keeps its promise under every race of wakers, ticks, sleeps and   *)
(* exits: a task is on its own CPU's queues, once, exactly when on_rq is   *)
(* set, and nr_running (which the idle loop and sched_select_task_cpu      *)
(* read) counts them.                                                      *)
(***************************************************************************)
QueuedOnce ==
  /\ TypeOK
  /\ \A t \in Tasks, c \in CPUs :
       Occurrences(c, t) = IF on_rq[t] /\ c = CpuOf[t] THEN 1 ELSE 0
  /\ \A c \in CPUs :
       rq[c].nr_running = Cardinality({t \in Tasks : CpuOf[t] = c /\ on_rq[t]})

(***************************************************************************)
(* prio_bitmap hides no task: a level that holds one has its bit set, so   *)
(* ctz32 finds the highest level with a runnable task.                     *)
(***************************************************************************)
NoHiddenTask ==
  \A c \in CPUs, l \in Levels : rq[c].runnable[l] # <<>> => l \in rq[c].bitmap

(***************************************************************************)
(* A RUNNING task is never forgotten: it executes, or is queued, or a      *)
(* waker that has marked it is about to queue it.                          *)
(***************************************************************************)
NoForgottenTask ==
  \A t \in Tasks : status[t] = "RUNNING" =>
    \/ curr[CpuOf[t]] = t
    \/ on_rq[t]
    \/ \E w \in Wakers : waker[w] = [at |-> "set", task |-> t]

(***************************************************************************)
(* Preemption never dies out: a CPU that executes a task has its one-shot  *)
(* sched_timer armed, or has been asked to call sched(), which arms it, or *)
(* is on its way to sched() to sleep or to exit.                           *)
(***************************************************************************)
PreemptionAlive ==
  \A c \in CPUs : curr[c] \in Tasks =>
    armed[c] \/ need_resched[curr[c]] \/ pc[curr[c]] \in {"marked", "block", "exit"}

(* The tasks on level l of c. *)
WaitsAt(c, l) == ToSet(rq[c].runnable[l])

(***************************************************************************)
(* A task that waits moves up by at most one level per tick, and never to  *)
(* level 0, which is kept for real-time tasks.  Its prio may fall by two:  *)
(* a task demoted while a waker has queued it is still on its old level.   *)
(***************************************************************************)
AgingIsGradual ==
  [][\A c \in CPUs, l \in Levels, m \in Levels :
       \A t \in WaitsAt(c, l) \cap WaitsAt(c, m)' : m + 1 >= l /\ m >= BasePrio]_vars

(***************************************************************************)
(* What rr_aging is for: a task queued behind others on a busy CPU is      *)
(* executed in the end, however low demotion has put it.                   *)
(***************************************************************************)
NoStarvation ==
  \A t \in Tasks :
    (on_rq[t] /\ curr[CpuOf[t]] \in Tasks) ~> (curr[CpuOf[t]] = t)

(***************************************************************************)
(* What do_exit asserts by __builtin_unreachable: sched() does not return  *)
(* to a task that has exited.  It fails: README, section 6.                *)
(***************************************************************************)
ExitIsFinal == \A c \in CPUs : curr[c] \in Tasks => ~(lost[c] /\ pc[curr[c]] = "exit")
=============================================================================
