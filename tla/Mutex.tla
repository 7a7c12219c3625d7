-------------------------------- MODULE Mutex --------------------------------
(***************************************************************************)
(* The sleeping mutex of kernel/mutex.c on the wait queues of              *)
(* kernel/sched/core.c.                                                    *)
(*                                                                         *)
(* A step is a critical section of m->lock.  The scheduler is abstracted   *)
(* to what mutex_lock sees of it: sched() returns to a task only when its  *)
(* status is RUNNING (RunQueue.tla models sched itself).  A signal sent to *)
(* a waiting task (send_signal, kernel/signal.c) makes it RUNNING without  *)
(* taking its wait node off the queue.                                     *)
(***************************************************************************)
EXTENDS WaitList

CONSTANTS Tasks,      \* the tasks that use the mutex
          Signalled,  \* the tasks that may be sent a signal while they wait
          WaitHead    \* the list head m->wait.head

ASSUME TasksAssumption ==
  WaitHead \notin Tasks /\ Signalled \subseteq Tasks /\ IsFiniteSet(Tasks)

VARIABLES pc,        \* where each task is in mutex_lock / mutex_unlock
          status,    \* task->status
          locked,    \* m->locked
          list,      \* the pointers of m->wait.head and of the tasks' wait nodes
          spinning   \* wake_up_one never returns: m->lock is held for ever

vars == <<pc, status, locked, list, spinning>>

Nodes == Tasks \cup {WaitHead}
PCs   == {"outside", "lock", "sched", "critical", "waking"}

TypeOK ==
  /\ pc \in [Tasks -> PCs]
  /\ status \in [Tasks -> {"RUNNING", "SLEEPING"}]
  /\ locked \in BOOLEAN
  /\ list \in [next : [Nodes -> Nodes], prev : [Nodes -> Nodes]]
  /\ spinning \in BOOLEAN

Init ==
  /\ pc = [t \in Tasks |-> "outside"]
  /\ status = [t \in Tasks |-> "RUNNING"]
  /\ locked = FALSE
  /\ list = EmptyList(Nodes)
  /\ spinning = FALSE

-----------------------------------------------------------------------------
(* A running task calls mutex_lock. *)
Enter(t) ==
  /\ pc[t] = "outside"
  /\ pc' = [pc EXCEPT ![t] = "lock"]
  /\ UNCHANGED <<status, locked, list, spinning>>

(* Mutant: mutex_lock does not test m->locked after a wake-up. *)
LockTakeUnchecked(t) ==
  /\ pc[t] = "lock" /\ ~spinning
  /\ locked' = TRUE
  /\ pc' = [pc EXCEPT ![t] = "critical"]
  /\ UNCHANGED <<status, list, spinning>>

(* One turn of mutex_lock that finds the mutex free. *)
LockTake(t) ==
  /\ pc[t] = "lock" /\ ~spinning /\ ~locked
  /\ locked' = TRUE
  /\ pc' = [pc EXCEPT ![t] = "critical"]
  /\ UNCHANGED <<status, list, spinning>>

(* One turn of mutex_lock that finds it taken: mark, queue, sched(). *)
LockSleep(t) ==
  /\ pc[t] = "lock" /\ ~spinning /\ locked
  /\ status' = [status EXCEPT ![t] = "SLEEPING"]
  /\ list' = ListAddTail(list, WaitHead, t)
  /\ pc' = [pc EXCEPT ![t] = "sched"]
  /\ UNCHANGED <<locked, spinning>>

(* sched() returns to a task that has been made RUNNING. *)
Resume(t) ==
  /\ pc[t] = "sched" /\ status[t] = "RUNNING"
  /\ pc' = [pc EXCEPT ![t] = "lock"]
  /\ UNCHANGED <<status, locked, list, spinning>>

TryLock(t) ==
  /\ pc[t] = "outside" /\ ~spinning
  /\ locked' = TRUE
  /\ pc' = [pc EXCEPT ![t] = IF locked THEN "outside" ELSE "critical"]
  /\ UNCHANGED <<status, list, spinning>>

Sleepers == {t \in Tasks : status[t] = "SLEEPING"}

(* Mutant: the woken task's wait node stays linked. *)
WakeUpOneNoRemove ==
  LET w == FirstIn(list, WaitHead, Sleepers)
  IN  IF w = WaitHead
      THEN UNCHANGED <<status, list>>
      ELSE /\ status' = [status EXCEPT ![w] = "RUNNING"]
           /\ UNCHANGED list

(* Mutant: mutex_unlock frees the mutex without waking anyone. *)
WakeUpNobody == UNCHANGED <<status, list>>

(* wake_up_one(&m->wait): the first sleeper leaves the queue and runs. *)
WakeUpOne ==
  LET w == FirstIn(list, WaitHead, Sleepers)
  IN  IF w = WaitHead
      THEN UNCHANGED <<status, list>>
      ELSE /\ list' = ListDel(list, w)
           /\ status' = [status EXCEPT ![w] = "RUNNING"]

(* mutex_unlock, also when the mutex is not locked: an early return. *)
Unlock(t) ==
  /\ pc[t] = "critical" /\ ~spinning
  /\ WalkEnds(list, WaitHead, Sleepers)
  /\ pc' = [pc EXCEPT ![t] = "outside"]
  /\ IF locked
     THEN locked' = FALSE /\ WakeUpOne /\ UNCHANGED spinning
     ELSE UNCHANGED <<status, locked, list, spinning>>

(* mutex_unlock whose wake_up_one goes round a broken list for ever. *)
UnlockSpins(t) ==
  /\ pc[t] = "critical" /\ ~spinning /\ locked
  /\ ~WalkEnds(list, WaitHead, Sleepers)
  /\ locked' = FALSE
  /\ spinning' = TRUE
  /\ pc' = [pc EXCEPT ![t] = "waking"]
  /\ UNCHANGED <<status, list>>

(* send_signal -> wake_up_process: the wait node stays where it is. *)
Signal(t) ==
  /\ status[t] = "SLEEPING"
  /\ status' = [status EXCEPT ![t] = "RUNNING"]
  /\ UNCHANGED <<pc, locked, list, spinning>>

Step(t) ==
  LockTake(t) \/ LockSleep(t) \/ Resume(t) \/ Unlock(t) \/ UnlockSpins(t)

Next ==
  \/ \E t \in Tasks : Enter(t) \/ TryLock(t) \/ Step(t)
  \/ \E t \in Signalled : Signal(t)

Spec == Init /\ [][Next]_vars

(* A runnable task is eventually scheduled and leaves its critical section. *)
FairSpec == Spec /\ \A t \in Tasks : WF_vars(Step(t))

-----------------------------------------------------------------------------
(***************************************************************************)
(* At most one task is between mutex_lock and mutex_unlock, and m->locked  *)
(* says exactly whether one is, however often signals make waiters retry.  *)
(***************************************************************************)
MutualExclusion ==
  /\ \A t, u \in Tasks : pc[t] = "critical" /\ pc[u] = "critical" => t = u
  /\ locked <=> \E t \in Tasks : pc[t] = "critical"

(***************************************************************************)
(* mutex_unlock never leaves the mutex free with every contender asleep:   *)
(* while a waiter sleeps on a free mutex, a task that was woken or came    *)
(* late is on its way to take it, and its unlock will wake the next one.   *)
(* A signal takes this away only once it has made a task link its wait     *)
(* node twice, when the queue is no list any more.                         *)
(***************************************************************************)
NoLostWakeup ==
  WellLinked(list) /\ ~locked /\ Sleepers # {} =>
    \E t \in Tasks : \/ pc[t] = "lock"
                     \/ pc[t] = "sched" /\ status[t] = "RUNNING"

(***************************************************************************)
(* While the queue is a list, wake_up_one misses no task asleep in         *)
(* mutex_lock, and the only stale nodes it has to skip are those of tasks  *)
(* that a signal woke.                                                     *)
(***************************************************************************)
QueueIsSleepers ==
  WellLinked(list) =>
    /\ Sleepers \subseteq Members(list, WaitHead)
    /\ Members(list, WaitHead) \subseteq Sleepers \cup Signalled

(***************************************************************************)
(* While some task is in mutex_lock, some task eventually gets the mutex,  *)
(* unless signals break the wait queue first.                              *)
(***************************************************************************)
SomeoneGetsIn ==
  (\E t \in Tasks : pc[t] \in {"lock", "sched"})
    ~> (\E t \in Tasks : pc[t] = "critical") \/ ~WellLinked(list)
=============================================================================
