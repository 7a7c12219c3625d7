------------------------------ MODULE TaskLife ------------------------------
(***************************************************************************)
(* The life of a task: fork (kernel/sched/fork.c), do_exit with its        *)
(* reparenting (exit.c), do_waitpid (wait.c) and the deferred destruction  *)
(* that sched_tail does for a task still on its CPU (core.c).              *)
(*                                                                         *)
(* A step is what one lock protects, or one access outside any lock.       *)
(* on_cpu is only consulted for tasks that have exited, so the switches of *)
(* living tasks are left out; wait_child holds at most the task itself.    *)
(* reparent_children adds to its reaper's list of children without the     *)
(* reaper's lock; here that is one step, so a torn list is not modelled.   *)
(***************************************************************************)
EXTENDS Naturals, FiniteSets

CONSTANTS Tasks,
          ReaperOf,  \* choose_reaper: pid 1, or kthreadd for kernel threads
          NoTask     \* NULL; as the argument of waitpid: any child

Reapers == {ReaperOf[t] : t \in Tasks}

ASSUME TaskLifeAssumption ==
  /\ NoTask \notin Tasks
  /\ ReaperOf \in [Tasks -> Tasks]
  /\ \A r \in Reapers : ReaperOf[r] = r

VARIABLES status, parent, children, on_cpu,
          attached,   \* the tasks on some rq->tasks
          sigchld,    \* SIGCHLD is in signal_pending
          linked,     \* the task's wait node is on its own wait_child
          pc,         \* where the task is in do_exit or do_waitpid
          hand,       \* the task it holds a pointer to there
          want, nohang,  \* the arguments of do_waitpid
          destroyed,  \* how often task_destroy ran on the task
          uaf         \* a task_struct was used after it was freed

vars == <<status, parent, children, on_cpu, attached, sigchld, linked, pc, hand,
          want, nohang, destroyed, uaf>>

ExitPCs == {"x_reparent", "x_check", "x_last", "x_parent", "x_signal", "x_wake",
            "x_sched", "x_destroy", "gone"}
WaitPCs == {"w_find", "w_detach", "w_dead", "w_destroy", "w_recheck", "w_sleep",
            "w_sched"}
PCs == {"none", "user"} \cup ExitPCs \cup WaitPCs

TypeOK ==
  /\ status \in [Tasks -> {"UNUSED", "RUNNING", "SLEEPING", "ZOMBIE", "DEAD", "FREED"}]
  /\ parent \in [Tasks -> Tasks \cup {NoTask}]
  /\ children \in [Tasks -> SUBSET Tasks]
  /\ on_cpu \in [Tasks -> BOOLEAN]
  /\ attached \subseteq Tasks
  /\ sigchld \in [Tasks -> BOOLEAN]
  /\ linked \in [Tasks -> BOOLEAN]
  /\ pc \in [Tasks -> PCs]
  /\ hand \in [Tasks -> Tasks \cup {NoTask}]
  /\ want \in [Tasks -> Tasks \cup {NoTask}]
  /\ nohang \in [Tasks -> BOOLEAN]
  /\ destroyed \in [Tasks -> Nat]
  /\ uaf \in BOOLEAN

Init ==
  /\ status = [t \in Tasks |-> IF t \in Reapers THEN "RUNNING" ELSE "UNUSED"]
  /\ parent = [t \in Tasks |-> NoTask]
  /\ children = [t \in Tasks |-> {}]
  /\ on_cpu = [t \in Tasks |-> t \in Reapers]
  /\ attached = Reapers
  /\ sigchld = [t \in Tasks |-> FALSE]
  /\ linked = [t \in Tasks |-> FALSE]
  /\ pc = [t \in Tasks |-> IF t \in Reapers THEN "user" ELSE "none"]
  /\ hand = [t \in Tasks |-> NoTask]
  /\ want = [t \in Tasks |-> NoTask]
  /\ nohang = [t \in Tasks |-> FALSE]
  /\ destroyed = [t \in Tasks |-> 0]
  /\ uaf = FALSE

-----------------------------------------------------------------------------
Goto(t, label) == pc' = [pc EXCEPT ![t] = label]

(* do_waitpid returns; its local variables are gone. *)
Return(t) ==
  /\ Goto(t, "user")
  /\ hand' = [hand EXCEPT ![t] = NoTask]
  /\ want' = [want EXCEPT ![t] = NoTask]
  /\ nohang' = [nohang EXCEPT ![t] = FALSE]

(* A pointer to t is followed: t must not have been freed. *)
Touch(t) == uaf' = (uaf \/ status[t] = "FREED")

(* wake_up_process *)
WakeUp(p) == status' = [status EXCEPT ![p] = IF @ = "SLEEPING" THEN "RUNNING" ELSE @]

(* wake_up_one(&p->wait_child), under the lock that do_waitpid holds in w_sleep. *)
WakeUpOne(p) ==
  /\ pc[p] # "w_sleep"
  /\ IF linked[p] /\ status[p] = "SLEEPING"
     THEN WakeUp(p) /\ linked' = [linked EXCEPT ![p] = FALSE]
     ELSE UNCHANGED <<status, linked>>

(* task_destroy; its parent pointer has been cleared by do_waitpid. *)
Destroy(t) ==
  /\ destroyed' = [destroyed EXCEPT ![t] = @ + 1]
  /\ status' = [status EXCEPT ![t] = "FREED"]

(***************************************************************************)
(* do_fork_uthread: *tsk = *orig copies on_cpu and the pending signals of  *)
(* the parent; the child is linked, attached and woken.                    *)
(***************************************************************************)
Fork(p, c) ==
  /\ pc[p] = "user" /\ status[c] = "UNUSED"
  /\ status' = [status EXCEPT ![c] = "RUNNING"]
  /\ parent' = [parent EXCEPT ![c] = p]
  /\ children' = [children EXCEPT ![p] = @ \cup {c}]
  /\ on_cpu' = [on_cpu EXCEPT ![c] = on_cpu[p]]
  /\ attached' = attached \cup {c}
  /\ sigchld' = [sigchld EXCEPT ![c] = sigchld[p]]
  /\ Goto(c, "user")
  /\ UNCHANGED <<linked, hand, want, nohang, destroyed, uaf>>

(* handle_pending_signal for SIGCHLD, whatever its handler. *)
HandleSignal(t) ==
  /\ pc[t] = "user" /\ sigchld[t]
  /\ sigchld' = [sigchld EXCEPT ![t] = FALSE]
  /\ UNCHANGED <<status, parent, children, on_cpu, attached, linked, pc, hand, want,
                 nohang, destroyed, uaf>>

-----------------------------------------------------------------------------
(* do_exit up to the end of its rq->lock. *)
Exit(t) ==
  /\ pc[t] = "user"
  /\ status' = [status EXCEPT ![t] = "ZOMBIE"]
  /\ Goto(t, "x_reparent")
  /\ UNCHANGED <<parent, children, on_cpu, attached, sigchld, linked, hand, want,
                 nohang, destroyed, uaf>>

(***************************************************************************)
(* reparent_children, one child: it is first moved, ...  A reaper that     *)
(* exits is its own children's reaper and appends each to the very list it *)
(* walks: with one child the saved next is the head and the walk ends      *)
(* (x_last), with more it never does.                                      *)
(***************************************************************************)
Reparent(t) ==
  /\ pc[t] = "x_reparent"
  /\ \E c \in children[t] :
       LET r == ReaperOf[c]
       IN  /\ parent' = [parent EXCEPT ![c] = r]
           /\ children' = [children EXCEPT ![t] = @ \ {c}, ![r] = @ \cup {c}]
           /\ hand' = [hand EXCEPT ![t] = c]
           /\ Goto(t, IF r = t /\ children[t] = {c} THEN "x_last" ELSE "x_check")
  /\ UNCHANGED <<status, on_cpu, attached, sigchld, linked, want, nohang,
                 destroyed, uaf>>

(* ... then, if it has exited meanwhile, its reaper is woken. *)
ReparentCheck(t) ==
  /\ pc[t] \in {"x_check", "x_last"}
  /\ Touch(hand[t])
  /\ IF status[hand[t]] = "ZOMBIE"
     THEN WakeUpOne(ReaperOf[hand[t]])
     ELSE UNCHANGED <<status, linked>>
  /\ Goto(t, IF pc[t] = "x_last" THEN "x_parent" ELSE "x_reparent")
  /\ UNCHANGED <<parent, children, on_cpu, attached, sigchld, hand, want, nohang, destroyed>>

(* parent = curr->parent, read under no lock. *)
ReadParent(t) ==
  /\ pc[t] = "x_parent" \/ (pc[t] = "x_reparent" /\ children[t] = {})
  /\ hand' = [hand EXCEPT ![t] = parent[t]]
  /\ Goto(t, IF parent[t] = NoTask THEN "x_sched" ELSE "x_signal")
  /\ UNCHANGED <<status, parent, children, on_cpu, attached, sigchld, linked, want,
                 nohang, destroyed, uaf>>

(* send_signal(parent, SIGCHLD) *)
SignalParent(t) ==
  /\ pc[t] = "x_signal"
  /\ Touch(hand[t])
  /\ sigchld' = [sigchld EXCEPT ![hand[t]] = TRUE]
  /\ WakeUp(hand[t])
  /\ Goto(t, "x_wake")
  /\ UNCHANGED <<parent, children, on_cpu, attached, linked, hand, want, nohang,
                 destroyed>>

(* wake_up_one(&parent->wait_child) *)
WakeParent(t) ==
  /\ pc[t] = "x_wake"
  /\ Touch(hand[t])
  /\ WakeUpOne(hand[t])
  /\ hand' = [hand EXCEPT ![t] = NoTask]
  /\ Goto(t, "x_sched")
  /\ UNCHANGED <<parent, children, on_cpu, attached, sigchld, want, nohang,
                 destroyed>>

(* sched_tail(t) by the task that runs next: t is off its CPU from here. *)
SchedTail(t) ==
  /\ pc[t] = "x_sched"
  /\ on_cpu' = [on_cpu EXCEPT ![t] = FALSE]
  /\ Goto(t, IF status[t] = "DEAD" THEN "x_destroy" ELSE "gone")
  /\ UNCHANGED <<status, parent, children, attached, sigchld, linked, hand, want,
                 nohang, destroyed, uaf>>

TailDestroy(t) ==
  /\ pc[t] = "x_destroy"
  /\ Destroy(t)
  /\ Goto(t, "gone")
  /\ UNCHANGED <<parent, children, on_cpu, attached, sigchld, linked, hand, want,
                 nohang, uaf>>

-----------------------------------------------------------------------------
(* do_waitpid(pid, status, options) *)
WaitPid(t, w, opt) ==
  /\ pc[t] = "user"
  /\ want' = [want EXCEPT ![t] = w]
  /\ nohang' = [nohang EXCEPT ![t] = opt]
  /\ Goto(t, "w_find")
  /\ UNCHANGED <<status, parent, children, on_cpu, attached, sigchld, linked, hand, destroyed, uaf>>

Matching(t) == {c \in children[t] : want[t] \in {NoTask, c}}
Exited(t)   == {c \in Matching(t) : status[c] = "ZOMBIE"}

(* wait_find_child_locked finds an exited child: it leaves the family. *)
FindExited(t) ==
  /\ pc[t] = "w_find"
  /\ \E c \in Exited(t) :
       /\ children' = [children EXCEPT ![t] = @ \ {c}]
       /\ parent' = [parent EXCEPT ![c] = NoTask]
       /\ hand' = [hand EXCEPT ![t] = c]
  /\ Goto(t, "w_detach")
  /\ UNCHANGED <<status, on_cpu, attached, sigchld, linked, want, nohang,
                 destroyed, uaf>>

(* No child, WNOHANG or a pending signal: return; else look once more. *)
FindNone(t) ==
  /\ pc[t] = "w_find" /\ Exited(t) = {}
  /\ IF Matching(t) = {} \/ nohang[t] \/ sigchld[t]
     THEN Return(t)
     ELSE Goto(t, "w_recheck") /\ UNCHANGED <<hand, want, nohang>>
  /\ UNCHANGED <<status, parent, children, on_cpu, attached, sigchld, linked, destroyed, uaf>>

(* Mutant: do_waitpid leaves the child on rq->tasks. *)
NoDetach(t) ==
  /\ pc[t] = "w_detach"
  /\ Goto(t, "w_dead")
  /\ UNCHANGED <<status, parent, children, on_cpu, attached, sigchld, linked, hand,
                 want, nohang, destroyed, uaf>>

(* task_detach_from_rq *)
Detach(t) ==
  /\ pc[t] = "w_detach"
  /\ attached' = attached \ {hand[t]}
  /\ Goto(t, "w_dead")
  /\ UNCHANGED <<status, parent, children, on_cpu, sigchld, linked, hand, want,
                 nohang, destroyed, uaf>>

(* Mutant: do_waitpid leaves every child to sched_tail. *)
MarkDeadNoRelease(t) ==
  /\ pc[t] = "w_dead"
  /\ status' = [status EXCEPT ![hand[t]] = "DEAD"]
  /\ Return(t)
  /\ UNCHANGED <<parent, children, on_cpu, attached, sigchld, linked, destroyed, uaf>>

(* Mutant: do_waitpid releases the child even while it is on its CPU. *)
MarkDeadAlwaysRelease(t) ==
  /\ pc[t] = "w_dead"
  /\ status' = [status EXCEPT ![hand[t]] = "DEAD"]
  /\ Goto(t, "w_destroy")
  /\ UNCHANGED <<parent, children, on_cpu, attached, sigchld, linked, hand, want,
                 nohang, destroyed, uaf>>

(* Under child->lock: DEAD, and destroyed here unless still on its CPU. *)
MarkDead(t) ==
  /\ pc[t] = "w_dead"
  /\ status' = [status EXCEPT ![hand[t]] = "DEAD"]
  /\ IF on_cpu[hand[t]]
     THEN Return(t)
     ELSE Goto(t, "w_destroy") /\ UNCHANGED <<hand, want, nohang>>
  /\ UNCHANGED <<parent, children, on_cpu, attached, sigchld, linked, destroyed, uaf>>

WaitDestroy(t) ==
  /\ pc[t] = "w_destroy"
  /\ Destroy(hand[t])
  /\ Return(t)
  /\ UNCHANGED <<parent, children, on_cpu, attached, sigchld, linked, uaf>>

(* Mutant: do_waitpid goes to sleep without looking again. *)
NoRecheck(t) ==
  /\ pc[t] = "w_recheck"
  /\ Goto(t, "w_sleep")
  /\ UNCHANGED <<status, parent, children, on_cpu, attached, sigchld, linked, hand,
                 want, nohang, destroyed, uaf>>

(* The second look, with wait_child.lock held from here to Sleep. *)
Recheck(t) ==
  /\ pc[t] = "w_recheck"
  /\ Goto(t, IF Matching(t) # {} /\ Exited(t) = {} THEN "w_sleep" ELSE "w_find")
  /\ UNCHANGED <<status, parent, children, on_cpu, attached, sigchld, linked, hand,
                 want, nohang, destroyed, uaf>>

(* wait_sleep_on_child *)
Sleep(t) ==
  /\ pc[t] = "w_sleep"
  /\ status' = [status EXCEPT ![t] = "SLEEPING"]
  /\ linked' = [linked EXCEPT ![t] = TRUE]
  /\ Goto(t, "w_sched")
  /\ UNCHANGED <<parent, children, on_cpu, attached, sigchld, hand, want, nohang,
                 destroyed, uaf>>

(* sched() has returned: leave the queue, then EINTR or another turn. *)
Woken(t) ==
  /\ pc[t] = "w_sched" /\ status[t] = "RUNNING"
  /\ linked' = [linked EXCEPT ![t] = FALSE]
  /\ IF sigchld[t]
     THEN Return(t)
     ELSE Goto(t, "w_find") /\ UNCHANGED <<hand, want, nohang>>
  /\ UNCHANGED <<status, parent, children, on_cpu, attached, sigchld, destroyed, uaf>>

-----------------------------------------------------------------------------
ExitStep(t) ==
  \/ Reparent(t) \/ ReparentCheck(t) \/ ReadParent(t) \/ SignalParent(t)
  \/ WakeParent(t) \/ SchedTail(t) \/ TailDestroy(t)

WaitStep(t) ==
  \/ FindExited(t) \/ FindNone(t) \/ Detach(t) \/ MarkDead(t) \/ WaitDestroy(t)
  \/ Recheck(t) \/ Sleep(t) \/ Woken(t)

Next ==
  \E t \in Tasks :
    \/ ExitStep(t) \/ WaitStep(t) \/ Exit(t) \/ HandleSignal(t)
    \/ \E c \in Tasks : Fork(t, c)
    \/ \E w \in Tasks \cup {NoTask}, opt \in BOOLEAN : WaitPid(t, w, opt)

Spec == Init /\ [][Next]_vars

(* A task in a system call gets the CPU and goes on, unless it sleeps. *)
FairSpec ==
  Spec /\ \A t \in Tasks : WF_vars(ExitStep(t)) /\ WF_vars(WaitStep(t))

-----------------------------------------------------------------------------
(***************************************************************************)
(* task_destroy runs at most once on a task, and never while the task is   *)
(* on a CPU: do_waitpid and sched_tail agree through child->lock on which  *)
(* of them releases it, whoever comes first.                               *)
(***************************************************************************)
DestroyedOnce ==
  \A t \in Tasks : destroyed[t] <= 1 /\ (destroyed[t] = 1 => ~on_cpu[t])

(***************************************************************************)
(* A freed task can no longer be found: it is on no rq->tasks (which ps,   *)
(* kill and find_task_by_pid walk), in no list of children, nobody's       *)
(* parent, and on no wait queue.                                           *)
(***************************************************************************)
FreedIsUnreachable ==
  \A t \in Tasks : status[t] = "FREED" =>
    /\ t \notin attached /\ ~linked[t] /\ children[t] = {}
    /\ \A u \in Tasks : t \notin children[u] /\ parent[u] # t

(***************************************************************************)
(* do_waitpid never sleeps through an exit: while a task sleeps there with *)
(* an exited child it waits for, somebody has yet to wake it, be it the    *)
(* child itself or a parent that reparents the child to it.                *)
(***************************************************************************)
NoLostChild ==
  \A p \in Tasks, c \in Tasks :
    (status[p] = "SLEEPING" /\ c \in Exited(p)) =>
      \/ pc[c] \in {"x_reparent", "x_check", "x_last", "x_parent"}
      \/ pc[c] \in {"x_signal", "x_wake"} /\ hand[c] = p
      \/ \E q \in Tasks : pc[q] \in {"x_check", "x_last"} /\ hand[q] = c

(***************************************************************************)
(* An exited child is destroyed in the end if its parent, by birth or as   *)
(* its reaper, keeps calling waitpid for any child.                        *)
(***************************************************************************)
WaitsForever(p) == []<>(pc[p] = "w_find" /\ want[p] = NoTask)

ExitedAreReaped ==
  \A p \in Tasks :
    WaitsForever(p) =>
      \A t \in Tasks : (status[t] = "ZOMBIE" /\ parent[t] = p) ~> (status[t] = "FREED")

(***************************************************************************)
(* What enum task_status says of TASK_DEAD, that the task can be freed     *)
(* safely: nobody follows a pointer to it any more.  It fails: README,     *)
(* section 6.                                                              *)
(***************************************************************************)
NoUseAfterFree == ~uaf
=============================================================================
