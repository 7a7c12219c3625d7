------------------------------ MODULE Kthreadd ------------------------------
(***************************************************************************)
(* kthread_create and the daemon kthreadd that serves it (fork.c), with    *)
(* the completion they meet on (completion.c) and sleep_on / wake_up_one   *)
(* (core.c).                                                               *)
(*                                                                         *)
(* A critical section of a wait queue is one step; kthread_create_list and *)
(* completion.done are touched under no lock, one step per access.  What   *)
(* each caller of kthread_create owns is named by the caller: its request, *)
(* its completion, the thread made for it.                                 *)
(***************************************************************************)
EXTENDS WaitList

CONSTANTS Creators,  \* the tasks that call kthread_create, once each
          Exiting,   \* those whose thread may exit again
          Daemon     \* kthreadd_task

Tasks == Creators \cup {Daemon}

(* The heads of kthread_create_list, kthread_create_wait and done.wait. *)
ReqHead     == <<"kthread_create_list", "head">>
WaitHead    == <<"kthread_create_wait", "head">>
DoneHead(x) == <<x, "done">>

(* A list head is nobody's node. *)
ASSUME KthreaddAssumption ==
  /\ Daemon \notin Creators /\ Exiting \subseteq Creators
  /\ ReqHead \notin Creators /\ WaitHead \notin Tasks
  /\ \A x \in Creators : DoneHead(x) \notin Tasks

ReqNodes  == Creators \cup {ReqHead}
WaitNodes == Tasks \cup {WaitHead} \cup {DoneHead(x) : x \in Creators}

VARIABLES pc,      \* where each creator, and the daemon, is
          status,  \* task->status
          reqs,    \* the pointers of kthread_create_list
          list,    \* the pointers of all wait queues
          at,      \* the list position read by a creator (prev) ...
          tmp,     \* ... and the two of kthreadd's walk: at[Daemon], tmp
          done,    \* completion.done of each request
          made,    \* how many threads were made for a request
          zombie,  \* the threads that have exited and are not yet reaped
          exited,  \* the threads that have exited
          spinning \* who walks a broken wait queue for ever

vars == <<pc, status, reqs, list, at, tmp, done, made, zombie, exited, spinning>>

CreatorPCs == {"idle", "link", "wake", "check", "sleep", "sched", "returned"}
DaemonPCs  == {"reap", "test", "sleep", "sched", "walk", "create", "complete", "wake"}

Init ==
  /\ pc = [t \in Tasks |-> IF t = Daemon THEN "reap" ELSE "idle"]
  /\ status = [t \in Tasks |-> "RUNNING"]
  /\ reqs = EmptyList(ReqNodes)
  /\ list = EmptyList(WaitNodes)
  /\ at = [t \in Tasks |-> ReqHead]
  /\ tmp = ReqHead
  /\ done = [x \in Creators |-> 0]
  /\ made = [x \in Creators |-> 0]
  /\ zombie = {} /\ exited = {} /\ spinning = {}

-----------------------------------------------------------------------------
Goto(t, label) == pc' = [pc EXCEPT ![t] = label]

(* sleep_on(head), up to its call of sched(). *)
SleepOn(t, head) ==
  /\ pc[t] = "sleep"
  /\ status' = [status EXCEPT ![t] = "SLEEPING"]
  /\ list' = ListAddTail(list, head, t)
  /\ Goto(t, "sched")
  /\ UNCHANGED <<reqs, at, tmp, done, made, zombie, exited, spinning>>

Sleepers == {t \in Tasks : status[t] = "SLEEPING"}

(* Mutant: the node of the task that is woken stays on the queue. *)
WakeUpOneKeepsNode(t, head, label) ==
  LET w == FirstIn(list, head, Sleepers)
  IN  /\ status' = [u \in Tasks |-> IF u = w THEN "RUNNING" ELSE status[u]]
      /\ Goto(t, label)
      /\ UNCHANGED <<list, spinning>>

(* wake_up_one(head) called by t, which goes on at label. *)
WakeUpOne(t, head, label) ==
  LET w == FirstIn(list, head, Sleepers)
  IN  \/ /\ w = head
         /\ Goto(t, label)
         /\ spinning' = spinning \ {t}
         /\ UNCHANGED <<status, list>>
      \/ /\ w \in Sleepers
         /\ list' = ListDel(list, w)
         /\ status' = [status EXCEPT ![w] = "RUNNING"]
         /\ Goto(t, label)
         /\ spinning' = spinning \ {t}
      \/ /\ ~WalkEnds(list, head, Sleepers) /\ t \notin spinning
         /\ spinning' = spinning \cup {t}
         /\ UNCHANGED <<pc, status, list>>

(* sched() returns to a task that has been made RUNNING. *)
Resume(t) ==
  /\ pc[t] = "sched" /\ status[t] = "RUNNING"
  /\ Goto(t, IF t = Daemon THEN "reap" ELSE "check")
  /\ UNCHANGED <<status, reqs, list, at, tmp, done, made, zombie, exited, spinning>>

-----------------------------------------------------------------------------
(* kthread_create: list_add_tail, which reads head->prev ... *)
Request(x) ==
  /\ pc[x] = "idle"
  /\ at' = [at EXCEPT ![x] = reqs.prev[ReqHead]]
  /\ Goto(x, "link")
  /\ UNCHANGED <<status, reqs, list, tmp, done, made, zombie, exited, spinning>>

(* ... and then stores the four pointers. *)
Link(x) ==
  /\ pc[x] = "link"
  /\ reqs' = ListAddBetween(reqs, x, at[x], ReqHead)
  /\ Goto(x, "wake")
  /\ UNCHANGED <<status, list, at, tmp, done, made, zombie, exited, spinning>>

(* wake_up_one(&kthread_create_wait) *)
WakeDaemon(x) ==
  /\ pc[x] = "wake"
  /\ WakeUpOne(x, WaitHead, "check")
  /\ UNCHANGED <<reqs, at, tmp, done, made, zombie, exited>>

(* wait_for_completion: under the lock take done, or let go and sleep. *)
Check(x) ==
  /\ pc[x] = "check"
  /\ IF done[x] > 0
     THEN Goto(x, "returned") /\ done' = [done EXCEPT ![x] = @ - 1]
     ELSE Goto(x, "sleep") /\ UNCHANGED done
  /\ UNCHANGED <<status, reqs, list, at, tmp, made, zombie, exited, spinning>>

(* The thread made for x exits: do_exit sends SIGCHLD to kthreadd. *)
ThreadExit(x) ==
  /\ x \in Exiting /\ made[x] > 0 /\ x \notin exited
  /\ exited' = exited \cup {x}
  /\ zombie' = zombie \cup {x}
  /\ status' = [status EXCEPT ![Daemon] = "RUNNING"]
  /\ UNCHANGED <<pc, reqs, list, at, tmp, done, made, spinning>>

-----------------------------------------------------------------------------
(* while (do_waitpid(-1, &status, WNOHANG) > 0) *)
Reap ==
  /\ pc[Daemon] = "reap"
  /\ \/ \E x \in zombie : zombie' = zombie \ {x} /\ UNCHANGED pc
     \/ zombie = {} /\ Goto(Daemon, "test") /\ UNCHANGED zombie
  /\ UNCHANGED <<status, reqs, list, at, tmp, done, made, exited, spinning>>

(* list_empty(&kthread_create_list): sleep, or walk from the first request. *)
Test ==
  /\ pc[Daemon] = "test"
  /\ IF ListIsEmpty(reqs, ReqHead)
     THEN Goto(Daemon, "sleep") /\ UNCHANGED <<at, tmp>>
     ELSE /\ Goto(Daemon, "walk")
          /\ at' = [at EXCEPT ![Daemon] = reqs.next[ReqHead]]
          /\ tmp' = reqs.next[reqs.next[ReqHead]]
  /\ UNCHANGED <<status, reqs, list, done, made, zombie, exited, spinning>>

(* kernel_thread(info->threadfn, info->data), unless the walk is over. *)
Create ==
  /\ pc[Daemon] = "walk"
  /\ LET x == at[Daemon]
     IN  IF x = ReqHead
         THEN Goto(Daemon, "reap") /\ UNCHANGED made
         ELSE /\ made' = [made EXCEPT ![x] = @ + 1]
              /\ Goto(Daemon, "create")
  /\ UNCHANGED <<status, reqs, list, at, tmp, done, zombie, exited, spinning>>

(* Mutant: kthreadd leaves the request on the list. *)
KeepRequest ==
  /\ pc[Daemon] = "create"
  /\ Goto(Daemon, "complete")
  /\ UNCHANGED <<status, reqs, list, at, tmp, done, made, zombie, exited, spinning>>

(* list_del(&info->list) *)
Unlink ==
  /\ pc[Daemon] = "create"
  /\ reqs' = ListDel(reqs, at[Daemon])
  /\ Goto(Daemon, "complete")
  /\ UNCHANGED <<status, list, at, tmp, done, made, zombie, exited, spinning>>

(* complete(info->done): x->done++ under no lock, ... *)
Complete ==
  /\ pc[Daemon] = "complete"
  /\ done' = [done EXCEPT ![at[Daemon]] = @ + 1]
  /\ Goto(Daemon, "wake")
  /\ UNCHANGED <<status, reqs, list, at, tmp, made, zombie, exited, spinning>>

(* ... wake_up_one(&x->wait), and the walk moves on to tmp. *)
WakeCreator ==
  /\ pc[Daemon] = "wake"
  /\ WakeUpOne(Daemon, DoneHead(at[Daemon]), "walk")
  /\ IF Daemon \in spinning'
     THEN UNCHANGED <<at, tmp>>
     ELSE at' = [at EXCEPT ![Daemon] = tmp] /\ tmp' = reqs.next[tmp]
  /\ UNCHANGED <<reqs, done, made, zombie, exited>>

-----------------------------------------------------------------------------
CreatorStep(x) ==
  Link(x) \/ WakeDaemon(x) \/ Check(x) \/ SleepOn(x, DoneHead(x)) \/ Resume(x)

DaemonStep ==
  \/ Reap \/ Test \/ Create \/ Unlink \/ Complete \/ WakeCreator
  \/ SleepOn(Daemon, WaitHead) \/ Resume(Daemon)

Next ==
  \/ DaemonStep
  \/ \E x \in Creators : Request(x) \/ CreatorStep(x) \/ ThreadExit(x)

Spec == Init /\ [][Next]_vars

-----------------------------------------------------------------------------
TypeOK ==
  /\ pc \in [Tasks -> CreatorPCs \cup DaemonPCs]
  /\ status \in [Tasks -> {"RUNNING", "SLEEPING"}]
  /\ reqs \in [next : [ReqNodes -> ReqNodes], prev : [ReqNodes -> ReqNodes]]
  /\ list \in [next : [WaitNodes -> WaitNodes], prev : [WaitNodes -> WaitNodes]]
  /\ at \in [Tasks -> ReqNodes] /\ tmp \in ReqNodes
  /\ done \in [Creators -> Nat] /\ made \in [Creators -> Nat]
  /\ zombie \subseteq exited /\ exited \subseteq Creators /\ spinning \subseteq Tasks

(***************************************************************************)
(* kthread_create returns only once its thread exists, and no request is   *)
(* served twice, however the unlocked list was raced for.                  *)
(***************************************************************************)
CreatedOnce ==
  \A x \in Creators : made[x] <= 1 /\ (pc[x] = "returned" => made[x] = 1)

(***************************************************************************)
(* While no made thread exits, the daemon is on kthread_create_wait only   *)
(* while it sleeps: sleep_on never links a node that is already linked,    *)
(* and every wait queue stays a list.                                      *)
(***************************************************************************)
QueuesAreSound ==
  /\ TypeOK
  /\ exited = {} =>
       /\ WellLinked(list)
       /\ \A t \in Tasks : list.next[t] # t <=> t \in Sleepers
=============================================================================
