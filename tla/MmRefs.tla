------------------------------- MODULE MmRefs -------------------------------
(***************************************************************************)
(* Who keeps an address space: the reference count of mm_struct            *)
(* (mm/mm.c) over fork, exec, exit and the context switch                  *)
(* (kernel/sched/fork.c, core.c, exit.c, wait.c, fs/exec.c).               *)
(*                                                                         *)
(* A user task owns a reference to its mm.  A kernel thread has none and   *)
(* borrows the space that is loaded when it is switched to; a chain of     *)
(* kernel threads hands one borrowed reference on.  init_mm is never       *)
(* counted.  Several CPUs run at once; a task loses its CPU only where it  *)
(* calls sched(): on the way back to user mode, when it sleeps, when it    *)
(* has exited.  What a task sleeps for is left out: any task that is alive *)
(* may be the next on its CPU.  So is allocation failure, which leaves the *)
(* counts as they were.                                                    *)
(***************************************************************************)
EXTENDS Integers, FiniteSets

CONSTANTS CPUs, Tasks,
          Idle,      \* the idle task of each CPU
          Boot,      \* kernel_init, the kernel thread that executes /bin/init
          BootCpu,
          Mms,       \* the mm_structs kmalloc can hand out
          NoTask, NoMm, InitMm

ASSUME MmRefsAssumption ==
  /\ Idle \in [CPUs -> Tasks] /\ \A c, d \in CPUs : Idle[c] = Idle[d] => c = d
  /\ Boot \in Tasks /\ \A c \in CPUs : Idle[c] # Boot
  /\ BootCpu \in CPUs
  /\ NoTask \notin Tasks /\ NoMm \notin Mms /\ InitMm \notin Mms /\ NoMm # InitMm
  /\ IsFiniteSet(Mms) /\ IsFiniteSet(Tasks) /\ IsFiniteSet(CPUs)

Idles == {Idle[c] : c \in CPUs}

VARIABLES status,   \* "unused", "embryo" (in fork), "alive", "zombie", "dead"
          cpu,      \* thread_info->cpu
          mm, active,        \* task->mm, task->active_mm
          stage,    \* "run", in "exec", or in flush_old_exec before the "load"
          bprm,     \* bprm->mm of a task in exec
          child,    \* the task that a task in fork has made
          curr,     \* rq->curr
          sw,       \* the switch in progress on a CPU: where, from whom, old_active
          loaded,   \* the space whose page table the CPU uses
          refcount, spaces   \* mm->refcount, and which mm_structs are allocated

vars == <<status, cpu, mm, active, stage, bprm, child, curr, sw, loaded, refcount, spaces>>

NoSwitch == [at |-> "done", prev |-> NoTask, old |-> NoMm]

(* Both CPUs idle; the idle task of the boot CPU is init_task. *)
Init ==
  /\ status = [t \in Tasks |-> IF t \in Idles \cup {Boot} THEN "alive" ELSE "unused"]
  /\ cpu = [t \in Tasks |-> IF t \in Idles THEN CHOOSE c \in CPUs : Idle[c] = t ELSE BootCpu]
  /\ mm = [t \in Tasks |-> NoMm]
  /\ active = [t \in Tasks |-> IF t = Idle[BootCpu] THEN InitMm ELSE NoMm]
  /\ stage = [t \in Tasks |-> "run"]
  /\ bprm = [t \in Tasks |-> NoMm]
  /\ child = [t \in Tasks |-> NoTask]
  /\ curr = Idle
  /\ sw = [c \in CPUs |-> NoSwitch]
  /\ loaded = [c \in CPUs |-> InitMm]
  /\ refcount = [m \in Mms |-> 0]
  /\ spaces = {}

-----------------------------------------------------------------------------
Counted(m) == m \in Mms

(* mmget *)
Got(m) == IF Counted(m) THEN [refcount EXCEPT ![m] = @ + 1] ELSE refcount

(* mmput of the spaces in ms one after the other: the counts, what is left. *)
Times(ms, m) == Cardinality({i \in DOMAIN ms : ms[i] = m})

mmput(ms) ==
  /\ refcount' = [m \in Mms |-> refcount[m] - Times(ms, m)]
  /\ spaces' = {m \in spaces : ~(Times(ms, m) > 0 /\ refcount[m] <= Times(ms, m))}

(* mm_alloc *)
mm_alloc(m) ==
  /\ m \in Mms \ spaces
  /\ spaces' = spaces \cup {m}
  /\ refcount' = [refcount EXCEPT ![m] = 1]

(* What task_set_mm and task_drop_mm put for a task. *)
Dropped(t) == <<mm[t], IF active[t] # mm[t] THEN active[t] ELSE NoMm>>

(* task_destroy: task_drop_mm, and the task_struct is free again. *)
task_destroy(t) ==
  /\ status' = [status EXCEPT ![t] = "unused"]
  /\ mm' = [mm EXCEPT ![t] = NoMm]
  /\ active' = [active EXCEPT ![t] = NoMm]
  /\ mmput(Dropped(t))

-----------------------------------------------------------------------------
(* The task that runs on c, outside sched(), with its fork or exec at s. *)
Runs(c, t, s) == curr[c] = t /\ sw[c] = NoSwitch /\ stage[t] = s /\ child[t] = NoTask

OnCpu(t) == \E c \in CPUs : curr[c] = t \/ sw[c].prev = t

(***************************************************************************)
(* sched: pick next, then sched_switch_mm as far as the references that    *)
(* next gets.                                                              *)
(***************************************************************************)
OldActive(prev) ==
  IF mm[prev] = NoMm /\ active[prev] # InitMm THEN active[prev] ELSE NoMm

Borrowed(prev) == IF active[prev] = NoMm THEN InitMm ELSE active[prev]

(* Mutant: a kernel thread borrows without a reference. *)
BorrowUncounted(c, prev, next) ==
  /\ active' = [active EXCEPT ![next] = Borrowed(prev)]
  /\ sw' = [sw EXCEPT ![c] = [at |-> "load", prev |-> prev, old |-> OldActive(prev)]]
  /\ UNCHANGED refcount

Borrow(c, prev, next) ==
  /\ active' = [active EXCEPT ![next] = Borrowed(prev)]
  /\ sw' = [sw EXCEPT ![c] = [at |-> "load", prev |-> prev, old |-> OldActive(prev)]]
  /\ refcount' = Got(Borrowed(prev))

(* Mutant: the one that hands on forgets to let go. *)
HandOnAndKeep(c, prev, next) ==
  /\ active' = [active EXCEPT ![next] = active[prev]]
  /\ sw' = [sw EXCEPT ![c] = [at |-> "load", prev |-> prev, old |-> NoMm]]
  /\ UNCHANGED refcount

HandOn(c, prev, next) ==
  /\ active' = [active EXCEPT ![next] = active[prev], ![prev] = NoMm]
  /\ sw' = [sw EXCEPT ![c] = [at |-> "load", prev |-> prev, old |-> NoMm]]
  /\ UNCHANGED refcount

UseOwn(c, prev, next) ==
  /\ active' = [active EXCEPT ![next] = mm[next]]
  /\ sw' = [sw EXCEPT ![c] = [at |-> "load", prev |-> prev, old |-> OldActive(prev)]]
  /\ UNCHANGED refcount

Sched(c, next) ==
  LET prev == curr[c]
  IN  /\ sw[c] = NoSwitch /\ stage[prev] # "load" /\ child[prev] = NoTask
      /\ next # prev /\ cpu[next] = c /\ status[next] = "alive"
      /\ curr' = [curr EXCEPT ![c] = next]
      /\ \/ mm[next] # NoMm /\ UseOwn(c, prev, next)
         \/ mm[next] = NoMm /\ Borrowed(prev) = OldActive(prev) /\ HandOn(c, prev, next)
         \/ mm[next] = NoMm /\ Borrowed(prev) # OldActive(prev) /\ Borrow(c, prev, next)
      /\ UNCHANGED <<status, cpu, mm, stage, bprm, child, loaded, spaces>>

(* pgtbl_switch_to *)
SwitchLoad(c) ==
  /\ sw[c].at = "load"
  /\ loaded' = [loaded EXCEPT ![c] = active[curr[c]]]
  /\ sw' = [sw EXCEPT ![c].at = "put"]
  /\ UNCHANGED <<status, cpu, mm, active, stage, bprm, child, curr, refcount, spaces>>

(* The end of sched_switch_mm. *)
SwitchPut(c) ==
  /\ sw[c].at = "put"
  /\ active' = IF sw[c].old = NoMm THEN active ELSE [active EXCEPT ![sw[c].prev] = NoMm]
  /\ mmput(<<sw[c].old>>)
  /\ sw' = [sw EXCEPT ![c].at = "tail", ![c].old = NoMm]
  /\ UNCHANGED <<status, cpu, mm, stage, bprm, child, curr, loaded>>

(* sched_tail: prev is off the CPU, and freed if it has been waited for. *)
SwitchTail(c) ==
  /\ sw[c].at = "tail"
  /\ sw' = [sw EXCEPT ![c] = NoSwitch]
  /\ IF status[sw[c].prev] = "dead" THEN task_destroy(sw[c].prev)
     ELSE UNCHANGED <<status, mm, active, refcount, spaces>>
  /\ UNCHANGED <<cpu, stage, bprm, child, curr, loaded>>

-----------------------------------------------------------------------------
(* do_fork_uthread up to dup_mm, with CLONE_VM or a copy. *)
ForkMm(c, p, shares) ==
  LET t == curr[c]
  IN  /\ Runs(c, t, "run") /\ status[t] = "alive" /\ mm[t] # NoMm
      /\ status[p] = "unused"
      /\ status' = [status EXCEPT ![p] = "embryo"]
      /\ child' = [child EXCEPT ![t] = p]
      /\ \E d \in CPUs : cpu' = [cpu EXCEPT ![p] = d]     \* sched_select_task_cpu
      /\ \/ shares /\ mm' = [mm EXCEPT ![p] = mm[t]]
                   /\ refcount' = Got(mm[t]) /\ UNCHANGED spaces
         \/ ~shares /\ \E m \in Mms : mm_alloc(m) /\ mm' = [mm EXCEPT ![p] = m]
      /\ UNCHANGED <<active, stage, bprm, curr, sw, loaded>>

(* task_attach_to_rq and wake_up_process *)
ForkDone(c) ==
  LET t == curr[c]
  IN  /\ child[t] # NoTask
      /\ status' = [status EXCEPT ![child[t]] = "alive"]
      /\ child' = [child EXCEPT ![t] = NoTask]
      /\ UNCHANGED <<cpu, mm, active, stage, bprm, curr, sw, loaded, refcount, spaces>>

(* parent_tid_failed, child_tid_failed: mm_destroy(new_mm), the task is freed. *)
ForkFails(c) ==
  LET t == curr[c]
  IN  /\ child[t] # NoTask
      /\ status' = [status EXCEPT ![child[t]] = "unused"]
      /\ child' = [child EXCEPT ![t] = NoTask]
      /\ mm' = [mm EXCEPT ![child[t]] = NoMm]
      /\ mmput(<<mm[child[t]]>>)
      /\ UNCHANGED <<cpu, active, stage, bprm, curr, sw, loaded>>

(* do_fork_kthread, called by init_task at boot and by kernel threads. *)
ForkKthread(c, p) ==
  /\ Runs(c, curr[c], "run") /\ mm[curr[c]] = NoMm /\ status[curr[c]] = "alive"
  /\ curr[c] \in Idles => curr[c] = Idle[BootCpu]
  /\ status[p] = "unused"
  /\ status' = [status EXCEPT ![p] = "alive"]
  /\ \E d \in CPUs : cpu' = [cpu EXCEPT ![p] = d]
  /\ UNCHANGED <<mm, active, stage, bprm, child, curr, sw, loaded, refcount, spaces>>

-----------------------------------------------------------------------------
(* do_execve: bprm_mm_init.  The task may then sleep, reading the file. *)
ExecBegin(c) ==
  LET t == curr[c]
  IN  /\ Runs(c, t, "run") /\ status[t] = "alive" /\ (t = Boot \/ mm[t] # NoMm)
      /\ \E m \in Mms : mm_alloc(m) /\ bprm' = [bprm EXCEPT ![t] = m]
      /\ stage' = [stage EXCEPT ![t] = "exec"]
      /\ UNCHANGED <<status, cpu, mm, active, child, curr, sw, loaded>>

(* bprm_mm_deinit, or out_fail of load_elf_binary. *)
ExecFails(c) ==
  LET t == curr[c]
  IN  /\ Runs(c, t, "exec")
      /\ mmput(<<bprm[t]>>)
      /\ bprm' = [bprm EXCEPT ![t] = NoMm]
      /\ stage' = [stage EXCEPT ![t] = "run"]
      /\ UNCHANGED <<status, cpu, mm, active, child, curr, sw, loaded>>

(* flush_old_exec: task_set_mm, which may free what the CPU has loaded... *)
ExecSetMm(c) ==
  LET t == curr[c]
  IN  /\ Runs(c, t, "exec")
      /\ mm' = [mm EXCEPT ![t] = bprm[t]]
      /\ active' = [active EXCEPT ![t] = bprm[t]]
      /\ mmput(Dropped(t))
      /\ bprm' = [bprm EXCEPT ![t] = NoMm]
      /\ stage' = [stage EXCEPT ![t] = "load"]
      /\ UNCHANGED <<status, cpu, child, curr, sw, loaded>>

(* Mutant: exec leaves the old page table loaded. *)
ExecNoLoad(c) ==
  LET t == curr[c]
  IN  /\ Runs(c, t, "load")
      /\ stage' = [stage EXCEPT ![t] = "run"]
      /\ UNCHANGED <<status, cpu, mm, active, bprm, child, curr, sw, loaded, refcount, spaces>>

(* ... and pgtbl_switch_to. *)
ExecLoad(c) ==
  LET t == curr[c]
  IN  /\ Runs(c, t, "load")
      /\ loaded' = [loaded EXCEPT ![c] = active[t]]
      /\ stage' = [stage EXCEPT ![t] = "run"]
      /\ UNCHANGED <<status, cpu, mm, active, bprm, child, curr, sw, refcount, spaces>>

-----------------------------------------------------------------------------
(* do_exit, up to its sched(). *)
Exit(c) ==
  LET t == curr[c]
  IN  /\ Runs(c, t, "run") /\ status[t] = "alive" /\ t \notin Idles
      /\ status' = [status EXCEPT ![t] = "zombie"]
      /\ UNCHANGED <<cpu, mm, active, stage, bprm, child, curr, sw, loaded, refcount, spaces>>

(* do_waitpid of the task's parent or reaper, on some CPU. *)
Reap(t) ==
  /\ status[t] = "zombie"
  /\ IF OnCpu(t) THEN /\ status' = [status EXCEPT ![t] = "dead"]
                      /\ UNCHANGED <<mm, active, refcount, spaces>>
     ELSE task_destroy(t)
  /\ UNCHANGED <<cpu, stage, bprm, child, curr, sw, loaded>>

Next ==
  \/ \E c \in CPUs :
       \/ SwitchLoad(c) \/ SwitchPut(c) \/ SwitchTail(c)
       \/ ForkDone(c) \/ ForkFails(c)
       \/ ExecBegin(c) \/ ExecFails(c) \/ ExecSetMm(c) \/ ExecLoad(c) \/ Exit(c)
       \/ \E t \in Tasks :
            \/ Sched(c, t) \/ ForkKthread(c, t)
            \/ \E shares \in BOOLEAN : ForkMm(c, t, shares)
  \/ \E t \in Tasks : Reap(t)

Spec == Init /\ [][Next]_vars

-----------------------------------------------------------------------------
TypeOK ==
  /\ status \in [Tasks -> {"unused", "embryo", "alive", "zombie", "dead"}]
  /\ cpu \in [Tasks -> CPUs]
  /\ mm \in [Tasks -> Mms \cup {NoMm}]
  /\ active \in [Tasks -> Mms \cup {NoMm, InitMm}]
  /\ stage \in [Tasks -> {"run", "exec", "load"}]
  /\ bprm \in [Tasks -> Mms \cup {NoMm}]
  /\ child \in [Tasks -> Tasks \cup {NoTask}]
  /\ curr \in [CPUs -> Tasks]
  /\ sw \in [CPUs -> [at : {"done", "load", "put", "tail"}, prev : Tasks \cup {NoTask},
                      old : Mms \cup {NoMm}]]
  /\ loaded \in [CPUs -> Mms \cup {InitMm}]
  /\ refcount \in [Mms -> Nat]
  /\ spaces \subseteq Mms

(***************************************************************************)
(* The references to a space that somebody will put: of its user tasks, of *)
(* the kernel threads that borrow it, of execs that have not committed it. *)
(***************************************************************************)
Holds(kind, t, m) ==
  \/ kind = "mm" /\ mm[t] = m
  \/ kind = "borrowed" /\ mm[t] = NoMm /\ active[t] = m
  \/ kind = "bprm" /\ bprm[t] = m

Holders(m) ==
  {h \in {"mm", "borrowed", "bprm"} \X Tasks : Holds(h[1], h[2], m)}

(***************************************************************************)
(* mm->refcount is at every moment the number of holders, and a space is   *)
(* allocated exactly while it has one: mmput neither underflows nor leaks, *)
(* whatever way the references take through switches, forks and execs.     *)
(***************************************************************************)
RefsExact ==
  /\ TypeOK
  /\ \A m \in Mms : /\ refcount[m] = Cardinality(Holders(m))
                    /\ m \in spaces <=> Holders(m) # {}

(***************************************************************************)
(* The page table a CPU uses has not been freed.  (flush_old_exec drops    *)
(* the old space before it loads the new one: that window is excepted.)    *)
(***************************************************************************)
LoadedIsLive ==
  \A c \in CPUs : stage[curr[c]] # "load" => loaded[c] \in spaces \cup {InitMm}

(***************************************************************************)
(* No CPU uses a freed page table, also while it switches; outside sched() *)
(* and flush_old_exec a user task runs on its own space, and a kernel      *)
(* thread on the one it has a reference to.                                *)
(***************************************************************************)
RunsOnItsSpace ==
  /\ LoadedIsLive
  /\ \A c \in CPUs : sw[c] = NoSwitch /\ stage[curr[c]] # "load" =>
       /\ mm[curr[c]] # NoMm => loaded[c] = mm[curr[c]]
       /\ loaded[c] = Borrowed(curr[c])

(***************************************************************************)
(* Only a thread on a CPU borrows: exited processes' spaces stay behind in *)
(* no more places than there are CPUs.                                     *)
(***************************************************************************)
OnlyRunningBorrow ==
  \A t \in Tasks : mm[t] = NoMm /\ Counted(active[t]) => OnCpu(t)
=============================================================================
