---------------------------- MODULE MmRefsProofs ----------------------------
(***************************************************************************)
(* The references to address spaces are exact for any number of CPUs,      *)
(* tasks and spaces: no space is freed while a task or a CPU uses it, and  *)
(* none is leaked.                                                         *)
(***************************************************************************)
EXTENDS MmRefs, FiniteSetTheorems, TLAPS

(* A task is on the CPU it belongs to, and on no other, while it exists. *)
Places ==
  \A c \in CPUs :
    /\ cpu[curr[c]] = c /\ status[curr[c]] \in {"alive", "zombie", "dead"}
    /\ sw[c].at = "done" => sw[c] = NoSwitch
    /\ sw[c].at # "done" =>
         /\ sw[c].prev \in Tasks /\ sw[c].prev # curr[c] /\ cpu[sw[c].prev] = c
         /\ status[sw[c].prev] \in {"alive", "zombie", "dead"}

(* Only a running task is in fork; the child it makes is nobody else's. *)
Forks ==
  \A t \in Tasks :
    /\ child[t] # NoTask =>
         /\ curr[cpu[t]] = t /\ sw[cpu[t]] = NoSwitch
         /\ status[child[t]] = "embryo"
         /\ \A u \in Tasks : child[u] = child[t] => u = t
    /\ status[t] = "embryo" => mm[t] # NoMm /\ active[t] = NoMm
    /\ status[t] = "unused" => mm[t] = NoMm /\ active[t] = NoMm
    /\ status[t] # "alive" => child[t] = NoTask /\ stage[t] = "run"

(* The space that exec builds is the task's alone until it is committed. *)
Execs ==
  \A t \in Tasks :
    /\ bprm[t] # NoMm <=> stage[t] = "exec"
    /\ bprm[t] # NoMm =>
         \A u \in Tasks : /\ mm[u] # bprm[t] /\ active[u] # bprm[t]
                          /\ bprm[u] = bprm[t] => u = t
    /\ stage[t] = "load" => curr[cpu[t]] = t /\ sw[cpu[t]] = NoSwitch /\ mm[t] # NoMm

(* active_mm: of a user task its own space, of a kernel thread off its CPU none. *)
Actives ==
  /\ \A t \in Tasks : mm[t] # NoMm => active[t] \in {mm[t], NoMm}
  /\ \A c \in CPUs : mm[curr[c]] # NoMm => active[curr[c]] = mm[curr[c]]
  /\ OnlyRunningBorrow
  /\ \A c \in CPUs : sw[c].at # "done" =>
       /\ active[curr[c]] # NoMm
       /\ sw[c].old # NoMm => mm[sw[c].prev] = NoMm /\ active[sw[c].prev] = sw[c].old
       /\ sw[c].old = NoMm => mm[sw[c].prev] # NoMm \/ ~Counted(active[sw[c].prev])
       /\ sw[c].at = "tail" => sw[c].old = NoMm

Keeps(t, m) == mm[t] = m \/ (mm[t] = NoMm /\ active[t] = m)

(* What keeps the page table of a CPU: the task that runs, or while the    *)
(* switch has not loaded the new one, the task that leaves or the next.    *)
Loads ==
  \A c \in CPUs :
    IF sw[c].at = "load"
    THEN \/ loaded[c] = InitMm
         \/ Keeps(sw[c].prev, loaded[c]) \/ Keeps(curr[c], loaded[c])
    ELSE stage[curr[c]] # "load" => loaded[c] = Borrowed(curr[c])

(* The count of one space. *)
CountOf(m) ==
  /\ refcount[m] \in Nat
  /\ refcount[m] = Cardinality(Holders(m))
  /\ m \in spaces <=> Holders(m) # {}

Counts == \A m \in Mms : CountOf(m)

IInv == TypeOK /\ Places /\ Forks /\ Execs /\ Actives /\ Loads /\ Counts
-----------------------------------------------------------------------------
(* mmput of each space of S once: what one or two calls in a row amount to. *)
Puts(S) ==
  /\ refcount' = [m \in Mms |-> refcount[m] - (IF m \in S THEN 1 ELSE 0)]
  /\ spaces' = {m \in spaces : ~(m \in S /\ refcount[m] <= 1)}

(* A single mmput. *)
LEMMA PutOne ==
  ASSUME TypeOK, NEW a, mmput(<<a>>) PROVE Puts({a})
<1>1. \A m : Times(<<a>>, m) = IF m = a THEN 1 ELSE 0
  <2> SUFFICES ASSUME NEW m PROVE Times(<<a>>, m) = IF m = a THEN 1 ELSE 0
    OBVIOUS
  <2>1. CASE m = a
    <3>1. {i \in DOMAIN <<a>> : <<a>>[i] = m} = {1}
      BY <2>1
    <3> QED BY <2>1, <3>1, FS_Singleton DEF Times
  <2>2. CASE m # a
    <3>1. {i \in DOMAIN <<a>> : <<a>>[i] = m} = {}
      BY <2>2
    <3> QED BY <2>2, <3>1, FS_EmptySet DEF Times
  <2> QED BY <2>1, <2>2
<1>2. refcount' = [m \in Mms |-> refcount[m] - (IF m \in {a} THEN 1 ELSE 0)]
  BY <1>1 DEF mmput
<1>3. spaces' = {m \in spaces : ~(m \in {a} /\ refcount[m] <= 1)}
  <2>1. \A m \in spaces : Times(<<a>>, m) > 0 /\ refcount[m] <= Times(<<a>>, m)
                           <=> m \in {a} /\ refcount[m] <= 1
    BY <1>1
  <2> QED BY <2>1 DEF mmput
<1> QED BY <1>2, <1>3 DEF Puts

(* task_drop_mm and task_set_mm put a space once, also when it is both the *)
(* task's mm and its active_mm.                                            *)
LEMMA PutDropped ==
  ASSUME TypeOK, NEW t \in Tasks, mm[t] # NoMm => active[t] \in {mm[t], NoMm},
         mmput(Dropped(t))
  PROVE  Puts({mm[t], active[t]})
<1> DEFINE b == IF active[t] # mm[t] THEN active[t] ELSE NoMm
<1> HIDE DEF b
<1>1. Dropped(t) = <<mm[t], b>>
  BY DEF Dropped, b
<1>2. \A m \in Mms : Times(<<mm[t], b>>, m) = IF m \in {mm[t], active[t]} THEN 1 ELSE 0
  <2> SUFFICES ASSUME NEW m \in Mms
               PROVE Times(<<mm[t], b>>, m) = IF m \in {mm[t], active[t]} THEN 1 ELSE 0
    OBVIOUS
  <2>0. {i \in DOMAIN <<mm[t], b>> : <<mm[t], b>>[i] = m}
           = (IF mm[t] = m THEN {1} ELSE {}) \cup (IF b = m THEN {2} ELSE {})
    OBVIOUS
  <2>1. mm[t] # m \/ b # m
    BY MmRefsAssumption DEF b
  <2>2. m \in {mm[t], active[t]} <=> mm[t] = m \/ b = m
    BY MmRefsAssumption DEF b
  <2>3. CASE mm[t] = m
    <3>1. {i \in DOMAIN <<mm[t], b>> : <<mm[t], b>>[i] = m} = {1}
      BY <2>0, <2>1, <2>3
    <3> QED BY <2>3, <3>1, FS_Singleton DEF Times
  <2>4. CASE b = m
    <3>1. {i \in DOMAIN <<mm[t], b>> : <<mm[t], b>>[i] = m} = {2}
      BY <2>0, <2>1, <2>4
    <3> QED BY <2>2, <2>4, <3>1, FS_Singleton DEF Times
  <2>5. CASE mm[t] # m /\ b # m
    <3>1. {i \in DOMAIN <<mm[t], b>> : <<mm[t], b>>[i] = m} = {}
      BY <2>0, <2>5
    <3> QED BY <2>2, <2>5, <3>1, FS_EmptySet DEF Times
  <2> QED BY <2>3, <2>4, <2>5
<1>3. refcount' = [m \in Mms |-> refcount[m] - (IF m \in {mm[t], active[t]} THEN 1 ELSE 0)]
  BY <1>1, <1>2 DEF mmput
<1>4. spaces' = {m \in spaces : ~(m \in {mm[t], active[t]} /\ refcount[m] <= 1)}
  <2>1. \A m \in spaces : Times(Dropped(t), m) = IF m \in {mm[t], active[t]} THEN 1 ELSE 0
    <3>1. spaces \subseteq Mms
      BY DEF TypeOK
    <3> QED BY <1>1, <1>2, <3>1
  <2>2. \A m \in spaces : Times(Dropped(t), m) > 0 /\ refcount[m] <= Times(Dropped(t), m)
                           <=> m \in {mm[t], active[t]} /\ refcount[m] <= 1
    BY <2>1
  <2> QED BY <2>2 DEF mmput
<1> QED BY <1>3, <1>4 DEF Puts

(* There are finitely many holders. *)
LEMMA HoldersFinite == ASSUME NEW m PROVE IsFiniteSet(Holders(m))
<1>1. IsFiniteSet({"mm", "borrowed", "bprm"})
  <2>1. IsFiniteSet({"mm"} \cup {"borrowed"})
    BY FS_Singleton, FS_AddElement
  <2>2. IsFiniteSet({"mm"} \cup {"borrowed"} \cup {"bprm"})
    BY <2>1, FS_AddElement
  <2>3. {"mm", "borrowed", "bprm"} = {"mm"} \cup {"borrowed"} \cup {"bprm"}
    OBVIOUS
  <2> QED BY <2>2, <2>3
<1>2. IsFiniteSet({"mm", "borrowed", "bprm"} \X Tasks)
  BY <1>1, FS_Product, MmRefsAssumption
<1> QED BY <1>2, FS_Subset DEF Holders

-----------------------------------------------------------------------------
(* The four ways in which a step may change the holders of a space, and    *)
(* what it then has to do to the count.                                    *)

(* The same holders, the same count. *)
LEMMA CountKept ==
  ASSUME NEW m \in Mms, CountOf(m), Holders(m)' = Holders(m),
         refcount'[m] = refcount[m], m \in spaces' <=> m \in spaces
  PROVE  CountOf(m)'
BY DEF CountOf

(* One more holder: mmget. *)
LEMMA CountAdded ==
  ASSUME NEW m \in Mms, CountOf(m), NEW x, x \notin Holders(m),
         Holders(m)' = Holders(m) \cup {x},
         refcount'[m] = refcount[m] + 1, m \in spaces'
  PROVE  CountOf(m)'
BY HoldersFinite, FS_AddElement, FS_CardinalityType DEF CountOf

(* A holder hands its reference to another. *)
LEMMA CountMoved ==
  ASSUME NEW m \in Mms, CountOf(m), NEW x \in Holders(m), NEW y, y \notin Holders(m),
         Holders(m)' = (Holders(m) \ {x}) \cup {y},
         refcount'[m] = refcount[m], m \in spaces' <=> m \in spaces
  PROVE  CountOf(m)'
<1>1. /\ IsFiniteSet(Holders(m) \ {x})
      /\ Cardinality(Holders(m) \ {x}) = Cardinality(Holders(m)) - 1
      /\ Cardinality(Holders(m)) \in Nat
  BY HoldersFinite, FS_RemoveElement, FS_CardinalityType
<1>2. Cardinality((Holders(m) \ {x}) \cup {y}) = Cardinality(Holders(m) \ {x}) + 1
  BY <1>1, FS_AddElement
<1> QED BY <1>1, <1>2 DEF CountOf

(* One holder less: mmput, which frees the space of the last. *)
LEMMA CountPut ==
  ASSUME NEW m \in Mms, CountOf(m), NEW x \in Holders(m),
         Holders(m)' = Holders(m) \ {x},
         refcount'[m] = refcount[m] - 1,
         m \in spaces' <=> m \in spaces /\ ~(refcount[m] <= 1)
  PROVE  CountOf(m)'
<1>1. /\ IsFiniteSet(Holders(m) \ {x})
      /\ Cardinality(Holders(m) \ {x}) = Cardinality(Holders(m)) - 1
      /\ Cardinality(Holders(m)) \in Nat
  BY HoldersFinite, FS_RemoveElement, FS_CardinalityType
<1>2. Holders(m) \ {x} # {} <=> Cardinality(Holders(m)) - 1 # 0
  BY <1>1, FS_EmptySet
<1>3. Cardinality(Holders(m)) # 0
  BY HoldersFinite, FS_EmptySet
<1> QED BY <1>1, <1>2, <1>3 DEF CountOf
-----------------------------------------------------------------------------
(* The steps. *)

(* A step that leaves mm, active_mm and bprm->mm alone changes no holder. *)
LEMMA CountsKept ==
  ASSUME Counts, UNCHANGED <<mm, active, bprm, refcount, spaces>> PROVE Counts'
<1>1. \A m \in Mms : Holders(m)' = Holders(m)
  BY DEF Holders, Holds
<1> QED BY <1>1, CountKept DEF Counts

(* pgtbl_switch_to in sched_switch_mm. *)
LEMMA SwitchLoadStep ==
  ASSUME IInv, NEW c \in CPUs, SwitchLoad(c) PROVE IInv'
<1> USE MmRefsAssumption DEF NoSwitch
<1>1. Counts'
  BY CountsKept DEF SwitchLoad, IInv
<1>2. TypeOK'
  <2>1. loaded' \in [CPUs -> Mms \cup {InitMm}]
    BY DEF SwitchLoad, IInv, TypeOK, Actives
  <2>2. sw' \in [CPUs -> [at : {"done", "load", "put", "tail"}, prev : Tasks \cup {NoTask},
                          old : Mms \cup {NoMm}]]
    <3> DEFINE R == [at : {"done", "load", "put", "tail"}, prev : Tasks \cup {NoTask},
                     old : Mms \cup {NoMm}]
    <3>1. sw \in [CPUs -> R] /\ sw' = [sw EXCEPT ![c] = [sw[c] EXCEPT !.at = "put"]]
      BY DEF SwitchLoad, IInv, TypeOK
    <3>2. [sw[c] EXCEPT !.at = "put"] \in R
      BY <3>1
    <3> HIDE DEF R
    <3>3. sw' \in [CPUs -> R]
      BY <3>1, <3>2
    <3> QED BY <3>3 DEF R
  <2> QED BY <2>1, <2>2 DEF SwitchLoad, IInv, TypeOK
<1>3. Places'
  BY SMTT(20) DEF SwitchLoad, IInv, TypeOK, Places, Forks
<1>4. Forks'
  BY SMTT(20) DEF SwitchLoad, IInv, TypeOK, Places, Forks
<1>5. Execs'
  BY SMTT(20) DEF SwitchLoad, IInv, TypeOK, Places, Forks, Execs
<1>6. Actives'
  BY SMTT(20) DEF SwitchLoad, IInv, TypeOK, Places, Forks, Execs, Actives, OnlyRunningBorrow, OnCpu, Counted
<1>7. Loads'
  BY SMTT(20) DEF SwitchLoad, IInv, TypeOK, Places, Forks, Execs, Actives, Loads, Keeps, Borrowed, OnlyRunningBorrow, OnCpu, Counted
<1> QED BY <1>1, <1>2, <1>3, <1>4, <1>5, <1>6, <1>7 DEF IInv

(* The child of a fork comes alive. *)
LEMMA ForkDoneStep ==
  ASSUME IInv, NEW c \in CPUs, ForkDone(c) PROVE IInv'
<1> USE MmRefsAssumption DEF NoSwitch
<1>1. Counts'
  BY CountsKept DEF ForkDone, IInv
<1>2. TypeOK'
  BY SMTT(20) DEF ForkDone, IInv, TypeOK, Places, Forks, Execs, Actives
<1>3. Places'
  BY SMTT(20) DEF ForkDone, IInv, TypeOK, Places, Forks
<1>4. Forks'
  BY SMTT(20) DEF ForkDone, IInv, TypeOK, Places, Forks
<1>5. Execs'
  BY SMTT(20) DEF ForkDone, IInv, TypeOK, Places, Forks, Execs
<1>6. Actives'
  BY SMTT(20) DEF ForkDone, IInv, TypeOK, Places, Forks, Execs, Actives, OnlyRunningBorrow, OnCpu, Counted
<1>7. Loads'
  BY SMTT(20) DEF ForkDone, IInv, TypeOK, Places, Forks, Execs, Actives, Loads, Keeps, Borrowed, OnlyRunningBorrow, OnCpu, Counted
<1> QED BY <1>1, <1>2, <1>3, <1>4, <1>5, <1>6, <1>7 DEF IInv

(* do_fork_kthread. *)
LEMMA ForkKthreadStep ==
  ASSUME IInv, NEW c \in CPUs, NEW p \in Tasks, ForkKthread(c, p) PROVE IInv'
<1> USE MmRefsAssumption DEF NoSwitch
<1>1. Counts'
  BY CountsKept DEF ForkKthread, IInv
<1>2. TypeOK'
  BY SMTT(20) DEF ForkKthread, Runs, IInv, TypeOK, Places, Forks, Execs, Actives
<1>3. Places'
  BY SMTT(20) DEF ForkKthread, Runs, IInv, TypeOK, Places, Forks
<1>4. Forks'
  BY SMTT(20) DEF ForkKthread, Runs, IInv, TypeOK, Places, Forks
<1>5. Execs'
  BY SMTT(20) DEF ForkKthread, Runs, IInv, TypeOK, Places, Forks, Execs
<1>6. Actives'
  BY SMTT(20) DEF ForkKthread, Runs, IInv, TypeOK, Places, Forks, Execs, Actives, OnlyRunningBorrow, OnCpu, Counted
<1>7. Loads'
  BY SMTT(20) DEF ForkKthread, Runs, IInv, TypeOK, Places, Forks, Execs, Actives, Loads, Keeps, Borrowed, OnlyRunningBorrow, OnCpu, Counted
<1> QED BY <1>1, <1>2, <1>3, <1>4, <1>5, <1>6, <1>7 DEF IInv

(* pgtbl_switch_to in flush_old_exec. *)
LEMMA ExecLoadStep ==
  ASSUME IInv, NEW c \in CPUs, ExecLoad(c) PROVE IInv'
<1> USE MmRefsAssumption DEF NoSwitch
<1>1. Counts'
  BY CountsKept DEF ExecLoad, IInv
<1>2. TypeOK'
  BY SMTT(20) DEF ExecLoad, Runs, IInv, TypeOK, Places, Forks, Execs, Actives
<1>3. Places'
  BY SMTT(20) DEF ExecLoad, Runs, IInv, TypeOK, Places, Forks
<1>4. Forks'
  BY SMTT(20) DEF ExecLoad, Runs, IInv, TypeOK, Places, Forks
<1>5. Execs'
  BY SMTT(20) DEF ExecLoad, Runs, IInv, TypeOK, Places, Forks, Execs
<1>6. Actives'
  BY SMTT(20) DEF ExecLoad, Runs, IInv, TypeOK, Places, Forks, Execs, Actives, OnlyRunningBorrow, OnCpu, Counted
<1>7. Loads'
  BY SMTT(20) DEF ExecLoad, Runs, IInv, TypeOK, Places, Forks, Execs, Actives, Loads, Keeps, Borrowed, OnlyRunningBorrow, OnCpu, Counted
<1> QED BY <1>1, <1>2, <1>3, <1>4, <1>5, <1>6, <1>7 DEF IInv

(* do_exit. *)
LEMMA ExitStep ==
  ASSUME IInv, NEW c \in CPUs, Exit(c) PROVE IInv'
<1> USE MmRefsAssumption DEF NoSwitch
<1>1. Counts'
  BY CountsKept DEF Exit, IInv
<1>2. TypeOK'
  BY SMTT(20) DEF Exit, Runs, IInv, TypeOK, Places, Forks, Execs, Actives
<1>3. Places'
  BY SMTT(20) DEF Exit, Runs, IInv, TypeOK, Places, Forks
<1>4. Forks'
  BY SMTT(20) DEF Exit, Runs, IInv, TypeOK, Places, Forks
<1>5. Execs'
  BY SMTT(20) DEF Exit, Runs, IInv, TypeOK, Places, Forks, Execs
<1>6. Actives'
  BY SMTT(20) DEF Exit, Runs, IInv, TypeOK, Places, Forks, Execs, Actives, OnlyRunningBorrow, OnCpu, Counted
<1>7. Loads'
  BY SMTT(20) DEF Exit, Runs, IInv, TypeOK, Places, Forks, Execs, Actives, Loads, Keeps, Borrowed, OnlyRunningBorrow, OnCpu, Counted
<1> QED BY <1>1, <1>2, <1>3, <1>4, <1>5, <1>6, <1>7 DEF IInv

(* A fork that fails puts the space of the child. *)
LEMMA ForkFailsStep ==
  ASSUME IInv, NEW c \in CPUs, ForkFails(c) PROVE IInv'
<1> USE MmRefsAssumption DEF NoSwitch
<1>0. Puts({mm[child[curr[c]]]})
  BY PutOne DEF ForkFails, IInv
<1>1. Counts'
  <2> SUFFICES ASSUME NEW m \in Mms PROVE CountOf(m)'
    BY DEF Counts
  <2>1. CASE m = mm[child[curr[c]]]
    <3>1. <<"mm", child[curr[c]]>> \in Holders(m) /\ Holders(m)' = Holders(m) \ {<<"mm", child[curr[c]]>>}
      BY <2>1 DEF ForkFails, IInv, TypeOK, Forks, Holders, Holds
    <3>2. refcount'[m] = refcount[m] - 1 /\ (m \in spaces' <=> m \in spaces /\ ~(refcount[m] <= 1))
      BY <1>0, <2>1 DEF Puts
    <3> QED BY <3>1, <3>2, CountPut DEF IInv, Counts
  <2>2. CASE m # mm[child[curr[c]]]
    <3>1. Holders(m)' = Holders(m)
      BY <2>2 DEF ForkFails, IInv, TypeOK, Forks, Holders, Holds
    <3>2. refcount'[m] = refcount[m] /\ (m \in spaces' <=> m \in spaces)
      BY <1>0, <2>2 DEF Puts, IInv, TypeOK
    <3> QED BY <3>1, <3>2, CountKept DEF IInv, Counts
  <2> QED BY <2>1, <2>2
<1>2. TypeOK'
  <2>1. refcount' \in [Mms -> Nat] /\ spaces' \subseteq Mms
    BY <1>0, <1>1 DEF Puts, Counts, CountOf, IInv, TypeOK
  <2> QED BY <2>1 DEF ForkFails, IInv, TypeOK, Places, Forks, Execs, Actives
<1>3. Places'
  BY SMTT(20) DEF ForkFails, IInv, TypeOK, Places, Forks
<1>4. Forks'
  BY SMTT(20) DEF ForkFails, IInv, TypeOK, Places, Forks
<1>5. Execs'
  BY SMTT(20) DEF ForkFails, IInv, TypeOK, Places, Forks, Execs
<1>6. Actives'
  BY SMTT(20) DEF ForkFails, IInv, TypeOK, Places, Forks, Execs, Actives, OnlyRunningBorrow, OnCpu, Counted
<1>7. Loads'
  <2>1. \A d \in CPUs : curr[d] # child[curr[c]] /\ (sw[d].at # "done" => sw[d].prev # child[curr[c]])
    <3>1. status[child[curr[c]]] = "embryo"
      BY DEF ForkFails, IInv, TypeOK, Forks
    <3> QED BY <3>1 DEF IInv, Places
  <2> QED BY <2>1 DEF ForkFails, IInv, TypeOK, Loads, Keeps, Borrowed
<1> QED BY <1>1, <1>2, <1>3, <1>4, <1>5, <1>6, <1>7 DEF IInv

(* An exec that fails puts the space it has built. *)
LEMMA ExecFailsStep ==
  ASSUME IInv, NEW c \in CPUs, ExecFails(c) PROVE IInv'
<1> USE MmRefsAssumption DEF NoSwitch
<1>0. Puts({bprm[curr[c]]})
  BY PutOne DEF ExecFails, IInv
<1>1. Counts'
  <2> SUFFICES ASSUME NEW m \in Mms PROVE CountOf(m)'
    BY DEF Counts
  <2>1. CASE m = bprm[curr[c]]
    <3>1. <<"bprm", curr[c]>> \in Holders(m) /\ Holders(m)' = Holders(m) \ {<<"bprm", curr[c]>>}
      BY <2>1 DEF ExecFails, Runs, IInv, TypeOK, Execs, Holders, Holds
    <3>2. refcount'[m] = refcount[m] - 1 /\ (m \in spaces' <=> m \in spaces /\ ~(refcount[m] <= 1))
      BY <1>0, <2>1 DEF Puts
    <3> QED BY <3>1, <3>2, CountPut DEF IInv, Counts
  <2>2. CASE m # bprm[curr[c]]
    <3>1. Holders(m)' = Holders(m)
      BY <2>2 DEF ExecFails, Runs, IInv, TypeOK, Execs, Holders, Holds
    <3>2. refcount'[m] = refcount[m] /\ (m \in spaces' <=> m \in spaces)
      BY <1>0, <2>2 DEF Puts, IInv, TypeOK
    <3> QED BY <3>1, <3>2, CountKept DEF IInv, Counts
  <2> QED BY <2>1, <2>2
<1>2. TypeOK'
  <2>1. refcount' \in [Mms -> Nat] /\ spaces' \subseteq Mms
    BY <1>0, <1>1 DEF Puts, Counts, CountOf, IInv, TypeOK
  <2> QED BY <2>1 DEF ExecFails, Runs, IInv, TypeOK, Places, Forks, Execs, Actives
<1>3. Places'
  BY SMTT(20) DEF ExecFails, Runs, IInv, TypeOK, Places, Forks
<1>4. Forks'
  BY SMTT(20) DEF ExecFails, Runs, IInv, TypeOK, Places, Forks
<1>5. Execs'
  BY SMTT(20) DEF ExecFails, Runs, IInv, TypeOK, Places, Forks, Execs
<1>6. Actives'
  BY SMTT(20) DEF ExecFails, Runs, IInv, TypeOK, Places, Forks, Execs, Actives, OnlyRunningBorrow, OnCpu, Counted
<1>7. Loads'
  BY SMTT(20) DEF ExecFails, Runs, IInv, TypeOK, Places, Forks, Execs, Actives, Loads, Keeps, Borrowed, OnlyRunningBorrow, OnCpu, Counted
<1> QED BY <1>1, <1>2, <1>3, <1>4, <1>5, <1>6, <1>7 DEF IInv

(* The end of sched_switch_mm. *)
LEMMA SwitchPutStep ==
  ASSUME IInv, NEW c \in CPUs, SwitchPut(c) PROVE IInv'
<1> USE MmRefsAssumption DEF NoSwitch
<1>0. Puts({sw[c].old})
  BY PutOne DEF SwitchPut, IInv
<1>1. Counts'
  <2> SUFFICES ASSUME NEW m \in Mms PROVE CountOf(m)'
    BY DEF Counts
  <2>1. CASE m = sw[c].old
    <3>1. <<"borrowed", sw[c].prev>> \in Holders(m) /\ Holders(m)' = Holders(m) \ {<<"borrowed", sw[c].prev>>}
      BY <2>1 DEF SwitchPut, IInv, TypeOK, Places, Actives, Holders, Holds
    <3>2. refcount'[m] = refcount[m] - 1 /\ (m \in spaces' <=> m \in spaces /\ ~(refcount[m] <= 1))
      BY <1>0, <2>1 DEF Puts
    <3> QED BY <3>1, <3>2, CountPut DEF IInv, Counts
  <2>2. CASE m # sw[c].old
    <3>1. Holders(m)' = Holders(m)
      BY <2>2 DEF SwitchPut, IInv, TypeOK, Places, Actives, Holders, Holds
    <3>2. refcount'[m] = refcount[m] /\ (m \in spaces' <=> m \in spaces)
      BY <1>0, <2>2 DEF Puts, IInv, TypeOK
    <3> QED BY <3>1, <3>2, CountKept DEF IInv, Counts
  <2> QED BY <2>1, <2>2
<1>2. TypeOK'
  <2>1. refcount' \in [Mms -> Nat] /\ spaces' \subseteq Mms
    BY <1>0, <1>1 DEF Puts, Counts, CountOf, IInv, TypeOK
  <2>2. active' \in [Tasks -> Mms \cup {NoMm, InitMm}]
    BY DEF SwitchPut, IInv, TypeOK
  <2>3. sw' \in [CPUs -> [at : {"done", "load", "put", "tail"}, prev : Tasks \cup {NoTask},
                          old : Mms \cup {NoMm}]]
    <3> DEFINE R == [at : {"done", "load", "put", "tail"}, prev : Tasks \cup {NoTask},
                     old : Mms \cup {NoMm}]
    <3>1. \A r \in R : [r EXCEPT !.at = "tail"] \in R
      OBVIOUS
    <3>2. \A r \in R : [r EXCEPT !.old = NoMm] \in R
      OBVIOUS
    <3>3. sw \in [CPUs -> R]
      BY DEF IInv, TypeOK
    <3> HIDE DEF R
    <3>4. sw' = [sw EXCEPT ![c] = [[sw[c] EXCEPT !.at = "tail"] EXCEPT !.old = NoMm]]
      BY <3>3 DEF SwitchPut
    <3>5. sw' \in [CPUs -> R]
      BY <3>1, <3>2, <3>3, <3>4
    <3> QED BY <3>5 DEF R
  <2> QED BY <2>1, <2>2, <2>3 DEF SwitchPut, IInv, TypeOK
<1>3. Places'
  BY SMTT(20) DEF SwitchPut, IInv, TypeOK, Places, Forks
<1>4. Forks'
  BY SMTT(20) DEF SwitchPut, IInv, TypeOK, Places, Forks
<1>5. Execs'
  BY SMTT(20) DEF SwitchPut, IInv, TypeOK, Places, Forks, Execs
<1>6. Actives'
  <2> USE DEF SwitchPut, IInv, TypeOK, Places, Actives
  <2>1. \A t \in Tasks : active'[t] = IF sw[c].old # NoMm /\ t = sw[c].prev THEN NoMm ELSE active[t]
    OBVIOUS
  <2>2. \A d \in CPUs : curr[d] # sw[c].prev /\ (d # c => sw[d].prev # sw[c].prev)
    OBVIOUS
  <2>3. \A t \in Tasks : mm'[t] # NoMm => active'[t] \in {mm'[t], NoMm}
    BY <2>1
  <2>4. \A d \in CPUs : mm'[curr'[d]] # NoMm => active'[curr'[d]] = mm'[curr'[d]]
    BY <2>1, <2>2
  <2>5. OnlyRunningBorrow'
    <3>1. \A d \in CPUs : curr'[d] = curr[d] /\ sw'[d].prev = sw[d].prev
      OBVIOUS
    <3> QED BY <2>1, <3>1 DEF OnlyRunningBorrow, OnCpu, Counted
  <2>6. \A d \in CPUs : sw'[d].at # "done" =>
          /\ active'[curr'[d]] # NoMm
          /\ sw'[d].old # NoMm => mm'[sw'[d].prev] = NoMm /\ active'[sw'[d].prev] = sw'[d].old
          /\ sw'[d].old = NoMm => mm'[sw'[d].prev] # NoMm \/ ~Counted(active'[sw'[d].prev])
          /\ sw'[d].at = "tail" => sw'[d].old = NoMm
    BY <2>1, <2>2 DEF Counted
  <2> QED BY <2>3, <2>4, <2>5, <2>6 DEF Counted
<1>7. Loads'
  BY SMTT(20) DEF SwitchPut, IInv, TypeOK, Places, Forks, Execs, Actives, Loads, Keeps, Borrowed, OnlyRunningBorrow, OnCpu, Counted
<1> QED BY <1>1, <1>2, <1>3, <1>4, <1>5, <1>6, <1>7 DEF IInv

(* task_destroy of a task that borrows nothing puts its own space, once. *)
LEMMA DestroyCounts ==
  ASSUME IInv, NEW t \in Tasks, task_destroy(t), UNCHANGED bprm,
         mm[t] = NoMm => ~Counted(active[t])
  PROVE  Counts' /\ refcount' \in [Mms -> Nat] /\ spaces' \subseteq Mms
<1> USE MmRefsAssumption
<1>0. Puts({mm[t], active[t]})
  BY PutDropped DEF task_destroy, IInv, Actives
<1>1. Counts'
  <2> SUFFICES ASSUME NEW m \in Mms PROVE CountOf(m)'
    BY DEF Counts
  <2>1. CASE m = mm[t]
    <3>1. <<"mm", t>> \in Holders(m) /\ Holders(m)' = Holders(m) \ {<<"mm", t>>}
      BY <2>1 DEF task_destroy, IInv, TypeOK, Holders, Holds
    <3>2. refcount'[m] = refcount[m] - 1 /\ (m \in spaces' <=> m \in spaces /\ ~(refcount[m] <= 1))
      BY <1>0, <2>1 DEF Puts
    <3> QED BY <3>1, <3>2, CountPut DEF IInv, Counts
  <2>2. CASE m # mm[t]
    <3>1. m # active[t]
      BY <2>2 DEF Counted, IInv, Actives, TypeOK
    <3>2. Holders(m)' = Holders(m)
      BY <2>2, <3>1 DEF task_destroy, IInv, TypeOK, Holders, Holds
    <3>3. refcount'[m] = refcount[m] /\ (m \in spaces' <=> m \in spaces)
      BY <1>0, <2>2, <3>1 DEF Puts, IInv, TypeOK
    <3> QED BY <3>2, <3>3, CountKept DEF IInv, Counts
  <2> QED BY <2>1, <2>2
<1> QED BY <1>0, <1>1 DEF Puts, Counts, CountOf, IInv, TypeOK

(* sched_tail, which may free the task that left. *)
LEMMA SwitchTailStep ==
  ASSUME IInv, NEW c \in CPUs, SwitchTail(c) PROVE IInv'
<1> USE MmRefsAssumption DEF NoSwitch
<1>0. sw[c].prev \in Tasks
  BY DEF SwitchTail, IInv, Places
<1>1. CASE status[sw[c].prev] = "dead"
  <2>0. task_destroy(sw[c].prev) /\ UNCHANGED bprm /\ (mm[sw[c].prev] = NoMm => ~Counted(active[sw[c].prev]))
    BY <1>1 DEF SwitchTail, IInv, TypeOK, Places, Actives, OnlyRunningBorrow, OnCpu, Counted
  <2>1. Counts' /\ refcount' \in [Mms -> Nat] /\ spaces' \subseteq Mms
    BY <1>0, <2>0, DestroyCounts DEF IInv, TypeOK, Places, SwitchTail
  <2>2. TypeOK'
    BY <1>1, <2>0, <2>1, SMTT(20) DEF task_destroy, SwitchTail, IInv, TypeOK, Places, Forks, Execs, Actives
  <2>3. Places'
    BY <1>1, <2>0, SMTT(20) DEF task_destroy, SwitchTail, IInv, TypeOK, Places, Forks
  <2>4. Forks'
    BY <1>1, <2>0, SMTT(20) DEF task_destroy, SwitchTail, IInv, TypeOK, Places, Forks
  <2>5. Execs'
    BY <1>1, <2>0, SMTT(20) DEF task_destroy, SwitchTail, IInv, TypeOK, Places, Forks, Execs
  <2>6. Actives'
    BY <1>1, <2>0, SMTT(20) DEF task_destroy, SwitchTail, IInv, TypeOK, Places, Forks, Execs, Actives, OnlyRunningBorrow, OnCpu, Counted
  <2>7. Loads'
    BY <1>1, <2>0, SMTT(20) DEF task_destroy, SwitchTail, IInv, TypeOK, Places, Forks, Execs, Actives, Loads, Keeps, Borrowed, OnlyRunningBorrow, OnCpu, Counted
  <2> QED BY <2>1, <2>2, <2>3, <2>4, <2>5, <2>6, <2>7 DEF IInv
<1>2. CASE status[sw[c].prev] # "dead"
  <2>1. Counts'
    BY <1>2, CountsKept DEF SwitchTail, IInv
  <2>2. TypeOK'
    BY <1>2, <2>1, SMTT(20) DEF SwitchTail, IInv, TypeOK, Places, Forks, Execs, Actives
  <2>3. Places'
    BY <1>2, SMTT(20) DEF SwitchTail, IInv, TypeOK, Places, Forks
  <2>4. Forks'
    BY <1>2, SMTT(20) DEF SwitchTail, IInv, TypeOK, Places, Forks
  <2>5. Execs'
    BY <1>2, SMTT(20) DEF SwitchTail, IInv, TypeOK, Places, Forks, Execs
  <2>6. Actives'
    BY <1>2, SMTT(20) DEF SwitchTail, IInv, TypeOK, Places, Forks, Execs, Actives, OnlyRunningBorrow, OnCpu, Counted
  <2>7. Loads'
    BY <1>2, SMTT(20) DEF SwitchTail, IInv, TypeOK, Places, Forks, Execs, Actives, Loads, Keeps, Borrowed, OnlyRunningBorrow, OnCpu, Counted
  <2> QED BY <2>1, <2>2, <2>3, <2>4, <2>5, <2>6, <2>7 DEF IInv
<1> QED BY <1>1, <1>2

(* do_waitpid frees the task or leaves it to sched_tail. *)
LEMMA ReapStep ==
  ASSUME IInv, NEW t \in Tasks, Reap(t) PROVE IInv'
<1> USE MmRefsAssumption DEF NoSwitch
<1>1. CASE ~OnCpu(t)
  <2>0. task_destroy(t) /\ UNCHANGED bprm /\ (mm[t] = NoMm => ~Counted(active[t]))
    BY <1>1 DEF Reap, IInv, TypeOK, Places, Actives, OnlyRunningBorrow, OnCpu, Counted
  <2>1. Counts' /\ refcount' \in [Mms -> Nat] /\ spaces' \subseteq Mms
    BY <2>0, DestroyCounts DEF IInv, TypeOK, Places
  <2>2. TypeOK'
    BY <1>1, <2>0, <2>1, SMTT(20) DEF task_destroy, Reap, IInv, TypeOK, Places, Forks, Execs, Actives
  <2>3. Places'
    BY <1>1, <2>0, SMTT(20) DEF task_destroy, OnCpu, Reap, IInv, TypeOK, Places, Forks
  <2>4. Forks'
    BY <1>1, <2>0, SMTT(20) DEF task_destroy, Reap, IInv, TypeOK, Places, Forks
  <2>5. Execs'
    BY <1>1, <2>0, SMTT(20) DEF task_destroy, Reap, IInv, TypeOK, Places, Forks, Execs
  <2>6. Actives'
    BY <1>1, <2>0, SMTT(20) DEF task_destroy, Reap, IInv, TypeOK, Places, Forks, Execs, Actives, OnlyRunningBorrow, OnCpu, Counted
  <2>7. Loads'
    BY <1>1, <2>0, SMTT(20) DEF task_destroy, Reap, IInv, TypeOK, Places, Forks, Execs, Actives, Loads, Keeps, Borrowed, OnlyRunningBorrow, OnCpu, Counted
  <2> QED BY <2>1, <2>2, <2>3, <2>4, <2>5, <2>6, <2>7 DEF IInv
<1>2. CASE OnCpu(t)
  <2>0. status' = [status EXCEPT ![t] = "dead"] /\ status[t] = "zombie"
    BY <1>2 DEF Reap
  <2>1. Counts'
    BY <1>2, CountsKept DEF Reap, IInv
  <2>2. TypeOK'
    BY <1>2, <2>0, <2>1, SMTT(20) DEF Reap, IInv, TypeOK, Places, Forks, Execs, Actives
  <2>3. Places'
    BY <1>2, <2>0, SMTT(20) DEF OnCpu, Reap, IInv, TypeOK, Places, Forks
  <2>4. Forks'
    BY <1>2, <2>0, SMTT(20) DEF Reap, IInv, TypeOK, Places, Forks
  <2>5. Execs'
    BY <1>2, <2>0, SMTT(20) DEF Reap, IInv, TypeOK, Places, Forks, Execs
  <2>6. Actives'
    BY <1>2, <2>0, SMTT(20) DEF Reap, IInv, TypeOK, Places, Forks, Execs, Actives, OnlyRunningBorrow, OnCpu, Counted
  <2>7. Loads'
    BY <1>2, <2>0, SMTT(20) DEF Reap, IInv, TypeOK, Places, Forks, Execs, Actives, Loads, Keeps, Borrowed, OnlyRunningBorrow, OnCpu, Counted
  <2> QED BY <2>1, <2>2, <2>3, <2>4, <2>5, <2>6, <2>7 DEF IInv
<1> QED BY <1>1, <1>2

(* Nobody holds, or has active, a space that mm_alloc can hand out. *)
LEMMA FreshSpace ==
  ASSUME IInv, NEW m \in Mms \ spaces
  PROVE  /\ Holders(m) = {} /\ refcount[m] = 0
         /\ \A u \in Tasks : mm[u] # m /\ active[u] # m /\ bprm[u] # m
<1> USE MmRefsAssumption
<1>1. Holders(m) = {} /\ refcount[m] = 0
  BY FS_EmptySet DEF IInv, Counts, CountOf
<1>2. \A u \in Tasks : mm[u] # m /\ bprm[u] # m /\ (mm[u] = NoMm => active[u] # m)
  <2> SUFFICES ASSUME NEW u \in Tasks
               PROVE mm[u] # m /\ bprm[u] # m /\ (mm[u] = NoMm => active[u] # m)
    OBVIOUS
  <2>1. <<"mm", u>> \notin Holders(m) /\ <<"bprm", u>> \notin Holders(m)
          /\ <<"borrowed", u>> \notin Holders(m)
    BY <1>1
  <2> QED BY <2>1 DEF Holders, Holds
<1> QED BY <1>1, <1>2 DEF IInv, TypeOK, Actives

(* mm_alloc gives the new space its one holder x. *)
LEMMA AllocCounts ==
  ASSUME IInv, NEW n \in Mms, mm_alloc(n), NEW x,
         \A m \in Mms : Holders(m)' = IF m = n THEN Holders(m) \cup {x} ELSE Holders(m)
  PROVE  Counts' /\ refcount' \in [Mms -> Nat] /\ spaces' \subseteq Mms
<1>1. Counts'
  <2> SUFFICES ASSUME NEW m \in Mms PROVE CountOf(m)'
    BY DEF Counts
  <2>1. CASE m = n
    <3>1. x \notin Holders(m) /\ refcount'[m] = refcount[m] + 1 /\ m \in spaces'
      BY <2>1, FreshSpace DEF mm_alloc, IInv, TypeOK
    <3> QED BY <2>1, <3>1, CountAdded DEF IInv, Counts
  <2>2. CASE m # n
    BY <2>2, CountKept DEF IInv, Counts, mm_alloc, TypeOK
  <2> QED BY <2>1, <2>2
<1> QED BY <1>1 DEF mm_alloc, IInv, TypeOK

(* do_fork_uthread: dup_mm shares the space or makes a new one. *)
LEMMA ForkMmStep ==
  ASSUME IInv, NEW c \in CPUs, NEW p \in Tasks, NEW shares \in BOOLEAN, ForkMm(c, p, shares)
  PROVE  IInv'
<1> USE MmRefsAssumption DEF NoSwitch
<1> DEFINE t == curr[c]
<1>0. PICK n \in Mms : /\ mm' = [mm EXCEPT ![p] = n] /\ refcount' \in [Mms -> Nat]
                       /\ Counts' /\ spaces' \subseteq Mms
                       /\ \A u \in Tasks : bprm[u] # n
  <2>0. mm[p] = NoMm /\ active[p] = NoMm /\ t \in Tasks /\ p # t
    BY DEF ForkMm, IInv, Forks, TypeOK
  <2>1. CASE shares
    <3>1. /\ mm[t] \in Mms /\ mm' = [mm EXCEPT ![p] = mm[t]]
          /\ refcount' = [refcount EXCEPT ![mm[t]] = @ + 1] /\ UNCHANGED spaces
      BY <2>1 DEF ForkMm, IInv, TypeOK, Got, Counted
    <3>2. \A u \in Tasks : bprm[u] # mm[t]
      <4> SUFFICES ASSUME NEW u \in Tasks, bprm[u] = mm[t] PROVE FALSE
        OBVIOUS
      <4>1. bprm[u] # NoMm
        BY <3>1
      <4> QED BY <2>0, <4>1 DEF IInv, Execs
    <3>3. Counts'
      <4> SUFFICES ASSUME NEW m \in Mms PROVE CountOf(m)'
        BY DEF Counts
      <4>1. CASE m = mm[t]
        <5>1. <<"mm", p>> \notin Holders(m) /\ Holders(m)' = Holders(m) \cup {<<"mm", p>>}
          BY <2>0, <3>1, <4>1 DEF ForkMm, IInv, TypeOK, Holders, Holds
        <5>2. <<"mm", t>> \in Holders(m)
          BY <2>0, <4>1 DEF Holders, Holds
        <5>3. refcount'[m] = refcount[m] + 1 /\ m \in spaces'
          BY <3>1, <4>1, <5>2 DEF IInv, TypeOK, Counts, CountOf
        <5> QED BY <5>1, <5>3, CountAdded DEF IInv, Counts
      <4>2. CASE m # mm[t]
        <5>1. Holders(m)' = Holders(m)
          BY <2>0, <3>1, <4>2 DEF ForkMm, IInv, TypeOK, Holders, Holds
        <5> QED BY <3>1, <4>2, <5>1, CountKept DEF IInv, TypeOK, Counts
      <4> QED BY <4>1, <4>2
    <3>4. refcount' \in [Mms -> Nat] /\ spaces' \subseteq Mms
      BY <3>1, <3>3 DEF IInv, TypeOK, Counts, CountOf
    <3> QED BY <3>1, <3>2, <3>3, <3>4
  <2>2. CASE ~shares
    <3>1. PICK n \in Mms : mm_alloc(n) /\ mm' = [mm EXCEPT ![p] = n]
      BY <2>2 DEF ForkMm
    <3>2. \A m \in Mms : Holders(m)' = IF m = n THEN Holders(m) \cup {<<"mm", p>>} ELSE Holders(m)
      BY <2>0, <3>1 DEF ForkMm, IInv, TypeOK, Holders, Holds
    <3>3. \A u \in Tasks : bprm[u] # n
      BY <3>1, FreshSpace DEF mm_alloc
    <3> QED BY <3>1, <3>2, <3>3, AllocCounts
  <2> QED BY <2>1, <2>2
<1>1. PICK d \in CPUs : cpu' = [cpu EXCEPT ![p] = d]
  BY DEF ForkMm
<1>2. /\ curr[c] \in Tasks /\ sw[c] = NoSwitch /\ stage[t] = "run" /\ child[t] = NoTask
      /\ status[t] = "alive" /\ status[p] = "unused"
      /\ status' = [status EXCEPT ![p] = "embryo"] /\ child' = [child EXCEPT ![t] = p]
      /\ UNCHANGED <<active, stage, bprm, curr, sw, loaded>>
  BY DEF ForkMm, Runs, IInv, TypeOK
<1>3. TypeOK'
  BY <1>0, <1>1, <1>2 DEF IInv, TypeOK
<1>4. Places'
  BY <1>0, <1>1, <1>2 DEF IInv, TypeOK, Places
<1>5. Forks'
  BY <1>0, <1>1, <1>2, SMTT(20) DEF IInv, TypeOK, Places, Forks
<1>6. Execs'
  BY <1>0, <1>1, <1>2, SMTT(20) DEF IInv, TypeOK, Places, Forks, Execs
<1>7. Actives'
  <2>1. \A e \in CPUs : curr[e] # p /\ (sw[e].at # "done" => sw[e].prev # p)
    BY <1>2 DEF IInv, Places
  <2>2. \A u \in Tasks : mm'[u] = IF u = p THEN n ELSE mm[u]
    BY <1>0 DEF IInv, TypeOK
  <2>3. mm[p] = NoMm /\ active[p] = NoMm
    BY <1>2 DEF IInv, Forks
  <2>4. OnlyRunningBorrow'
    BY <1>2, <2>2 DEF IInv, Actives, OnlyRunningBorrow, OnCpu, Counted
  <2> QED BY <1>2, <2>1, <2>2, <2>3, <2>4 DEF IInv, TypeOK, Places, Actives, Counted
<1>8. Loads'
  <2>1. \A e \in CPUs : curr[e] # p /\ (sw[e].at # "done" => sw[e].prev # p)
    BY <1>2 DEF IInv, Places
  <2> QED BY <1>0, <1>2, <2>1, SMTT(20) DEF IInv, TypeOK, Loads, Keeps, Borrowed
<1> QED BY <1>0, <1>3, <1>4, <1>5, <1>6, <1>7, <1>8 DEF IInv

(* do_execve makes the space it will fill. *)
LEMMA ExecBeginStep ==
  ASSUME IInv, NEW c \in CPUs, ExecBegin(c) PROVE IInv'
<1> USE MmRefsAssumption DEF NoSwitch
<1> DEFINE t == curr[c]
<1>0. PICK n \in Mms : mm_alloc(n) /\ bprm' = [bprm EXCEPT ![t] = n]
  BY DEF ExecBegin
<1>1. t \in Tasks /\ stage[t] = "run" /\ bprm[t] = NoMm /\ status[t] = "alive"
  BY DEF ExecBegin, Runs, IInv, TypeOK, Execs
<1>2. \A m \in Mms : Holders(m)' = IF m = n THEN Holders(m) \cup {<<"bprm", t>>} ELSE Holders(m)
  BY <1>0, <1>1 DEF ExecBegin, IInv, TypeOK, Holders, Holds
<1>3. Counts' /\ refcount' \in [Mms -> Nat] /\ spaces' \subseteq Mms
  BY <1>0, <1>2, AllocCounts
<1>4. \A u \in Tasks : mm[u] # n /\ active[u] # n /\ bprm[u] # n
  BY <1>0, FreshSpace DEF mm_alloc
<1>5. TypeOK'
  BY <1>0, <1>1, <1>3 DEF ExecBegin, IInv, TypeOK
<1>6. Places'
  BY DEF ExecBegin, IInv, Places
<1>7. Forks'
  BY <1>1 DEF ExecBegin, IInv, TypeOK, Forks
<1>8. Execs'
  BY <1>0, <1>1, <1>4, SMTT(20) DEF ExecBegin, IInv, TypeOK, Execs
<1>9. Actives'
  BY DEF ExecBegin, IInv, Actives, OnlyRunningBorrow, OnCpu
<1>10. Loads'
  BY <1>1 DEF ExecBegin, IInv, TypeOK, Loads, Keeps, Borrowed
<1> QED BY <1>3, <1>5, <1>6, <1>7, <1>8, <1>9, <1>10 DEF IInv

(* flush_old_exec: the new space is committed, the old one is put. *)
LEMMA ExecSetMmStep ==
  ASSUME IInv, NEW c \in CPUs, ExecSetMm(c) PROVE IInv'
<1> USE MmRefsAssumption DEF NoSwitch
<1> DEFINE t == curr[c]
<1>0. /\ t \in Tasks /\ stage[t] = "exec" /\ child[t] = NoTask /\ sw[c] = NoSwitch
      /\ bprm[t] \in Mms /\ \A u \in Tasks : mm[u] # bprm[t] /\ active[u] # bprm[t]
      /\ \A u \in Tasks : bprm[u] = bprm[t] => u = t
  BY DEF ExecSetMm, Runs, IInv, TypeOK, Execs
<1>1. Puts({mm[t], active[t]})
  BY <1>0, PutDropped DEF ExecSetMm, IInv, Actives
<1>2. Counts'
  <2> SUFFICES ASSUME NEW m \in Mms PROVE CountOf(m)'
    BY DEF Counts
  <2>1. CASE m = bprm[t]
    <3>1. /\ <<"bprm", t>> \in Holders(m) /\ <<"mm", t>> \notin Holders(m)
          /\ Holders(m)' = (Holders(m) \ {<<"bprm", t>>}) \cup {<<"mm", t>>}
      BY <1>0, <2>1 DEF ExecSetMm, IInv, TypeOK, Holders, Holds
    <3>2. refcount'[m] = refcount[m] /\ (m \in spaces' <=> m \in spaces)
      BY <1>0, <1>1, <2>1 DEF Puts, IInv, TypeOK
    <3> QED BY <3>1, <3>2, CountMoved DEF IInv, Counts
  <2>2. CASE m = mm[t]
    <3>1. <<"mm", t>> \in Holders(m) /\ Holders(m)' = Holders(m) \ {<<"mm", t>>}
      BY <1>0, <2>2 DEF ExecSetMm, IInv, TypeOK, Holders, Holds
    <3>2. refcount'[m] = refcount[m] - 1 /\ (m \in spaces' <=> m \in spaces /\ ~(refcount[m] <= 1))
      BY <1>1, <2>2 DEF Puts
    <3> QED BY <3>1, <3>2, CountPut DEF IInv, Counts
  <2>3. CASE m # bprm[t] /\ m # mm[t] /\ m = active[t]
    <3>1. mm[t] = NoMm
      BY <1>0, <2>3 DEF IInv, TypeOK, Actives
    <3>2. <<"borrowed", t>> \in Holders(m) /\ Holders(m)' = Holders(m) \ {<<"borrowed", t>>}
      BY <1>0, <2>3, <3>1 DEF ExecSetMm, IInv, TypeOK, Holders, Holds
    <3>3. refcount'[m] = refcount[m] - 1 /\ (m \in spaces' <=> m \in spaces /\ ~(refcount[m] <= 1))
      BY <1>1, <2>3 DEF Puts
    <3> QED BY <3>2, <3>3, CountPut DEF IInv, Counts
  <2>4. CASE m # bprm[t] /\ m # mm[t] /\ m # active[t]
    <3>1. Holders(m)' = Holders(m)
      BY <1>0, <2>4 DEF ExecSetMm, IInv, TypeOK, Holders, Holds
    <3>2. refcount'[m] = refcount[m] /\ (m \in spaces' <=> m \in spaces)
      BY <1>1, <2>4 DEF Puts, IInv, TypeOK
    <3> QED BY <3>1, <3>2, CountKept DEF IInv, Counts
  <2> QED BY <2>1, <2>2, <2>3, <2>4
<1>3. TypeOK'
  <2>1. refcount' \in [Mms -> Nat] /\ spaces' \subseteq Mms
    BY <1>1, <1>2 DEF Puts, Counts, CountOf, IInv, TypeOK
  <2> QED BY <1>0, <2>1 DEF ExecSetMm, IInv, TypeOK
<1>4. Places'
  BY DEF ExecSetMm, IInv, Places
<1>5. Forks'
  BY <1>0, SMTT(20) DEF ExecSetMm, IInv, TypeOK, Forks
<1>6. Execs'
  BY <1>0, SMTT(20) DEF ExecSetMm, IInv, TypeOK, Places, Execs
<1>7. Actives'
  BY <1>0, SMTT(20) DEF ExecSetMm, IInv, TypeOK, Places, Actives, OnlyRunningBorrow, OnCpu, Counted
<1>8. Loads'
  <2>1. \A d \in CPUs : d # c => curr[d] # t /\ (sw[d].at # "done" => sw[d].prev # t)
    BY DEF IInv, Places
  <2> QED BY <1>0, <2>1, SMTT(60) DEF ExecSetMm, IInv, TypeOK, Loads, Keeps, Borrowed
<1> QED BY <1>2, <1>3, <1>4, <1>5, <1>6, <1>7, <1>8 DEF IInv

(* sched() and the first half of sched_switch_mm. *)
LEMMA SchedStep ==
  ASSUME IInv, NEW c \in CPUs, NEW next \in Tasks, Sched(c, next) PROVE IInv'
<1> USE MmRefsAssumption DEF NoSwitch
<1> DEFINE prev == curr[c]
<1>0. /\ prev \in Tasks /\ sw[c] = NoSwitch /\ stage[prev] # "load" /\ child[prev] = NoTask
      /\ next # prev /\ cpu[next] = c /\ status[next] = "alive"
      /\ curr' = [curr EXCEPT ![c] = next]
      /\ UNCHANGED <<status, cpu, mm, stage, bprm, child, loaded, spaces>>
  BY DEF Sched, IInv, TypeOK
<1>1. /\ \A d \in CPUs : curr[d] # next /\ sw[d].prev # next
      /\ \A d \in CPUs : d # c => curr[d] # prev /\ sw[d].prev # prev
      /\ mm[next] = NoMm => active[next] \notin Mms
  <2>1. \A d \in CPUs : curr[d] # next /\ sw[d].prev # next
    BY <1>0 DEF IInv, TypeOK, Places
  <2>2. \A d \in CPUs : d # c => curr[d] # prev /\ sw[d].prev # prev
    BY <1>0 DEF IInv, TypeOK, Places
  <2> QED BY <2>1, <2>2 DEF IInv, Actives, OnlyRunningBorrow, OnCpu, Counted
<1>2. CASE UseOwn(c, prev, next) /\ mm[next] # NoMm
  <2>1. Counts' /\ refcount' \in [Mms -> Nat]
    <3>1. \A m \in Mms : Holders(m)' = Holders(m)
      BY <1>0, <1>2 DEF UseOwn, IInv, TypeOK, Holders, Holds
    <3>2. Counts'
      BY <1>0, <1>2, <3>1, CountKept DEF UseOwn, IInv, Counts
    <3> QED BY <1>2, <3>2 DEF UseOwn, IInv, TypeOK
  <2>2. /\ active' \in [Tasks -> Mms \cup {NoMm, InitMm}]
        /\ sw' = [sw EXCEPT ![c] = [at |-> "load", prev |-> prev, old |-> OldActive(prev)]]
        /\ \A u \in Tasks : active'[u] = IF u = next THEN mm[next] ELSE active[u]
    BY <1>0, <1>2 DEF UseOwn, IInv, TypeOK
  <2>3. TypeOK'
    BY <1>0, <2>1, <2>2 DEF IInv, TypeOK, OldActive
  <2>4. Execs'
    BY <1>0, <1>1, <1>2, <2>2, SMTT(20) DEF IInv, TypeOK, Execs, Places, Borrowed
  <2>5. Actives'
    <3>1. \A u \in Tasks : mm'[u] # NoMm => active'[u] \in {mm'[u], NoMm}
      BY <1>0, <1>2, <2>2 DEF IInv, Actives, TypeOK, OldActive, Borrowed
    <3>2. \A d \in CPUs : mm'[curr'[d]] # NoMm => active'[curr'[d]] = mm'[curr'[d]]
      BY <1>0, <1>1, <1>2, <2>2 DEF IInv, Actives, TypeOK, OldActive, Borrowed
    <3>3. OnlyRunningBorrow'
      <4> SUFFICES ASSUME NEW u \in Tasks, mm[u] = NoMm, active'[u] \in Mms PROVE OnCpu(u)'
        BY <1>0 DEF OnlyRunningBorrow, Counted
      <4>1. CASE u = next \/ u = prev
        BY <1>0, <2>2, <4>1 DEF OnCpu, IInv, TypeOK
      <4>2. CASE u # next /\ u # prev
        <5>1. OnCpu(u)
          BY <2>2, <4>2 DEF IInv, Actives, OnlyRunningBorrow, Counted
        <5> QED BY <1>0, <2>2, <4>2, <5>1 DEF OnCpu, IInv, TypeOK
      <4> QED BY <4>1, <4>2
    <3>4. ASSUME NEW d \in CPUs, sw'[d].at # "done"
          PROVE  /\ active'[curr'[d]] # NoMm
                 /\ sw'[d].old # NoMm => mm'[sw'[d].prev] = NoMm /\ active'[sw'[d].prev] = sw'[d].old
                 /\ sw'[d].old = NoMm => mm'[sw'[d].prev] # NoMm \/ ~Counted(active'[sw'[d].prev])
                 /\ sw'[d].at = "tail" => sw'[d].old = NoMm
      BY <1>0, <1>1, <1>2, <2>2, <3>4, SMTT(20) DEF IInv, TypeOK, Places, Actives, OldActive, Borrowed, Counted
    <3> QED BY <3>1, <3>2, <3>3, <3>4 DEF Actives, Counted
  <2>6. Forks'
    BY <1>0, <1>1, <2>2, SMTT(20) DEF IInv, TypeOK, Forks, Places
  <2>7. Places'
    BY <1>0, <1>1, <2>2 DEF IInv, TypeOK, Places
  <2>8. Loads'
    <3> SUFFICES ASSUME NEW d \in CPUs
                 PROVE  IF sw'[d].at = "load"
                        THEN \/ loaded[d] = InitMm
                             \/ Keeps(sw[d].prev, loaded[d])' \/ Keeps(curr[d], loaded[d])'
                        ELSE stage[curr'[d]] # "load" => loaded[d] = Borrowed(curr[d])'
      BY <1>0 DEF Loads
    <3>1. CASE d = c
      <4>1. loaded[c] = Borrowed(prev) /\ (mm[prev] # NoMm => active[prev] = mm[prev])
        BY <1>0 DEF IInv, Loads, Actives
      <4> QED BY <1>0, <1>2, <2>2, <3>1, <4>1 DEF IInv, TypeOK, Keeps, Borrowed, OldActive
    <3>2. CASE d # c
      BY <1>0, <1>1, <2>2, <3>2 DEF IInv, TypeOK, Places, Loads, Keeps, Borrowed
    <3> QED BY <3>1, <3>2
  <2> QED BY <2>1, <2>3, <2>4, <2>5, <2>6, <2>7, <2>8 DEF IInv
<1>3. CASE HandOn(c, prev, next) /\ mm[next] = NoMm /\ Borrowed(prev) = OldActive(prev)
  <2>1. Counts' /\ refcount' \in [Mms -> Nat]
    <3> SUFFICES Counts'
      BY <1>3 DEF HandOn, IInv, TypeOK
    <3> SUFFICES ASSUME NEW m \in Mms PROVE CountOf(m)'
      BY DEF Counts
    <3>1. active[prev] \in Mms /\ mm[prev] = NoMm
      BY <1>0, <1>3 DEF IInv, TypeOK, OldActive, Borrowed
    <3>2. CASE m = active[prev]
      <4>1. /\ <<"borrowed", prev>> \in Holders(m) /\ <<"borrowed", next>> \notin Holders(m)
            /\ Holders(m)' = (Holders(m) \ {<<"borrowed", prev>>}) \cup {<<"borrowed", next>>}
        BY <1>0, <1>1, <1>3, <3>1, <3>2 DEF HandOn, IInv, TypeOK, Holders, Holds
      <4> QED BY <1>0, <1>3, <4>1, CountMoved DEF HandOn, IInv, Counts
    <3>3. CASE m # active[prev]
      <4>1. Holders(m)' = Holders(m)
        BY <1>0, <1>1, <1>3, <3>1, <3>3 DEF HandOn, IInv, TypeOK, Holders, Holds
      <4> QED BY <1>0, <1>3, <4>1, CountKept DEF HandOn, IInv, Counts
    <3> QED BY <3>2, <3>3
  <2>2. /\ active' \in [Tasks -> Mms \cup {NoMm, InitMm}]
        /\ sw' = [sw EXCEPT ![c] = [at |-> "load", prev |-> prev, old |-> NoMm]]
        /\ \A u \in Tasks : active'[u] = IF u = next THEN active[prev] ELSE IF u = prev THEN NoMm ELSE active[u]
    BY <1>0, <1>3 DEF HandOn, IInv, TypeOK
  <2>3. TypeOK'
    BY <1>0, <2>1, <2>2 DEF IInv, TypeOK, OldActive
  <2>4. Execs'
    BY <1>0, <1>1, <1>3, <2>2, SMTT(20) DEF IInv, TypeOK, Execs, Places, Borrowed
  <2>5. Actives'
    <3>1. \A u \in Tasks : mm'[u] # NoMm => active'[u] \in {mm'[u], NoMm}
      BY <1>0, <1>3, <2>2 DEF IInv, Actives, TypeOK, OldActive, Borrowed
    <3>2. \A d \in CPUs : mm'[curr'[d]] # NoMm => active'[curr'[d]] = mm'[curr'[d]]
      BY <1>0, <1>1, <1>3, <2>2 DEF IInv, Actives, TypeOK, OldActive, Borrowed
    <3>3. OnlyRunningBorrow'
      <4> SUFFICES ASSUME NEW u \in Tasks, mm[u] = NoMm, active'[u] \in Mms PROVE OnCpu(u)'
        BY <1>0 DEF OnlyRunningBorrow, Counted
      <4>1. CASE u = next \/ u = prev
        BY <1>0, <2>2, <4>1 DEF OnCpu, IInv, TypeOK
      <4>2. CASE u # next /\ u # prev
        <5>1. OnCpu(u)
          BY <2>2, <4>2 DEF IInv, Actives, OnlyRunningBorrow, Counted
        <5> QED BY <1>0, <2>2, <4>2, <5>1 DEF OnCpu, IInv, TypeOK
      <4> QED BY <4>1, <4>2
    <3>4. ASSUME NEW d \in CPUs, sw'[d].at # "done"
          PROVE  /\ active'[curr'[d]] # NoMm
                 /\ sw'[d].old # NoMm => mm'[sw'[d].prev] = NoMm /\ active'[sw'[d].prev] = sw'[d].old
                 /\ sw'[d].old = NoMm => mm'[sw'[d].prev] # NoMm \/ ~Counted(active'[sw'[d].prev])
                 /\ sw'[d].at = "tail" => sw'[d].old = NoMm
      BY <1>0, <1>1, <1>3, <2>2, <3>4, SMTT(20) DEF IInv, TypeOK, Places, Actives, OldActive, Borrowed, Counted
    <3> QED BY <3>1, <3>2, <3>3, <3>4 DEF Actives, Counted
  <2>6. Forks'
    BY <1>0, <1>1, <2>2, SMTT(20) DEF IInv, TypeOK, Forks, Places
  <2>7. Places'
    BY <1>0, <1>1, <2>2 DEF IInv, TypeOK, Places
  <2>8. Loads'
    <3> SUFFICES ASSUME NEW d \in CPUs
                 PROVE  IF sw'[d].at = "load"
                        THEN \/ loaded[d] = InitMm
                             \/ Keeps(sw[d].prev, loaded[d])' \/ Keeps(curr[d], loaded[d])'
                        ELSE stage[curr'[d]] # "load" => loaded[d] = Borrowed(curr[d])'
      BY <1>0 DEF Loads
    <3>1. CASE d = c
      <4>1. loaded[c] = Borrowed(prev) /\ (mm[prev] # NoMm => active[prev] = mm[prev])
        BY <1>0 DEF IInv, Loads, Actives
      <4> QED BY <1>0, <1>3, <2>2, <3>1, <4>1 DEF IInv, TypeOK, Keeps, Borrowed, OldActive
    <3>2. CASE d # c
      BY <1>0, <1>1, <2>2, <3>2 DEF IInv, TypeOK, Places, Loads, Keeps, Borrowed
    <3> QED BY <3>1, <3>2
  <2> QED BY <2>1, <2>3, <2>4, <2>5, <2>6, <2>7, <2>8 DEF IInv
<1>4. CASE Borrow(c, prev, next) /\ mm[next] = NoMm /\ Borrowed(prev) # OldActive(prev)
  <2>1. Counts' /\ refcount' \in [Mms -> Nat]
    <3> DEFINE n == Borrowed(prev)
    <3>1. CASE n \in Mms
      <4>1. mm[prev] = n
        BY <1>0, <1>4, <3>1 DEF IInv, TypeOK, Actives, OldActive, Borrowed
      <4>2. /\ refcount' = [refcount EXCEPT ![n] = @ + 1] /\ active' = [active EXCEPT ![next] = n]
            /\ n \in spaces
        <5>1. <<"mm", prev>> \in Holders(n)
          BY <1>0, <4>1 DEF Holders, Holds
        <5> QED BY <1>4, <3>1, <5>1 DEF Borrow, Got, Counted, IInv, Counts, CountOf
      <4>3. Counts'
        <5> SUFFICES ASSUME NEW m \in Mms PROVE CountOf(m)'
          BY DEF Counts
        <5>1. CASE m = n
          <6>1. <<"borrowed", next>> \notin Holders(m)
                  /\ Holders(m)' = Holders(m) \cup {<<"borrowed", next>>}
            BY <1>0, <1>1, <1>4, <4>2, <5>1 DEF IInv, TypeOK, Holders, Holds
          <6> QED BY <1>0, <4>2, <5>1, <6>1, CountAdded DEF IInv, TypeOK, Counts
        <5>2. CASE m # n
          <6>1. Holders(m)' = Holders(m)
            BY <1>0, <1>1, <1>4, <4>2, <5>2 DEF IInv, TypeOK, Holders, Holds
          <6> QED BY <1>0, <4>2, <5>2, <6>1, CountKept DEF IInv, TypeOK, Counts
        <5> QED BY <5>1, <5>2
      <4> QED BY <3>1, <4>2, <4>3 DEF IInv, TypeOK
    <3>2. CASE n \notin Mms
      <4>1. UNCHANGED refcount /\ active' = [active EXCEPT ![next] = n]
        BY <1>4, <3>2 DEF Borrow, Got, Counted
      <4>2. \A m \in Mms : Holders(m)' = Holders(m)
        BY <1>0, <1>1, <1>4, <3>2, <4>1 DEF IInv, TypeOK, Holders, Holds
      <4>3. Counts'
        BY <1>0, <4>1, <4>2, CountKept DEF IInv, Counts
      <4> QED BY <4>1, <4>3 DEF IInv, TypeOK
    <3> QED BY <3>1, <3>2
  <2>2. /\ active' \in [Tasks -> Mms \cup {NoMm, InitMm}]
        /\ sw' = [sw EXCEPT ![c] = [at |-> "load", prev |-> prev, old |-> OldActive(prev)]]
        /\ \A u \in Tasks : active'[u] = IF u = next THEN Borrowed(prev) ELSE active[u]
    BY <1>0, <1>4 DEF Borrow, IInv, TypeOK, Borrowed
  <2>3. TypeOK'
    BY <1>0, <2>1, <2>2 DEF IInv, TypeOK, OldActive
  <2>4. Execs'
    BY <1>0, <1>1, <1>4, <2>2, SMTT(20) DEF IInv, TypeOK, Execs, Places, Borrowed
  <2>5. Actives'
    <3>1. \A u \in Tasks : mm'[u] # NoMm => active'[u] \in {mm'[u], NoMm}
      BY <1>0, <1>4, <2>2 DEF IInv, Actives, TypeOK, OldActive, Borrowed
    <3>2. \A d \in CPUs : mm'[curr'[d]] # NoMm => active'[curr'[d]] = mm'[curr'[d]]
      BY <1>0, <1>1, <1>4, <2>2 DEF IInv, Actives, TypeOK, OldActive, Borrowed
    <3>3. OnlyRunningBorrow'
      <4> SUFFICES ASSUME NEW u \in Tasks, mm[u] = NoMm, active'[u] \in Mms PROVE OnCpu(u)'
        BY <1>0 DEF OnlyRunningBorrow, Counted
      <4>1. CASE u = next \/ u = prev
        BY <1>0, <2>2, <4>1 DEF OnCpu, IInv, TypeOK
      <4>2. CASE u # next /\ u # prev
        <5>1. OnCpu(u)
          BY <2>2, <4>2 DEF IInv, Actives, OnlyRunningBorrow, Counted
        <5> QED BY <1>0, <2>2, <4>2, <5>1 DEF OnCpu, IInv, TypeOK
      <4> QED BY <4>1, <4>2
    <3>4. ASSUME NEW d \in CPUs, sw'[d].at # "done"
          PROVE  /\ active'[curr'[d]] # NoMm
                 /\ sw'[d].old # NoMm => mm'[sw'[d].prev] = NoMm /\ active'[sw'[d].prev] = sw'[d].old
                 /\ sw'[d].old = NoMm => mm'[sw'[d].prev] # NoMm \/ ~Counted(active'[sw'[d].prev])
                 /\ sw'[d].at = "tail" => sw'[d].old = NoMm
      BY <1>0, <1>1, <1>4, <2>2, <3>4, SMTT(20) DEF IInv, TypeOK, Places, Actives, OldActive, Borrowed, Counted
    <3> QED BY <3>1, <3>2, <3>3, <3>4 DEF Actives, Counted
  <2>6. Forks'
    BY <1>0, <1>1, <2>2, SMTT(20) DEF IInv, TypeOK, Forks, Places
  <2>7. Places'
    BY <1>0, <1>1, <2>2 DEF IInv, TypeOK, Places
  <2>8. Loads'
    <3> SUFFICES ASSUME NEW d \in CPUs
                 PROVE  IF sw'[d].at = "load"
                        THEN \/ loaded[d] = InitMm
                             \/ Keeps(sw[d].prev, loaded[d])' \/ Keeps(curr[d], loaded[d])'
                        ELSE stage[curr'[d]] # "load" => loaded[d] = Borrowed(curr[d])'
      BY <1>0 DEF Loads
    <3>1. CASE d = c
      <4>1. loaded[c] = Borrowed(prev) /\ (mm[prev] # NoMm => active[prev] = mm[prev])
        BY <1>0 DEF IInv, Loads, Actives
      <4> QED BY <1>0, <1>4, <2>2, <3>1, <4>1 DEF IInv, TypeOK, Keeps, Borrowed, OldActive
    <3>2. CASE d # c
      BY <1>0, <1>1, <2>2, <3>2 DEF IInv, TypeOK, Places, Loads, Keeps, Borrowed
    <3> QED BY <3>1, <3>2
  <2> QED BY <2>1, <2>3, <2>4, <2>5, <2>6, <2>7, <2>8 DEF IInv
<1> QED BY <1>2, <1>3, <1>4 DEF Sched

(* At boot every CPU runs its idle task on init_mm, which is not counted. *)
LEMMA InitIInv == Init => IInv
<1> SUFFICES ASSUME Init PROVE IInv
  OBVIOUS
<1> USE MmRefsAssumption DEF Init, NoSwitch
<1>0. \A c \in CPUs : Idle[c] \in Tasks /\ Idle[c] \in Idles
                       /\ (CHOOSE d \in CPUs : Idle[d] = Idle[c]) = c
  BY DEF Idles
<1>1. TypeOK
  <2>1. \A t \in Idles : (CHOOSE c \in CPUs : Idle[c] = t) \in CPUs
    BY DEF Idles
  <2>2. cpu \in [Tasks -> CPUs]
    BY <2>1
  <2> QED BY <2>2 DEF TypeOK
<1>2. Places
  BY <1>0 DEF Places
<1>3. Forks
  BY <1>0 DEF Forks
<1>4. Execs
  BY DEF Execs
<1>5. Actives
  BY <1>0 DEF Actives, OnlyRunningBorrow, OnCpu, Counted
<1>6. Loads
  BY <1>0 DEF Loads, Borrowed
<1>7. Counts
  <2>1. \A m \in Mms : Holders(m) = {}
    BY DEF Holders, Holds
  <2> QED BY <2>1, FS_EmptySet DEF Counts, CountOf
<1> QED BY <1>1, <1>2, <1>3, <1>4, <1>5, <1>6, <1>7 DEF IInv

(* Every step keeps the invariant. *)
LEMMA IInvStep == IInv /\ [Next]_vars => IInv'
<1> SUFFICES ASSUME IInv, [Next]_vars PROVE IInv'
  OBVIOUS
<1>1. ASSUME NEW c \in CPUs, SwitchLoad(c) \/ SwitchPut(c) \/ SwitchTail(c) PROVE IInv'
  BY <1>1, SwitchLoadStep, SwitchPutStep, SwitchTailStep
<1>2. ASSUME NEW c \in CPUs, ForkDone(c) \/ ForkFails(c) \/ Exit(c) PROVE IInv'
  BY <1>2, ForkDoneStep, ForkFailsStep, ExitStep
<1>3. ASSUME NEW c \in CPUs, ExecBegin(c) \/ ExecFails(c) \/ ExecSetMm(c) \/ ExecLoad(c)
      PROVE IInv'
  BY <1>3, ExecBeginStep, ExecFailsStep, ExecSetMmStep, ExecLoadStep
<1>4. ASSUME NEW c \in CPUs, NEW t \in Tasks, Sched(c, t) \/ ForkKthread(c, t) PROVE IInv'
  BY <1>4, SchedStep, ForkKthreadStep
<1>5. ASSUME NEW c \in CPUs, NEW t \in Tasks, NEW shares \in BOOLEAN, ForkMm(c, t, shares)
      PROVE IInv'
  BY <1>5, ForkMmStep
<1>6. ASSUME NEW t \in Tasks, Reap(t) PROVE IInv'
  BY <1>6, ReapStep
<1>7. CASE UNCHANGED vars
  <2>1. Counts'
    BY <1>7, CountsKept DEF vars, IInv
  <2>2. TypeOK' /\ Places' /\ Forks' /\ Execs'
    BY <1>7 DEF vars, IInv, TypeOK, Places, Forks, Execs
  <2>3. Actives' /\ Loads'
    BY <1>7 DEF vars, IInv, Actives, OnlyRunningBorrow, OnCpu, Loads, Keeps, Borrowed
  <2> QED BY <2>1, <2>2, <2>3 DEF IInv
<1> QED BY <1>1, <1>2, <1>3, <1>4, <1>5, <1>6, <1>7 DEF Next

-----------------------------------------------------------------------------
(***************************************************************************)
(* mm->refcount counts the holders of a space over every interleaving of   *)
(* switches, forks, execs, exits and waits, and mmput frees a space        *)
(* exactly when its last holder lets go.                                   *)
(***************************************************************************)
THEOREM SpacesAreCounted == Spec => []RefsExact
<1>1. IInv => RefsExact
  BY DEF IInv, RefsExact, Counts, CountOf
<1> QED BY <1>1, InitIInv, IInvStep, PTL DEF Spec

(***************************************************************************)
(* Only a kernel thread that is on a CPU borrows a space, so an exited     *)
(* process' memory is kept by at most one borrower per CPU.                *)
(***************************************************************************)
THEOREM BorrowersRun == Spec => []OnlyRunningBorrow
<1>1. IInv => OnlyRunningBorrow
  BY DEF IInv, Actives
<1> QED BY <1>1, InitIInv, IInvStep, PTL DEF Spec

(***************************************************************************)
(* No CPU uses a page table that mmput has freed, also in the middle of a  *)
(* switch, and a task runs on its own space or on one it has a reference   *)
(* to.                                                                     *)
(***************************************************************************)
THEOREM LoadedSpacesAreKept == Spec => []RunsOnItsSpace
<1>1. ASSUME IInv PROVE RunsOnItsSpace
  <2> USE MmRefsAssumption DEF NoSwitch
  <2>1. \A t \in Tasks, m \in Mms : Keeps(t, m) => m \in spaces
    <3> SUFFICES ASSUME NEW t \in Tasks, NEW m \in Mms, Keeps(t, m) PROVE m \in spaces
      OBVIOUS
    <3>1. <<"mm", t>> \in Holders(m) \/ <<"borrowed", t>> \in Holders(m)
      BY DEF Keeps, Holders, Holds
    <3> QED BY <1>1, <3>1 DEF IInv, Counts, CountOf
  <2>2. ASSUME NEW c \in CPUs, stage[curr[c]] # "load" PROVE loaded[c] \in spaces \cup {InitMm}
    <3>1. curr[c] \in Tasks /\ loaded[c] \in Mms \cup {InitMm}
      BY <1>1 DEF IInv, TypeOK
    <3>2. CASE sw[c].at = "load"
      <4>1. sw[c].prev \in Tasks
        BY <1>1, <3>2 DEF IInv, Places
      <4> QED BY <1>1, <2>1, <3>1, <3>2, <4>1 DEF IInv, Loads
    <3>3. CASE sw[c].at # "load"
      <4>1. loaded[c] = Borrowed(curr[c])
        BY <1>1, <2>2, <3>3 DEF IInv, Loads
      <4>2. loaded[c] = InitMm \/ Keeps(curr[c], loaded[c])
        BY <1>1, <3>1, <4>1 DEF IInv, Actives, Borrowed, Keeps
      <4> QED BY <2>1, <3>1, <4>2
    <3> QED BY <3>2, <3>3
  <2>3. ASSUME NEW c \in CPUs, sw[c] = NoSwitch, stage[curr[c]] # "load"
        PROVE  /\ mm[curr[c]] # NoMm => loaded[c] = mm[curr[c]]
               /\ loaded[c] = Borrowed(curr[c])
    BY <1>1, <2>3 DEF IInv, Loads, Actives, Borrowed, TypeOK
  <2> QED BY <2>2, <2>3 DEF RunsOnItsSpace, LoadedIsLive
<1> QED BY <1>1, InitIInv, IInvStep, PTL DEF Spec
=============================================================================
