--------------------------- MODULE TaskLifeProofs ---------------------------
(***************************************************************************)
(* For any number of tasks: a task that has exited is destroyed at most    *)
(* once, off its CPU, and when nothing leads to it any more; and no parent *)
(* sleeps in waitpid past the exit of a child.                             *)
(***************************************************************************)
EXTENDS TaskLife, TLAPS

(* The stages of do_exit behind reparent_children. *)
Late == {"x_signal", "x_wake", "x_sched", "x_destroy", "gone"}

(* The stages of do_waitpid that hold an exited child in hand. *)
Holding == {"w_detach", "w_dead", "w_destroy"}

(* children and parent are two views of one relation between living tasks. *)
Family ==
  \A p \in Tasks, c \in Tasks :
    /\ c \in children[p] <=> parent[c] = p
    /\ c \in children[p] => /\ status[c] \in {"RUNNING", "SLEEPING", "ZOMBIE"}
                            /\ c \notin Reapers

(* Where a task is and what its fields say. *)
Phase ==
  \A t \in Tasks :
    /\ pc[t] = "none" <=> status[t] = "UNUSED"
    /\ pc[t] \in ExitPCs <=> status[t] \in {"ZOMBIE", "DEAD", "FREED"}
    /\ on_cpu[t] <=> pc[t] \notin {"none", "x_destroy", "gone"}
    /\ linked[t] \/ status[t] = "SLEEPING" => pc[t] = "w_sched"
    /\ t \in Reapers => pc[t] # "none"
    /\ pc[t] \in {"x_last", "x_parent"} => t \in Reapers
    /\ pc[t] \in Late /\ t \notin Reapers => children[t] = {}

(* Who is about to release an exited task: at most one waiter, or the tail. *)
Release ==
  \A t \in Tasks :
    /\ pc[t] \in Holding => hand[t] \in Tasks /\ hand[t] \notin Reapers /\ parent[hand[t]] = NoTask
    /\ pc[t] \in {"w_detach", "w_dead"} => status[hand[t]] = "ZOMBIE"
    /\ pc[t] = "w_destroy" => status[hand[t]] = "DEAD" /\ pc[hand[t]] = "gone"
    /\ pc[t] \in {"w_dead", "w_destroy"} => hand[t] \notin attached
    /\ \A u \in Tasks : pc[t] \in Holding /\ pc[u] \in Holding /\ hand[t] = hand[u] => t = u
    /\ pc[t] = "x_destroy" => status[t] = "DEAD"

(* What holds of a task once it is dead, and once it is freed. *)
Dead ==
  \A t \in Tasks :
    /\ status[t] \in {"DEAD", "FREED"} =>
         t \notin attached /\ t \notin Reapers /\ parent[t] = NoTask
    /\ status[t] = "FREED" => pc[t] = "gone"
    /\ destroyed[t] = (IF status[t] = "FREED" THEN 1 ELSE 0)

IInv == TypeOK /\ Family /\ Phase /\ Release /\ Dead

-----------------------------------------------------------------------------
(* choose_reaper returns one of the reapers. *)
LEMMA ReaperFacts ==
  ASSUME NEW t \in Tasks
  PROVE  ReaperOf[t] \in Reapers /\ ReaperOf[t] \in Tasks
BY TaskLifeAssumption DEF Reapers

(* Before the first fork there are only the reapers. *)
LEMMA InitIInv == Init => IInv
<1> SUFFICES ASSUME Init PROVE IInv
  OBVIOUS
<1> USE TaskLifeAssumption DEF Init, PCs, ExitPCs, WaitPCs
<1>0. Reapers \subseteq Tasks
  BY DEF Reapers
<1>1. TypeOK
  <2>1. on_cpu \in [Tasks -> BOOLEAN] /\ attached \subseteq Tasks
    BY <1>0
  <2> QED BY <2>1 DEF TypeOK
<1>2. Family
  BY DEF Family
<1>3. Phase
  BY DEF Phase, Late
<1>4. Release
  BY DEF Release, Holding
<1>5. Dead
  BY DEF Dead
<1> QED BY <1>1, <1>2, <1>3, <1>4, <1>5 DEF IInv

(* The types of what a step inside do_waitpid changes of its caller. *)
LocalsType ==
  /\ pc \in [Tasks -> PCs]
  /\ hand \in [Tasks -> Tasks \cup {NoTask}]
  /\ want \in [Tasks -> Tasks \cup {NoTask}]
  /\ nohang \in [Tasks -> BOOLEAN]

(* The local variables are cleared when do_waitpid returns. *)
LEMMA ReturnType ==
  ASSUME LocalsType, NEW t \in Tasks, Return(t) PROVE LocalsType'
BY DEF LocalsType, Return, Goto, PCs

(* They keep their values when it goes on. *)
LEMMA GotoType ==
  ASSUME LocalsType, NEW t \in Tasks, NEW label \in PCs, Goto(t, label),
         UNCHANGED <<hand, want, nohang>>
  PROVE  LocalsType'
BY DEF LocalsType, Goto

(* Every step keeps every variable in its type. *)
LEMMA TypeStep == TypeOK /\ [Next]_vars => TypeOK'
<1> SUFFICES ASSUME TypeOK, [Next]_vars PROVE TypeOK'
  OBVIOUS
<1> USE TaskLifeAssumption, ReaperFacts DEF TypeOK, PCs, ExitPCs, WaitPCs, Goto
<1>1. ASSUME NEW t \in Tasks, NEW c \in Tasks, Fork(t, c) PROVE TypeOK'
  BY <1>1 DEF Fork
<1>2. ASSUME NEW t \in Tasks, HandleSignal(t) PROVE TypeOK'
  BY <1>2 DEF HandleSignal
<1>3. ASSUME NEW t \in Tasks, Exit(t) PROVE TypeOK'
  BY <1>3 DEF Exit
<1>4. ASSUME NEW t \in Tasks, Reparent(t) PROVE TypeOK'
  BY <1>4 DEF Reparent
<1>5. ASSUME NEW t \in Tasks, ReparentCheck(t) PROVE TypeOK'
  BY <1>5 DEF ReparentCheck, Touch, WakeUp, WakeUpOne
<1>6. ASSUME NEW t \in Tasks, ReadParent(t) PROVE TypeOK'
  BY <1>6 DEF ReadParent
<1>7. ASSUME NEW t \in Tasks, SignalParent(t) PROVE TypeOK'
  BY <1>7 DEF SignalParent, Touch, WakeUp
<1>8. ASSUME NEW t \in Tasks, WakeParent(t) PROVE TypeOK'
  BY <1>8 DEF WakeParent, Touch, WakeUp, WakeUpOne
<1>9. ASSUME NEW t \in Tasks, SchedTail(t) PROVE TypeOK'
  BY <1>9 DEF SchedTail
<1>10. ASSUME NEW t \in Tasks, TailDestroy(t) PROVE TypeOK'
  BY <1>10 DEF TailDestroy, Destroy
<1>11. ASSUME NEW t \in Tasks, NEW w \in Tasks \cup {NoTask},
            NEW opt \in BOOLEAN, WaitPid(t, w, opt) PROVE TypeOK'
  BY <1>11 DEF WaitPid
<1>12. ASSUME NEW t \in Tasks, FindExited(t) PROVE TypeOK'
  BY <1>12 DEF FindExited, Matching, Exited
<1>13. ASSUME NEW t \in Tasks, FindNone(t) PROVE TypeOK'
  <2>1. LocalsType'
    <3>1. LocalsType
      BY DEF LocalsType
    <3>2. CASE Return(t)
      BY <3>1, <3>2, ReturnType
    <3>3. CASE Goto(t, "w_recheck") /\ UNCHANGED <<hand, want, nohang>>
      BY <3>1, <3>3, GotoType
    <3> QED BY <1>13, <3>2, <3>3 DEF FindNone
  <2>2. UNCHANGED <<status, parent, children, on_cpu, attached, sigchld, linked,
                    destroyed, uaf>>
    BY <1>13 DEF FindNone
  <2> QED BY <2>1, <2>2 DEF LocalsType
<1>14. ASSUME NEW t \in Tasks, Detach(t) PROVE TypeOK'
  BY <1>14 DEF Detach
<1>15. ASSUME NEW t \in Tasks, MarkDead(t) PROVE TypeOK'
  <2>1. status' \in [Tasks -> {"UNUSED", "RUNNING", "SLEEPING", "ZOMBIE", "DEAD", "FREED"}]
    BY <1>15 DEF MarkDead
  <2>2. CASE on_cpu[hand[t]]
    <3>1. Return(t) /\ UNCHANGED <<parent, children, on_cpu, attached, sigchld, linked,
                                  destroyed, uaf>>
      BY <1>15, <2>2 DEF MarkDead
    <3> QED BY <2>1, <3>1 DEF Return
  <2>3. CASE ~on_cpu[hand[t]]
    BY <1>15, <2>1, <2>3 DEF MarkDead
  <2> QED BY <2>2, <2>3
<1>16. ASSUME NEW t \in Tasks, WaitDestroy(t) PROVE TypeOK'
  <2>1. status' \in [Tasks -> {"UNUSED", "RUNNING", "SLEEPING", "ZOMBIE", "DEAD", "FREED"}]
    BY <1>16 DEF WaitDestroy, Destroy
  <2>2. destroyed' \in [Tasks -> Nat]
    <3>1. CASE hand[t] \in Tasks
      BY <1>16, <3>1 DEF WaitDestroy, Destroy
    <3>2. CASE hand[t] = NoTask
      BY <1>16, <3>2 DEF WaitDestroy, Destroy
    <3> QED BY <3>1, <3>2
  <2> QED BY <1>16, <2>1, <2>2 DEF WaitDestroy, Return
<1>17. ASSUME NEW t \in Tasks, Recheck(t) PROVE TypeOK'
  BY <1>17 DEF Recheck, Matching, Exited
<1>18. ASSUME NEW t \in Tasks, Sleep(t) PROVE TypeOK'
  BY <1>18 DEF Sleep
<1>19. ASSUME NEW t \in Tasks, Woken(t) PROVE TypeOK'
  <2>1. LocalsType'
    <3>1. LocalsType
      BY DEF LocalsType
    <3>2. CASE Return(t)
      BY <3>1, <3>2, ReturnType
    <3>3. CASE Goto(t, "w_find") /\ UNCHANGED <<hand, want, nohang>>
      BY <3>1, <3>3, GotoType
    <3> QED BY <1>19, <3>2, <3>3 DEF Woken
  <2>2. /\ linked' \in [Tasks -> BOOLEAN]
        /\ UNCHANGED <<status, parent, children, on_cpu, attached, sigchld,
                       destroyed, uaf>>
    BY <1>19 DEF Woken
  <2> QED BY <2>1, <2>2 DEF LocalsType
<1>20. CASE UNCHANGED vars
  BY <1>20 DEF vars
<1> QED BY <1>1, <1>2, <1>3, <1>4, <1>5, <1>6, <1>7, <1>8, <1>9, <1>10, <1>11, <1>12, <1>13, <1>14, <1>15, <1>16, <1>17, <1>18, <1>19, <1>20 DEF Next, ExitStep, WaitStep

(* Every step keeps the invariant. *)
LEMMA IInvStep == IInv /\ [Next]_vars => IInv'
<1> SUFFICES ASSUME IInv, [Next]_vars PROVE IInv'
  OBVIOUS
<1> USE TaskLifeAssumption, ReaperFacts
<1>0. TypeOK' BY TypeStep DEF IInv
<1> USE DEF PCs, ExitPCs, WaitPCs, Goto
<1>1. ASSUME NEW t \in Tasks, NEW c \in Tasks, Fork(t, c) PROVE IInv'
  <2>1. Family' BY <1>1, <1>0 DEF Fork, IInv, TypeOK, Family, Phase
  <2>2. Phase' BY <1>1, <1>0 DEF Fork, IInv, TypeOK, Family, Phase, Late, Release, Dead
  <2>3. Release' BY <1>1, <1>0 DEF Fork, IInv, TypeOK, Family, Phase, Release, Dead, Holding
  <2>4. Dead' BY <1>1, <1>0 DEF Fork, IInv, TypeOK, Phase, Release, Dead, Holding
  <2> QED BY <1>0, <2>1, <2>2, <2>3, <2>4 DEF IInv
<1>2. ASSUME NEW t \in Tasks, HandleSignal(t) PROVE IInv'
  <2>1. Family' BY <1>2, <1>0 DEF HandleSignal, IInv, TypeOK, Family, Phase
  <2>2. Phase' BY <1>2, <1>0 DEF HandleSignal, IInv, TypeOK, Family, Phase, Late, Release, Dead
  <2>3. Release' BY <1>2, <1>0 DEF HandleSignal, IInv, TypeOK, Family, Phase, Release, Dead, Holding
  <2>4. Dead' BY <1>2, <1>0 DEF HandleSignal, IInv, TypeOK, Phase, Release, Dead, Holding
  <2> QED BY <1>0, <2>1, <2>2, <2>3, <2>4 DEF IInv
<1>3. ASSUME NEW t \in Tasks, Exit(t) PROVE IInv'
  <2>1. Family' BY <1>3, <1>0 DEF Exit, IInv, TypeOK, Family, Phase
  <2>2. Phase' BY <1>3, <1>0 DEF Exit, IInv, TypeOK, Family, Phase, Late, Release, Dead
  <2>3. Release' BY <1>3, <1>0 DEF Exit, IInv, TypeOK, Family, Phase, Release, Dead, Holding
  <2>4. Dead' BY <1>3, <1>0 DEF Exit, IInv, TypeOK, Phase, Release, Dead, Holding
  <2> QED BY <1>0, <2>1, <2>2, <2>3, <2>4 DEF IInv
<1>4. ASSUME NEW t \in Tasks, Reparent(t) PROVE IInv'
  <2>1. Family' BY <1>4, <1>0 DEF Reparent, IInv, TypeOK, Family, Phase
  <2>2. Phase' BY <1>4, <1>0 DEF Reparent, IInv, TypeOK, Family, Phase, Late, Release, Dead
  <2>3. Release' BY <1>4, <1>0 DEF Reparent, IInv, TypeOK, Family, Phase, Release, Dead, Holding
  <2>4. Dead' BY <1>4, <1>0 DEF Reparent, IInv, TypeOK, Family, Phase, Release, Dead, Holding
  <2> QED BY <1>0, <2>1, <2>2, <2>3, <2>4 DEF IInv
<1>5. ASSUME NEW t \in Tasks, ReparentCheck(t) PROVE IInv'
  <2>1. Family' BY <1>5, <1>0 DEF ReparentCheck, Touch, WakeUp, WakeUpOne, IInv, TypeOK, Family, Phase
  <2>2. Phase' BY <1>5, <1>0 DEF ReparentCheck, Touch, WakeUp, WakeUpOne, IInv, TypeOK, Family, Phase, Late, Release, Dead
  <2>3. Release' BY <1>5, <1>0 DEF ReparentCheck, Touch, WakeUp, WakeUpOne, IInv, TypeOK, Family, Phase, Release, Dead, Holding
  <2>4. Dead' BY <1>5, <1>0 DEF ReparentCheck, Touch, WakeUp, WakeUpOne, IInv, TypeOK, Phase, Release, Dead, Holding
  <2> QED BY <1>0, <2>1, <2>2, <2>3, <2>4 DEF IInv
<1>6. ASSUME NEW t \in Tasks, ReadParent(t) PROVE IInv'
  <2>1. Family' BY <1>6, <1>0 DEF ReadParent, IInv, TypeOK, Family, Phase
  <2>2. Phase' BY <1>6, <1>0 DEF ReadParent, IInv, TypeOK, Family, Phase, Late, Release, Dead
  <2>3. Release' BY <1>6, <1>0 DEF ReadParent, IInv, TypeOK, Family, Phase, Release, Dead, Holding
  <2>4. Dead' BY <1>6, <1>0 DEF ReadParent, IInv, TypeOK, Phase, Release, Dead, Holding
  <2> QED BY <1>0, <2>1, <2>2, <2>3, <2>4 DEF IInv
<1>7. ASSUME NEW t \in Tasks, SignalParent(t) PROVE IInv'
  <2>1. Family' BY <1>7, <1>0 DEF SignalParent, Touch, WakeUp, IInv, TypeOK, Family, Phase
  <2>2. Phase' BY <1>7, <1>0 DEF SignalParent, Touch, WakeUp, IInv, TypeOK, Family, Phase, Late, Release, Dead
  <2>3. Release' BY <1>7, <1>0 DEF SignalParent, Touch, WakeUp, IInv, TypeOK, Family, Phase, Release, Dead, Holding
  <2>4. Dead' BY <1>7, <1>0 DEF SignalParent, Touch, WakeUp, IInv, TypeOK, Phase, Release, Dead, Holding
  <2> QED BY <1>0, <2>1, <2>2, <2>3, <2>4 DEF IInv
<1>8. ASSUME NEW t \in Tasks, WakeParent(t) PROVE IInv'
  <2>1. Family' BY <1>8, <1>0 DEF WakeParent, Touch, WakeUp, WakeUpOne, IInv, TypeOK, Family, Phase
  <2>2. Phase' BY <1>8, <1>0 DEF WakeParent, Touch, WakeUp, WakeUpOne, IInv, TypeOK, Family, Phase, Late, Release, Dead
  <2>3. Release' BY <1>8, <1>0 DEF WakeParent, Touch, WakeUp, WakeUpOne, IInv, TypeOK, Family, Phase, Release, Dead, Holding
  <2>4. Dead' BY <1>8, <1>0 DEF WakeParent, Touch, WakeUp, WakeUpOne, IInv, TypeOK, Phase, Release, Dead, Holding
  <2> QED BY <1>0, <2>1, <2>2, <2>3, <2>4 DEF IInv
<1>9. ASSUME NEW t \in Tasks, SchedTail(t) PROVE IInv'
  <2>1. Family' BY <1>9, <1>0 DEF SchedTail, IInv, TypeOK, Family, Phase
  <2>2. Phase' BY <1>9, <1>0 DEF SchedTail, IInv, TypeOK, Family, Phase, Late, Release, Dead
  <2>3. Release' BY <1>9, <1>0 DEF SchedTail, IInv, TypeOK, Family, Phase, Release, Dead, Holding
  <2>4. Dead' BY <1>9, <1>0 DEF SchedTail, IInv, TypeOK, Phase, Release, Dead, Holding
  <2> QED BY <1>0, <2>1, <2>2, <2>3, <2>4 DEF IInv
<1>10. ASSUME NEW t \in Tasks, TailDestroy(t) PROVE IInv'
  <2>1. Family' BY <1>10, <1>0 DEF TailDestroy, Destroy, IInv, TypeOK, Family, Release, Dead, Holding
  <2>2. Phase' BY <1>10, <1>0 DEF TailDestroy, Destroy, IInv, TypeOK, Family, Phase, Late, Release, Dead
  <2>3. Release' BY <1>10, <1>0 DEF TailDestroy, Destroy, IInv, TypeOK, Family, Phase, Release, Dead, Holding
  <2>4. Dead' BY <1>10, <1>0 DEF TailDestroy, Destroy, IInv, TypeOK, Phase, Release, Dead, Holding
  <2> QED BY <1>0, <2>1, <2>2, <2>3, <2>4 DEF IInv
<1>11. ASSUME NEW t \in Tasks, NEW w \in Tasks \cup {NoTask},
            NEW opt \in BOOLEAN, WaitPid(t, w, opt) PROVE IInv'
  <2>1. Family' BY <1>11, <1>0 DEF WaitPid, IInv, TypeOK, Family, Phase
  <2>2. Phase' BY <1>11, <1>0 DEF WaitPid, IInv, TypeOK, Family, Phase, Late, Release, Dead
  <2>3. Release' BY <1>11, <1>0 DEF WaitPid, IInv, TypeOK, Family, Phase, Release, Dead, Holding
  <2>4. Dead' BY <1>11, <1>0 DEF WaitPid, IInv, TypeOK, Phase, Release, Dead, Holding
  <2> QED BY <1>0, <2>1, <2>2, <2>3, <2>4 DEF IInv
<1>12. ASSUME NEW t \in Tasks, FindExited(t) PROVE IInv'
  <2>1. Family' BY <1>12, <1>0 DEF FindExited, Matching, Exited, IInv, TypeOK, Family, Phase
  <2>2. Phase' BY <1>12, <1>0 DEF FindExited, Matching, Exited, IInv, TypeOK, Family, Phase, Late, Release, Dead
  <2>3. Release' BY <1>12, <1>0 DEF FindExited, Matching, Exited, IInv, TypeOK, Family, Phase, Release, Dead, Holding
  <2>4. Dead' BY <1>12, <1>0 DEF FindExited, Matching, Exited, IInv, TypeOK, Phase, Release, Dead, Holding
  <2> QED BY <1>0, <2>1, <2>2, <2>3, <2>4 DEF IInv
<1>13. ASSUME NEW t \in Tasks, FindNone(t) PROVE IInv'
  <2>1. Family' BY <1>13, <1>0 DEF FindNone, Matching, Exited, Return, IInv, TypeOK, Family, Phase
  <2>2. Phase' BY <1>13, <1>0 DEF FindNone, Matching, Exited, Return, IInv, TypeOK, Family, Phase, Late, Release, Dead
  <2>3. Release' BY <1>13, <1>0 DEF FindNone, Matching, Exited, Return, IInv, TypeOK, Family, Phase, Release, Dead, Holding
  <2>4. Dead' BY <1>13, <1>0 DEF FindNone, Matching, Exited, Return, IInv, TypeOK, Phase, Release, Dead, Holding
  <2> QED BY <1>0, <2>1, <2>2, <2>3, <2>4 DEF IInv
<1>14. ASSUME NEW t \in Tasks, Detach(t) PROVE IInv'
  <2>1. Family' BY <1>14, <1>0 DEF Detach, IInv, TypeOK, Family, Phase
  <2>2. Phase' BY <1>14, <1>0 DEF Detach, IInv, TypeOK, Family, Phase, Late, Release, Dead
  <2>3. Release' BY <1>14, <1>0 DEF Detach, IInv, TypeOK, Family, Phase, Release, Dead, Holding
  <2>4. Dead' BY <1>14, <1>0 DEF Detach, IInv, TypeOK, Phase, Release, Dead, Holding
  <2> QED BY <1>0, <2>1, <2>2, <2>3, <2>4 DEF IInv
<1>15. ASSUME NEW t \in Tasks, MarkDead(t) PROVE IInv'
  <2>1. Family' BY <1>15, <1>0 DEF MarkDead, Return, IInv, TypeOK, Family, Release, Dead, Holding
  <2>2. Phase' BY <1>15, <1>0 DEF MarkDead, Return, IInv, TypeOK, Family, Phase, Late, Release, Dead
  <2>3. Release' BY <1>15, <1>0, SMTT(30) DEF MarkDead, Return, IInv, TypeOK, Family, Phase, Release, Dead, Holding
  <2>4. Dead' BY <1>15, <1>0 DEF MarkDead, Return, IInv, TypeOK, Phase, Release, Dead, Holding
  <2> QED BY <1>0, <2>1, <2>2, <2>3, <2>4 DEF IInv
<1>16. ASSUME NEW t \in Tasks, WaitDestroy(t) PROVE IInv'
  <2>1. Family' BY <1>16, <1>0 DEF WaitDestroy, Destroy, Return, IInv, TypeOK, Family, Release, Dead, Holding
  <2>2. Phase' BY <1>16, <1>0 DEF WaitDestroy, Destroy, Return, IInv, TypeOK, Family, Phase, Late, Release, Dead
  <2>3. Release' BY <1>16, <1>0 DEF WaitDestroy, Destroy, Return, IInv, TypeOK, Family, Phase, Release, Dead, Holding
  <2>4. Dead' BY <1>16, <1>0 DEF WaitDestroy, Destroy, Return, IInv, TypeOK, Phase, Release, Dead, Holding
  <2> QED BY <1>0, <2>1, <2>2, <2>3, <2>4 DEF IInv
<1>17. ASSUME NEW t \in Tasks, Recheck(t) PROVE IInv'
  <2>1. Family' BY <1>17, <1>0 DEF Recheck, Matching, Exited, IInv, TypeOK, Family, Phase
  <2>2. Phase' BY <1>17, <1>0 DEF Recheck, Matching, Exited, IInv, TypeOK, Family, Phase, Late, Release, Dead
  <2>3. Release' BY <1>17, <1>0 DEF Recheck, Matching, Exited, IInv, TypeOK, Family, Phase, Release, Dead, Holding
  <2>4. Dead' BY <1>17, <1>0 DEF Recheck, Matching, Exited, IInv, TypeOK, Phase, Release, Dead, Holding
  <2> QED BY <1>0, <2>1, <2>2, <2>3, <2>4 DEF IInv
<1>18. ASSUME NEW t \in Tasks, Sleep(t) PROVE IInv'
  <2>1. Family' BY <1>18, <1>0 DEF Sleep, IInv, TypeOK, Family, Phase
  <2>2. Phase' BY <1>18, <1>0 DEF Sleep, IInv, TypeOK, Family, Phase, Late, Release, Dead
  <2>3. Release' BY <1>18, <1>0, SMTT(30) DEF Sleep, IInv, TypeOK, Phase, Release, Holding
  <2>4. Dead' BY <1>18, <1>0 DEF Sleep, IInv, TypeOK, Phase, Release, Dead, Holding
  <2> QED BY <1>0, <2>1, <2>2, <2>3, <2>4 DEF IInv
<1>19. ASSUME NEW t \in Tasks, Woken(t) PROVE IInv'
  <2>1. Family' BY <1>19, <1>0 DEF Woken, Return, IInv, TypeOK, Family, Phase
  <2>2. Phase' BY <1>19, <1>0 DEF Woken, Return, IInv, TypeOK, Family, Phase, Late, Release, Dead
  <2>3. Release' BY <1>19, <1>0, SMTT(30) DEF Woken, Return, IInv, TypeOK, Family, Phase, Release, Dead, Holding
  <2>4. Dead' BY <1>19, <1>0 DEF Woken, Return, IInv, TypeOK, Phase, Release, Dead, Holding
  <2> QED BY <1>0, <2>1, <2>2, <2>3, <2>4 DEF IInv
<1>20. CASE UNCHANGED vars
  BY <1>0, <1>20 DEF vars, IInv, Family, Phase, Release, Dead
<1> QED BY <1>1, <1>2, <1>3, <1>4, <1>5, <1>6, <1>7, <1>8, <1>9, <1>10, <1>11, <1>12, <1>13, <1>14, <1>15, <1>16, <1>17, <1>18, <1>19, <1>20 DEF Next, ExitStep, WaitStep

(***************************************************************************)
(* The hand-over of an exited task between do_waitpid and sched_tail is    *)
(* right for every number of tasks: task_destroy runs once, with the task  *)
(* off its CPU.                                                            *)
(***************************************************************************)
THEOREM ExitedAreReleasedOnce == Spec => [](TypeOK /\ DestroyedOnce)
<1>1. IInv => TypeOK /\ DestroyedOnce
  BY TaskLifeAssumption DEF IInv, TypeOK, Phase, Dead, DestroyedOnce
<1> QED BY <1>1, InitIInv, IInvStep, PTL DEF Spec

(***************************************************************************)
(* task_destroy frees a task no list leads to: the run queues, the         *)
(* families and the wait queues have let go of it before.                  *)
(***************************************************************************)
THEOREM FreedAreForgotten == Spec => []FreedIsUnreachable
<1>1. IInv => FreedIsUnreachable
  BY TaskLifeAssumption DEF IInv, TypeOK, Family, Phase, Late, Dead, FreedIsUnreachable
<1> QED BY <1>1, InitIInv, IInvStep, PTL DEF Spec

-----------------------------------------------------------------------------
(***************************************************************************)
(* Who has yet to wake p for its exited child c: c itself, which has not   *)
(* read its parent or is about to wake what it read, or a parent that is   *)
(* handing c over.                                                         *)
(***************************************************************************)
Waker(p, c) ==
  \/ pc[c] \in {"x_reparent", "x_check", "x_last", "x_parent"}
  \/ pc[c] \in {"x_signal", "x_wake"} /\ hand[c] = p
  \/ \E q \in Tasks : pc[q] \in {"x_check", "x_last"} /\ hand[q] = c

(* From the second look on, so before p is even on the queue. *)
Heard ==
  \A p \in Tasks, c \in Tasks :
    status[p] = "SLEEPING" \/ pc[p] = "w_sleep" =>
      (c \in Exited(p) => Waker(p, c))

(* A sleeper is on its queue, and a child being handed over has its reaper. *)
Handing ==
  \A t \in Tasks :
    /\ status[t] = "SLEEPING" => linked[t]
    /\ pc[t] \in {"x_check", "x_last"} =>
         /\ hand[t] \in Tasks /\ status[hand[t]] # "UNUSED"
         /\ parent[hand[t]] \in {ReaperOf[hand[t]], NoTask}
    /\ pc[t] \in {"x_signal", "x_wake"} => hand[t] \in Tasks

WInv == Heard /\ Handing

(* Every step keeps Handing. *)
LEMMA HandingStep == IInv /\ IInv' /\ Handing /\ [Next]_vars => Handing'
<1> SUFFICES ASSUME IInv, IInv', Handing, [Next]_vars PROVE Handing'
  OBVIOUS
<1> USE TaskLifeAssumption, ReaperFacts DEF PCs, ExitPCs, WaitPCs, Goto, Handing
<1>1. ASSUME NEW t \in Tasks, NEW c \in Tasks, Fork(t, c) PROVE Handing'
  BY <1>1 DEF Fork, IInv, TypeOK, Family, Phase, Dead
<1>2. ASSUME NEW t \in Tasks, HandleSignal(t) PROVE Handing'
  BY <1>2 DEF HandleSignal, IInv, TypeOK, Family, Phase, Dead
<1>3. ASSUME NEW t \in Tasks, Exit(t) PROVE Handing'
  BY <1>3 DEF Exit, IInv, TypeOK, Family, Phase, Dead
<1>4. ASSUME NEW t \in Tasks, Reparent(t) PROVE Handing'
  BY <1>4, SMTT(30) DEF Reparent, IInv, TypeOK, Family, Phase, Dead
<1>5. ASSUME NEW t \in Tasks, ReparentCheck(t) PROVE Handing'
  BY <1>5 DEF ReparentCheck, Touch, WakeUp, WakeUpOne, IInv, TypeOK, Family, Phase, Dead
<1>6. ASSUME NEW t \in Tasks, ReadParent(t) PROVE Handing'
  BY <1>6 DEF ReadParent, IInv, TypeOK, Family, Phase, Dead
<1>7. ASSUME NEW t \in Tasks, SignalParent(t) PROVE Handing'
  BY <1>7 DEF SignalParent, Touch, WakeUp, IInv, TypeOK, Family, Phase, Dead
<1>8. ASSUME NEW t \in Tasks, WakeParent(t) PROVE Handing'
  BY <1>8 DEF WakeParent, Touch, WakeUp, WakeUpOne, IInv, TypeOK, Family, Phase, Dead
<1>9. ASSUME NEW t \in Tasks, SchedTail(t) PROVE Handing'
  BY <1>9 DEF SchedTail, IInv, TypeOK, Family, Phase, Dead
<1>10. ASSUME NEW t \in Tasks, TailDestroy(t) PROVE Handing'
  BY <1>10 DEF TailDestroy, Destroy, IInv, TypeOK, Family, Phase, Dead
<1>11. ASSUME NEW t \in Tasks, NEW w \in Tasks \cup {NoTask},
            NEW opt \in BOOLEAN, WaitPid(t, w, opt) PROVE Handing'
  BY <1>11 DEF WaitPid, IInv, TypeOK, Family, Phase, Dead
<1>12. ASSUME NEW t \in Tasks, FindExited(t) PROVE Handing'
  BY <1>12 DEF FindExited, IInv, TypeOK, Family, Phase, Dead
<1>13. ASSUME NEW t \in Tasks, FindNone(t) PROVE Handing'
  BY <1>13 DEF FindNone, Return, IInv, TypeOK, Family, Phase, Dead
<1>14. ASSUME NEW t \in Tasks, Detach(t) PROVE Handing'
  BY <1>14 DEF Detach, IInv, TypeOK, Family, Phase, Dead
<1>15. ASSUME NEW t \in Tasks, MarkDead(t) PROVE Handing'
  BY <1>15 DEF MarkDead, Return, IInv, TypeOK, Family, Phase, Dead
<1>16. ASSUME NEW t \in Tasks, WaitDestroy(t) PROVE Handing'
  BY <1>16 DEF WaitDestroy, Destroy, Return, IInv, TypeOK, Family, Phase, Dead
<1>17. ASSUME NEW t \in Tasks, Recheck(t) PROVE Handing'
  BY <1>17 DEF Recheck, IInv, TypeOK, Family, Phase, Dead
<1>18. ASSUME NEW t \in Tasks, Sleep(t) PROVE Handing'
  BY <1>18 DEF Sleep, IInv, TypeOK, Family, Phase, Dead
<1>19. ASSUME NEW t \in Tasks, Woken(t) PROVE Handing'
  BY <1>19 DEF Woken, Return, IInv, TypeOK, Family, Phase, Dead
<1>20. CASE UNCHANGED vars
  BY <1>20 DEF vars, IInv, TypeOK, Family, Phase, Dead
<1> QED BY <1>1, <1>2, <1>3, <1>4, <1>5, <1>6, <1>7, <1>8, <1>9, <1>10, <1>11, <1>12,
           <1>13, <1>14, <1>15, <1>16, <1>17, <1>18, <1>19, <1>20 DEF Next, ExitStep, WaitStep

(* Every step keeps Heard: whoever stops being the waker has woken p. *)
LEMMA HeardStep == IInv /\ IInv' /\ WInv /\ [Next]_vars => Heard'
<1> SUFFICES ASSUME IInv, IInv', Heard, Handing, [Next]_vars PROVE Heard'
  BY DEF WInv
<1> USE TaskLifeAssumption, ReaperFacts DEF PCs, ExitPCs, WaitPCs, Goto, Heard, Handing, Waker, Exited, Matching
<1>1. ASSUME NEW t \in Tasks, NEW c \in Tasks, Fork(t, c) PROVE Heard'
  BY <1>1 DEF Fork, IInv, TypeOK, Family, Phase
<1>2. ASSUME NEW t \in Tasks, HandleSignal(t) PROVE Heard'
  BY <1>2 DEF HandleSignal, IInv, TypeOK, Family, Phase
<1>3. ASSUME NEW t \in Tasks, Exit(t) PROVE Heard'
  BY <1>3 DEF Exit, IInv, TypeOK, Family, Phase
<1>4. ASSUME NEW t \in Tasks, Reparent(t) PROVE Heard'
  BY <1>4 DEF Reparent, IInv, TypeOK, Family, Phase
<1>5. ASSUME NEW t \in Tasks, ReparentCheck(t) PROVE Heard'
  BY <1>5, SMTT(30) DEF ReparentCheck, Touch, WakeUp, WakeUpOne, IInv, TypeOK, Family, Phase
<1>6. ASSUME NEW t \in Tasks, ReadParent(t) PROVE Heard'
  BY <1>6 DEF ReadParent, IInv, TypeOK, Family, Phase
<1>7. ASSUME NEW t \in Tasks, SignalParent(t) PROVE Heard'
  BY <1>7 DEF SignalParent, Touch, WakeUp, IInv, TypeOK, Family, Phase
<1>8. ASSUME NEW t \in Tasks, WakeParent(t) PROVE Heard'
  BY <1>8 DEF WakeParent, Touch, WakeUp, WakeUpOne, IInv, TypeOK, Family, Phase
<1>9. ASSUME NEW t \in Tasks, SchedTail(t) PROVE Heard'
  BY <1>9 DEF SchedTail, IInv, TypeOK, Family, Phase
<1>10. ASSUME NEW t \in Tasks, TailDestroy(t) PROVE Heard'
  BY <1>10 DEF TailDestroy, Destroy, IInv, TypeOK, Family, Phase
<1>11. ASSUME NEW t \in Tasks, NEW w \in Tasks \cup {NoTask},
            NEW opt \in BOOLEAN, WaitPid(t, w, opt) PROVE Heard'
  BY <1>11 DEF WaitPid, IInv, TypeOK, Family, Phase
<1>12. ASSUME NEW t \in Tasks, FindExited(t) PROVE Heard'
  BY <1>12 DEF FindExited, IInv, TypeOK, Family, Phase
<1>13. ASSUME NEW t \in Tasks, FindNone(t) PROVE Heard'
  <2>1. CASE Return(t)
    BY <1>13, <2>1 DEF FindNone, Return, IInv, TypeOK, Family, Phase
  <2>2. CASE Goto(t, "w_recheck") /\ UNCHANGED <<hand, want, nohang>>
    BY <1>13, <2>2 DEF FindNone, IInv, TypeOK, Family, Phase
  <2> QED BY <1>13, <2>1, <2>2 DEF FindNone
<1>14. ASSUME NEW t \in Tasks, Detach(t) PROVE Heard'
  BY <1>14 DEF Detach, IInv, TypeOK, Family, Phase
<1>15. ASSUME NEW t \in Tasks, MarkDead(t) PROVE Heard'
  <2>1. CASE Return(t)
    BY <1>15, <2>1 DEF MarkDead, Return, IInv, TypeOK, Family, Phase
  <2>2. CASE Goto(t, "w_destroy") /\ UNCHANGED <<hand, want, nohang>>
    BY <1>15, <2>2 DEF MarkDead, IInv, TypeOK, Family, Phase
  <2> QED BY <1>15, <2>1, <2>2 DEF MarkDead
<1>16. ASSUME NEW t \in Tasks, WaitDestroy(t) PROVE Heard'
  BY <1>16 DEF WaitDestroy, Destroy, Return, IInv, TypeOK, Family, Phase
<1>17. ASSUME NEW t \in Tasks, Recheck(t) PROVE Heard'
  BY <1>17 DEF Recheck, IInv, TypeOK, Family, Phase
<1>18. ASSUME NEW t \in Tasks, Sleep(t) PROVE Heard'
  BY <1>18 DEF Sleep, IInv, TypeOK, Family, Phase
<1>19. ASSUME NEW t \in Tasks, Woken(t) PROVE Heard'
  <2>1. CASE Return(t)
    BY <1>19, <2>1 DEF Woken, Return, IInv, TypeOK, Family, Phase
  <2>2. CASE Goto(t, "w_find") /\ UNCHANGED <<hand, want, nohang>>
    BY <1>19, <2>2 DEF Woken, IInv, TypeOK, Family, Phase
  <2> QED BY <1>19, <2>1, <2>2 DEF Woken
<1>20. CASE UNCHANGED vars
  BY <1>20 DEF vars, IInv, TypeOK, Family, Phase
<1> QED BY <1>1, <1>2, <1>3, <1>4, <1>5, <1>6, <1>7, <1>8, <1>9, <1>10, <1>11, <1>12,
           <1>13, <1>14, <1>15, <1>16, <1>17, <1>18, <1>19, <1>20 DEF Next, ExitStep, WaitStep

(***************************************************************************)
(* For every number of tasks, and however exits and reparentings cross:    *)
(* do_waitpid does not sleep through the exit of a child it waits for.     *)
(***************************************************************************)
THEOREM ExitsAreHeard == Spec => []NoLostChild
<1>1. Init => WInv
  BY TaskLifeAssumption DEF Init, WInv, Heard, Handing, Exited, Matching
<1>2. IInv /\ IInv' /\ WInv /\ [Next]_vars => WInv'
  BY HandingStep, HeardStep DEF WInv
<1>3. WInv => NoLostChild
  BY DEF WInv, Heard, Waker, NoLostChild
<1> QED BY <1>1, <1>2, <1>3, InitIInv, IInvStep, PTL DEF Spec
=============================================================================
