----------------------------- MODULE TimerQueue -----------------------------
(***************************************************************************)
(* The per-CPU timer heaps of kernel/time/timerqueue.c and the timer       *)
(* interrupt that drains them (timekeeping.c, drivers/clocksource).        *)
(*                                                                         *)
(* A call is one step: sched(), the only caller, has interrupts off and    *)
(* uses a timer pinned to its own CPU.  The base's lock is never taken, so *)
(* nothing orders the calls of two CPUs on one base; they are not claimed  *)
(* to be safe.  While a callback runs, its CPU may call the operations on  *)
(* other timers.  Like sched(), callers set times that are still to come.  *)
(* Timers are set for MaxTime at the latest, and the clock runs on until   *)
(* even a late device has fired for them.  Far is when the device fires    *)
(* that has been given UINT64_MAX: half an hour later, as ns_to_cycles     *)
(* wraps, and beyond the end of the clock.                                 *)
(***************************************************************************)
EXTENDS Integers, Sequences, FiniteSets

CONSTANTS NumCpus,    \* timer_base_count
          Timers,
          Pinned,     \* t->pinned: a CPU, or -1
          Period,     \* t->period_ns
          CallersOf,  \* the CPUs whose code starts, changes or cancels a timer
          MaxTimers, MaxTime,
          MaxLatency, \* the longest the timer interrupt takes, callbacks included
          NoTimer

CPUs == 0 .. NumCpus - 1
End  == MaxTime + MaxLatency
Far  == 3 * End + 1

ASSUME TimerAssumption ==
  /\ NumCpus \in Nat \ {0} /\ MaxTimers \in Nat \ {0} /\ MaxTime \in Nat
  /\ MaxLatency \in 0 .. MaxTime
  /\ Pinned \in [Timers -> CPUs \cup {-1}]
  /\ Period \in [Timers -> 0 .. MaxTime]
  /\ CallersOf \in [Timers -> SUBSET CPUs]
  /\ NoTimer \notin Timers

VARIABLES heap,     \* tb->heap[0 .. heap_size - 1] of each CPU
          idx,      \* t->heap_idx
          expires, active, cpu,
          hw,       \* when the clock event device of a CPU fires
          now,
          irq,      \* where a CPU is in timerqueue_run_expired
          irq_now,  \* its argument
          running   \* the timer whose callback runs on a CPU

vars == <<heap, idx, expires, active, cpu, hw, now, irq, irq_now, running>>

TypeOK ==
  /\ heap \in [CPUs -> Seq(Timers)]
  /\ \A c \in CPUs : Len(heap[c]) <= MaxTimers
  /\ idx \in [Timers -> Nat]
  /\ expires \in [Timers -> 0 .. MaxTime + End]
  /\ active \in [Timers -> BOOLEAN]
  /\ cpu \in [Timers -> CPUs]
  /\ hw \in [CPUs -> 0 .. Far]
  /\ now \in 0 .. End
  /\ irq \in [CPUs -> {"out", "loop", "callback"}]
  /\ irq_now \in [CPUs -> 0 .. End]
  /\ running \in [CPUs -> Timers \cup {NoTimer}]

Init ==
  /\ heap = [c \in CPUs |-> <<>>]
  /\ idx = [t \in Timers |-> 0]
  /\ expires = [t \in Timers |-> 0]
  /\ active = [t \in Timers |-> FALSE]
  /\ cpu = [t \in Timers |-> 0]
  /\ hw = [c \in CPUs |-> Far]
  /\ now = 0
  /\ irq = [c \in CPUs |-> "out"]
  /\ irq_now = [c \in CPUs |-> 0]
  /\ running = [c \in CPUs |-> NoTimer]

-----------------------------------------------------------------------------
(***************************************************************************)
(* The heap operations.  A base is a record b of its array b.h and of the  *)
(* heap_idx of all timers b.ix; e gives the expiry times.  Positions count *)
(* from 0 as in the code.                                                  *)
(***************************************************************************)
Node(b, i) == b.h[i + 1]
Size(b)    == Len(b.h)

ParentIdx(i) == IF i = 0 THEN 0 ELSE (i - 1) \div 2

Swap(b, i, j) ==
  [h  |-> [b.h EXCEPT ![i + 1] = Node(b, j), ![j + 1] = Node(b, i)],
   ix |-> [b.ix EXCEPT ![Node(b, j)] = i, ![Node(b, i)] = j]]

(* The k-th call of heapify_up or heapify_down finds the node at at[k]. *)
HeapifyUp(b, e, i) ==
  LET step[k \in 0 .. Size(b)] ==
        IF k = 0 THEN [b |-> b, at |-> i]
        ELSE LET s == step[k - 1]
                 p == ParentIdx(s.at)
             IN  IF e[Node(s.b, s.at)] < e[Node(s.b, p)]
                 THEN [b |-> Swap(s.b, s.at, p), at |-> p]
                 ELSE s
  IN  step[Size(b)].b

(* The smallest of a node and its children; the left one if they tie. *)
Smallest(b, e, i) ==
  LET l  == 2 * i + 1
      r  == 2 * i + 2
      s1 == IF l < Size(b) /\ e[Node(b, l)] < e[Node(b, i)] THEN l ELSE i
  IN  IF r < Size(b) /\ e[Node(b, r)] < e[Node(b, s1)] THEN r ELSE s1

HeapifyDown(b, e, i) ==
  LET step[k \in 0 .. Size(b)] ==
        IF k = 0 THEN [b |-> b, at |-> i]
        ELSE LET s == step[k - 1]
                 m == Smallest(s.b, e, s.at)
             IN  IF m = s.at THEN s ELSE [b |-> Swap(s.b, s.at, m), at |-> m]
  IN  step[Size(b)].b

(* Mutant: heap_reorder_node never moves a node towards the root. *)
ReorderDown(b, e, i) == IF i >= Size(b) THEN b ELSE HeapifyDown(b, e, i)

Reorder(b, e, i) ==
  IF i >= Size(b) THEN b
  ELSE IF i > 0 /\ e[Node(b, i)] < e[Node(b, ParentIdx(i))]
  THEN HeapifyUp(b, e, i)
  ELSE HeapifyDown(b, e, i)

(* The last node takes the place of the one at i, unless that is the last. *)
MoveLast(b, i) ==
  LET n    == Size(b)
      last == Node(b, n - 1)
      cut  == SubSeq(b.h, 1, n - 1)
  IN  IF i = n - 1
      THEN [b EXCEPT !.h = cut]
      ELSE [h |-> [cut EXCEPT ![i + 1] = last], ix |-> [b.ix EXCEPT ![last] = i]]

Base(c) == [h |-> heap[c], ix |-> idx]

PutBase(c, b) == \E x \in {b} : heap' = [heap EXCEPT ![c] = x.h] /\ idx' = x.ix

(* choose_proper_cpuid: the first CPU with the fewest timers. *)
ChooseCpu ==
  CHOOSE c \in CPUs :
    \A d \in CPUs : \/ Len(heap[c]) < Len(heap[d])
                    \/ Len(heap[c]) = Len(heap[d]) /\ c <= d

TargetCpu(t) == IF Pinned[t] # -1 THEN Pinned[t] ELSE ChooseCpu

CanPush(t) == Len(heap[TargetCpu(t)]) < MaxTimers

(* heap_push, when there is room. *)
Push(t, e) ==
  \E c \in {TargetCpu(t)} :
    \E b \in {[h |-> Append(heap[c], t), ix |-> [idx EXCEPT ![t] = Len(heap[c])]]} :
      /\ PutBase(c, HeapifyUp(b, e, Len(heap[c])))
      /\ cpu' = [cpu EXCEPT ![t] = c]

(* program_next_event on CPU c: a deadline in the past fires at once. *)
Program(c, next) == hw' = [hw EXCEPT ![c] = IF next > now THEN next ELSE now]

-----------------------------------------------------------------------------
(* Code on CPU c, in a callback or not, calls an operation on timer t. *)
MayCall(c, t) ==
  /\ c \in CallersOf[t] /\ irq[c] # "loop"
  /\ \A d \in CPUs : running[d] # t

(* timer_start with the expiry times e; the device is its own CPU's only. *)
Start(c, t, e) ==
  /\ ~active[t]
  /\ IF CanPush(t)
     THEN /\ Push(t, e)
          /\ active' = [active EXCEPT ![t] = TRUE]
          /\ IF TargetCpu(t) = c /\ heap'[c][1] = t THEN Program(c, e[t]) ELSE UNCHANGED hw
     ELSE UNCHANGED <<heap, idx, cpu, active, hw>>

(* The tail of timer_mod and timer_cancel. *)
Reprogram(c, t) ==
  IF cpu[t] = c /\ heap'[c] # <<>>
  THEN Program(c, expires'[heap'[c][1]])
  ELSE UNCHANGED hw

(* timer_mod *)
Mod(c, t, when) ==
  LET e == [expires EXCEPT ![t] = when]
  IN  /\ MayCall(c, t)
      /\ expires' = e
      /\ \/ Start(c, t, e)
         \/ /\ active[t]
            /\ PutBase(cpu[t], Reorder(Base(cpu[t]), e, idx[t]))
            /\ Reprogram(c, t)
            /\ UNCHANGED <<active, cpu>>
      /\ UNCHANGED <<now, irq, irq_now, running>>

(* timer_cancel; a timer that is not where heap_idx says is left alone. *)
Cancel(c, t) ==
  LET b == Base(cpu[t])
      i == idx[t]
  IN  /\ MayCall(c, t) /\ active[t]
      /\ active' = [active EXCEPT ![t] = FALSE]
      /\ UNCHANGED expires
      /\ IF i >= Size(b) \/ Node(b, i) # t
         THEN UNCHANGED <<heap, idx, hw>>
         ELSE /\ PutBase(cpu[t], Reorder(MoveLast(b, i), expires, i))
              /\ Reprogram(c, t)
      /\ UNCHANGED <<cpu, now, irq, irq_now, running>>

-----------------------------------------------------------------------------
(* Time passes, also for a CPU inside the interrupt. *)
Tick ==
  /\ now < End
  /\ \A c \in CPUs : irq[c] # "out" => now - irq_now[c] < MaxLatency
  /\ now' = now + 1
  /\ UNCHANGED <<heap, idx, expires, active, cpu, hw, irq, irq_now, running>>

(* timekeeping_timer_interrupt *)
Interrupt(c) ==
  /\ irq[c] = "out" /\ hw[c] <= now
  /\ irq' = [irq EXCEPT ![c] = "loop"]
  /\ irq_now' = [irq_now EXCEPT ![c] = now]
  /\ UNCHANGED <<heap, idx, expires, active, cpu, hw, now, running>>

Due(c) == heap[c] # <<>> /\ expires[heap[c][1]] <= irq_now[c]

(* heap_pop and the call of the callback. *)
Pop(c) ==
  /\ irq[c] = "loop" /\ Due(c)
  /\ \E b \in {MoveLast(Base(c), 0)} :
       PutBase(c, IF Size(b) > 0 THEN HeapifyDown(b, expires, 0) ELSE b)
  /\ running' = [running EXCEPT ![c] = heap[c][1]]
  /\ irq' = [irq EXCEPT ![c] = "callback"]
  /\ UNCHANGED <<expires, active, cpu, hw, now, irq_now>>

(* The callback returns: a periodic timer goes back, if there is room. *)
Again(c) ==
  LET t == running[c]
  IN  /\ irq[c] = "callback"
      /\ IF Period[t] > 0
         THEN /\ expires' = [expires EXCEPT ![t] = irq_now[c] + Period[t]]
              /\ IF CanPush(t) THEN Push(t, expires') ELSE UNCHANGED <<heap, idx, cpu>>
              /\ UNCHANGED active
         ELSE /\ active' = [active EXCEPT ![t] = FALSE]
              /\ UNCHANGED <<heap, idx, expires, cpu>>
      /\ running' = [running EXCEPT ![c] = NoTimer]
      /\ irq' = [irq EXCEPT ![c] = "loop"]
      /\ UNCHANGED <<hw, now, irq_now>>

(* Mutant: the interrupt does not program the next event. *)
LeaveUnprogrammed(c) ==
  /\ irq[c] = "loop" /\ ~Due(c)
  /\ hw' = [hw EXCEPT ![c] = Far]
  /\ irq' = [irq EXCEPT ![c] = "out"]
  /\ UNCHANGED <<heap, idx, expires, active, cpu, now, irq_now, running>>

(***************************************************************************)
(* timerqueue_next_deadline, then program_next_event with the time of      *)
(* entry: the device counts the difference from the time of leaving.       *)
(***************************************************************************)
Leave(c) ==
  /\ irq[c] = "loop" /\ ~Due(c)
  /\ hw' = [hw EXCEPT ![c] = IF heap[c] = <<>> THEN Far
                             ELSE now + (expires[heap[c][1]] - irq_now[c])]
  /\ irq' = [irq EXCEPT ![c] = "out"]
  /\ UNCHANGED <<heap, idx, expires, active, cpu, now, irq_now, running>>

IrqStep(c) == Interrupt(c) \/ Pop(c) \/ Again(c) \/ Leave(c)

Next ==
  \/ Tick
  \/ \E c \in CPUs : \/ IrqStep(c)
                     \/ \E t \in Timers :
                          Cancel(c, t) \/ \E e \in now + 1 .. MaxTime : Mod(c, t, e)

Spec == Init /\ [][Next]_vars

(* Time passes, and a CPU takes its interrupts and finishes them. *)
FairSpec == Spec /\ WF_vars(Tick) /\ \A c \in CPUs : WF_vars(IrqStep(c))

-----------------------------------------------------------------------------
Queued(t, c) == \E i \in 1 .. Len(heap[c]) : heap[c][i] = t

(***************************************************************************)
(* A timer is active just when it is in a heap or its callback runs: it is *)
(* never forgotten, and it can be started again once it has fired.  Only a *)
(* periodic one may stay active and be nowhere, when timerqueue_run_       *)
(* expired finds no room for it.                                           *)
(***************************************************************************)
ActiveIsQueued ==
  \A t \in Timers :
    LET kept == \E c \in CPUs : Queued(t, c) \/ running[c] = t
    IN  /\ kept => active[t]
        /\ active[t] => kept \/ Period[t] > 0

(***************************************************************************)
(* Every heap is a heap, with at most MaxTimers nodes, and every timer     *)
(* knows its place in it and whether it is in one: the first to expire is  *)
(* at the top, timer_cancel removes the timer it is given, a full heap     *)
(* leaves a timer that can be started again, and no timer is in two heaps. *)
(***************************************************************************)
HeapsAreSound ==
  /\ TypeOK
  /\ ActiveIsQueued
  /\ \A c \in CPUs :
       \A i \in 1 .. Len(heap[c]) :
         LET t == heap[c][i]
         IN  /\ idx[t] = i - 1 /\ cpu[t] = c
             /\ expires[heap[c][ParentIdx(i - 1) + 1]] <= expires[t]

(***************************************************************************)
(* Outside the interrupt the clock device of a CPU is set to fire when its *)
(* first timer expires, late at most by the time the last interrupt took.  *)
(***************************************************************************)
DeadlineIsProgrammed ==
  \A c \in CPUs :
    irq[c] = "out" /\ heap[c] # <<>> =>
      hw[c] <= expires[heap[c][1]] + MaxLatency \/ hw[c] <= now

(***************************************************************************)
(* A timer in a heap that has expired, and by more than the device may be  *)
(* late, does not stay so: its callback is called, unless it is changed or *)
(* cancelled first.                                                        *)
(***************************************************************************)
ExpiredTimersRun ==
  \A t \in Timers :
    ((\E c \in CPUs : Queued(t, c)) /\ expires[t] + MaxLatency <= now) ~>
      (~active[t] \/ expires[t] + MaxLatency > now \/ \E c \in CPUs : running[c] = t)
=============================================================================
