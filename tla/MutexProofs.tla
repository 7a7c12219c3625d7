---------------------------- MODULE MutexProofs ----------------------------
(***************************************************************************)
(* kernel/mutex.c for every set of tasks, whichever of them are signalled: *)
(* mutual exclusion, even after the wait queue has been broken; and, until *)
(* a task links its wait node twice, a queue that holds every sleeper and  *)
(* wake-ups that are never lost.                                           *)
(***************************************************************************)
EXTENDS Mutex, FiniteSetTheorems, WellFoundedInduction, TLAPS

(* list_add_tail links nodes to nodes of the same list only. *)
LEMMA ListAddTailType ==
  ASSUME NEW N, NEW l \in [next : [N -> N], prev : [N -> N]],
         NEW head \in N, NEW node \in N
  PROVE  ListAddTail(l, head, node) \in [next : [N -> N], prev : [N -> N]]
BY DEF ListAddTail, ListAddBetween

(* list_del links nodes to nodes of the same list only. *)
LEMMA ListDelType ==
  ASSUME NEW N, NEW l \in [next : [N -> N], prev : [N -> N]], NEW node \in N
  PROVE  ListDel(l, node) \in [next : [N -> N], prev : [N -> N]]
BY DEF ListDel

(* A walk that ends has found the head or one of the nodes it looks for. *)
LEMMA WalkFinds ==
  ASSUME NEW l, NEW head, NEW S, WalkEnds(l, head, S)
  PROVE  FirstIn(l, head, S) \in S \cup {head}
BY DEF WalkEnds

(***************************************************************************)
(* Each step of mutex_lock, mutex_trylock, mutex_unlock and of a signal    *)
(* keeps every variable in its type: wake_up_one in particular unlinks     *)
(* only a node of this queue.                                              *)
(***************************************************************************)
LEMMA TypeStep == TypeOK /\ [Next]_vars => TypeOK'
<1> SUFFICES ASSUME TypeOK, [Next]_vars PROVE TypeOK'
  OBVIOUS
<1> USE TasksAssumption DEF TypeOK, PCs
<1>1. ASSUME NEW t \in Tasks, Enter(t) PROVE TypeOK'
  BY <1>1 DEF Enter
<1>2. ASSUME NEW t \in Tasks, TryLock(t) PROVE TypeOK'
  BY <1>2 DEF TryLock
<1>3. ASSUME NEW t \in Tasks, LockTake(t) PROVE TypeOK'
  BY <1>3 DEF LockTake
<1>4. ASSUME NEW t \in Tasks, LockSleep(t) PROVE TypeOK'
  <2>1. list' \in [next : [Nodes -> Nodes], prev : [Nodes -> Nodes]]
    BY <1>4, ListAddTailType DEF LockSleep, Nodes
  <2> QED BY <1>4, <2>1 DEF LockSleep
<1>5. ASSUME NEW t \in Tasks, Resume(t) PROVE TypeOK'
  BY <1>5 DEF Resume
<1>6. ASSUME NEW t \in Tasks, Unlock(t) PROVE TypeOK'
  <2>1. CASE ~locked
    BY <1>6, <2>1 DEF Unlock
  <2>2. CASE locked
    <3> DEFINE w == FirstIn(list, WaitHead, Sleepers)
    <3>1. w \in Nodes
      BY <1>6, WalkFinds DEF Unlock, Sleepers, Nodes
    <3>2. list' \in [next : [Nodes -> Nodes], prev : [Nodes -> Nodes]]
      BY <1>6, <2>2, <3>1, ListDelType DEF Unlock, WakeUpOne
    <3>3. status' \in [Tasks -> {"RUNNING", "SLEEPING"}]
      BY <1>6, <2>2 DEF Unlock, WakeUpOne
    <3> QED BY <1>6, <2>2, <3>2, <3>3 DEF Unlock
  <2> QED BY <2>1, <2>2
<1>7. ASSUME NEW t \in Tasks, UnlockSpins(t) PROVE TypeOK'
  BY <1>7 DEF UnlockSpins
<1>8. ASSUME NEW t \in Signalled, Signal(t) PROVE TypeOK'
  BY <1>8 DEF Signal
<1>9. CASE UNCHANGED vars
  BY <1>9 DEF vars
<1> QED
  BY <1>1, <1>2, <1>3, <1>4, <1>5, <1>6, <1>7, <1>8, <1>9 DEF Next, Step

(* The initial list, every node alone, has its type; no task is inside. *)
LEMMA InitHolds == Init => TypeOK /\ MutualExclusion
<1> SUFFICES ASSUME Init PROVE TypeOK /\ MutualExclusion
  OBVIOUS
<1>1. list \in [next : [Nodes -> Nodes], prev : [Nodes -> Nodes]]
  BY DEF Init, EmptyList
<1>2. TypeOK
  BY <1>1 DEF Init, TypeOK, PCs
<1>3. MutualExclusion
  BY DEF Init, MutualExclusion
<1> QED BY <1>2, <1>3

(***************************************************************************)
(* A task enters its critical section only where it finds locked = 0 and   *)
(* only the task inside clears it: the biconditional in MutualExclusion is *)
(* what makes the exclusion inductive.                                     *)
(***************************************************************************)
LEMMA ExclusionStep == TypeOK /\ MutualExclusion /\ [Next]_vars => MutualExclusion'
<1> SUFFICES ASSUME TypeOK, MutualExclusion, [Next]_vars PROVE MutualExclusion'
  OBVIOUS
<1> USE TasksAssumption DEF TypeOK, MutualExclusion
<1>1. ASSUME NEW t \in Tasks, Enter(t) PROVE MutualExclusion'
  BY <1>1 DEF Enter
<1>2. ASSUME NEW t \in Tasks, TryLock(t) PROVE MutualExclusion'
  BY <1>2 DEF TryLock
<1>3. ASSUME NEW t \in Tasks, LockTake(t) PROVE MutualExclusion'
  BY <1>3 DEF LockTake
<1>4. ASSUME NEW t \in Tasks, LockSleep(t) PROVE MutualExclusion'
  BY <1>4 DEF LockSleep
<1>5. ASSUME NEW t \in Tasks, Resume(t) PROVE MutualExclusion'
  BY <1>5 DEF Resume
<1>6. ASSUME NEW t \in Tasks, Unlock(t) PROVE MutualExclusion'
  BY <1>6 DEF Unlock
<1>7. ASSUME NEW t \in Tasks, UnlockSpins(t) PROVE MutualExclusion'
  BY <1>7 DEF UnlockSpins
<1>8. ASSUME NEW t \in Signalled, Signal(t) PROVE MutualExclusion'
  BY <1>8 DEF Signal
<1>9. CASE UNCHANGED vars
  BY <1>9 DEF vars
<1> QED
  BY <1>1, <1>2, <1>3, <1>4, <1>5, <1>6, <1>7, <1>8, <1>9 DEF Next, Step

(***************************************************************************)
(* mutex_lock, mutex_trylock and mutex_unlock exclude each other for any   *)
(* number of tasks, signalled or not.                                      *)
(***************************************************************************)
THEOREM MutexExcludes == Spec => [](TypeOK /\ MutualExclusion)
<1>1. TypeOK /\ MutualExclusion /\ [Next]_vars => (TypeOK /\ MutualExclusion)'
  BY TypeStep, ExclusionStep
<1> QED BY InitHolds, <1>1, PTL DEF Spec

-----------------------------------------------------------------------------
Lists == [next : [Nodes -> Nodes], prev : [Nodes -> Nodes]]

(* The nodes r[0], the head, to r[n] are linked in a ring, all others alone. *)
Ring(l, n, r) ==
  /\ n \in Nat /\ r \in [0 .. n -> Nodes] /\ r[0] = WaitHead
  /\ \A i, j \in 0 .. n : r[i] = r[j] => i = j
  /\ \A i \in 0 .. n - 1 : l.next[r[i]] = r[i + 1] /\ l.prev[r[i + 1]] = r[i]
  /\ l.next[r[n]] = WaitHead /\ l.prev[WaitHead] = r[n]
  /\ \A x \in Nodes : (\A i \in 0 .. n : r[i] # x) => l.next[x] = x /\ l.prev[x] = x

(* A set of natural numbers has a least one. *)
LEMMA LeastNumber ==
  ASSUME NEW T \in SUBSET Nat, T # {} PROVE \E x \in T : \A y \in T : x <= y
<1> DEFINE R == {ss \in Nat \X Nat : ss[1] < ss[2]}
<1>1. R = OpToRel(<, Nat)
  BY DEF OpToRel
<1>2. IsWellFoundedOn(R, Nat)
  BY <1>1, NatLessThanWellFounded
<1>3. PICK x \in T : \A y \in T : <<y, x>> \notin R
  <2> HIDE DEF R
  <2> QED BY <1>2, WFMin
<1>4. \A y \in T : y \in Nat /\ x \in Nat /\ ~(y < x)
  BY <1>3
<1> QED BY <1>4

(* The first node of S behind the head is the j-th, or j = n + 1: there is none. *)
First(n, r, S, j) ==
  /\ j \in 1 .. n + 1
  /\ \A i \in 1 .. j - 1 : r[i] \notin S
  /\ j <= n => r[j] \in S

(* Where a walk that stops at the j-th node, or behind the last, is after k steps. *)
Reached(n, r, j, k) == IF k + 1 < j THEN r[k + 1] ELSE IF j <= n THEN r[j] ELSE WaitHead

(* The walk of wake_up_one goes along the ring to the first node it looks for. *)
LEMMA WalkAlongRing ==
  ASSUME NEW l \in Lists, NEW n, NEW r, Ring(l, n, r), NEW S \in SUBSET Tasks,
         NEW j, First(n, r, S, j), NEW k \in Nat
  PROVE  Visited(l, WaitHead, S, k) = Reached(n, r, j, k)
<1> DEFINE End == IF j <= n THEN r[j] ELSE WaitHead
           g == [i \in 0 .. k |-> IF i + 1 < j THEN r[i + 1] ELSE End]
           F(f) == [i \in 0 .. k |-> IF i = 0 THEN l.next[WaitHead]
                                     ELSE IF f[i - 1] \in S \cup {WaitHead} THEN f[i - 1]
                                     ELSE l.next[f[i - 1]]]
           W == CHOOSE f : f = F(f)
<1>1. Visited(l, WaitHead, S, k) = W[k]
  BY DEF Visited
<1>2. n \in Nat /\ j \in Nat /\ j >= 1 /\ j <= n + 1
  BY DEF Ring, First
<1>3. End \in S \cup {WaitHead} /\ \A i \in 1 .. j - 1 : r[i] \notin S
  BY DEF First
<1>4. l.next[WaitHead] = IF 1 < j THEN r[1] ELSE End
  <2>1. CASE n = 0
    BY <2>1, <1>2 DEF Ring
  <2>2. CASE n > 0
    <3>1. l.next[r[0]] = r[0 + 1]
      BY <2>2, <1>2 DEF Ring
    <3> QED BY <2>2, <3>1, <1>2 DEF Ring
  <2> QED BY <2>1, <2>2, <1>2
<1>5. ASSUME NEW i \in 1 .. j - 1
      PROVE  /\ r[i] \notin S \cup {WaitHead}
             /\ l.next[r[i]] = IF i + 1 < j THEN r[i + 1] ELSE End
  <2>1. i \in 0 .. n /\ 0 \in 0 .. n /\ i # 0
    BY <1>2
  <2>2. r[i] # WaitHead
    BY <2>1 DEF Ring
  <2>3. CASE i = n
    BY <2>3, <2>2, <1>2, <1>3 DEF Ring
  <2>4. CASE i # n
    <3>1. i \in 0 .. n - 1
      BY <2>1, <2>4, <1>2
    <3>2. l.next[r[i]] = r[i + 1]
      BY <3>1 DEF Ring
    <3> QED BY <2>2, <3>1, <3>2, <1>2, <1>3
  <2> QED BY <2>3, <2>4
<1> HIDE DEF End
<1>6. ASSUME NEW f, NEW i \in 0 .. k, i > 0 => f[i - 1] = g[i - 1]
      PROVE  F(f)[i] = g[i]
  <2>1. CASE i = 0
    BY <2>1, <1>4, <1>2
  <2>2. CASE i > 0
    <3>1. i - 1 \in 0 .. k /\ (i - 1) + 1 = i /\ f[i - 1] = IF i < j THEN r[i] ELSE End
      BY <2>2, <1>6
    <3>2. CASE i < j
      <4>1. i \in 1 .. j - 1
        BY <2>2, <3>2, <1>2
      <4> QED BY <2>2, <3>1, <3>2, <4>1, <1>5
    <3>3. CASE ~(i < j)
      <4>1. ~(i + 1 < j)
        BY <3>3, <1>2
      <4> QED BY <2>2, <3>1, <3>3, <4>1, <1>3
    <3> QED BY <3>2, <3>3
  <2> QED BY <2>1, <2>2
<1>7. g = F(g)
  <2>1. \A i \in 0 .. k : F(g)[i] = g[i]
    BY <1>6
  <2> QED BY <2>1
<1>8. W = F(W)
  BY <1>7
<1> HIDE DEF W
<1>9. \A i \in 0 .. k : W[i] = g[i]
  <2> DEFINE T == {i \in 0 .. k : W[i] # g[i]}
  <2> SUFFICES ASSUME T # {} PROVE FALSE
    OBVIOUS
  <2>1. PICK x \in T : \A y \in T : x <= y
    <3>1. T \in SUBSET Nat
      OBVIOUS
    <3> HIDE DEF T
    <3> QED BY <3>1, LeastNumber
  <2>2. x > 0 => W[x - 1] = g[x - 1]
    <3> HIDE DEF g
    <3> QED BY <2>1
  <2>3. F(W)[x] = g[x]
    <3> HIDE DEF g, F
    <3> QED BY <2>2, <1>6
  <2>4. W[x] = g[x]
    <3> HIDE DEF g, F
    <3> QED BY <2>3, <1>8
  <2> HIDE DEF g
  <2> QED BY <2>4
<1> QED BY <1>1, <1>9 DEF End, Reached

(* A ring has no more nodes than there are. *)
LEMMA RingSize ==
  ASSUME NEW l, NEW n, NEW r, Ring(l, n, r)
  PROVE  Cardinality(Nodes) \in Nat /\ n + 1 <= Cardinality(Nodes)
<1>1. IsFiniteSet(Nodes)
  BY TasksAssumption, FS_AddElement DEF Nodes
<1>2. r \in Injection(0 .. n, Nodes)
  BY DEF Ring, Injection, IsInjective
<1>3. n \in Nat /\ Cardinality(0 .. n) = n + 1
  BY FS_Interval DEF Ring
<1> QED BY <1>1, <1>2, <1>3, FS_Injection, FS_CardinalityType

(* The nodes of a ring but its head. *)
On(n, r) == {r[i] : i \in 1 .. n}

(* list_for_each_entry visits all of the ring. *)
LEMMA RingMembers ==
  ASSUME NEW l \in Lists, NEW n, NEW r, Ring(l, n, r)
  PROVE  Members(l, WaitHead) = On(n, r)
<1> DEFINE C == Cardinality(Nodes)
<1>1. n \in Nat /\ C \in Nat /\ n + 1 <= C /\ DOMAIN l.next = Nodes
  <2>1. C \in Nat /\ n + 1 <= C
    BY RingSize
  <2>2. n \in Nat /\ DOMAIN l.next = Nodes
    BY DEF Ring, Lists
  <2> QED BY <2>1, <2>2
<1>2. ASSUME NEW k \in Nat
      PROVE  Visited(l, WaitHead, {}, k) = IF k < n THEN r[k + 1] ELSE WaitHead
  <2>1. n + 1 \in 1 .. n + 1 /\ ~(n + 1 <= n) /\ (k + 1 < n + 1 <=> k < n)
    BY <1>1
  <2>2. First(n, r, {}, n + 1)
    BY <2>1 DEF First
  <2>3. Visited(l, WaitHead, {}, k) = Reached(n, r, n + 1, k)
    BY <2>2, WalkAlongRing
  <2> QED BY <2>1, <2>3 DEF Reached
<1>3. \A i \in 1 .. n : r[i] # WaitHead
  BY <1>1 DEF Ring
<1> HIDE DEF C
<1>4. Members(l, WaitHead) = {Visited(l, WaitHead, {}, k) : k \in 0 .. C} \ {WaitHead}
  BY <1>1 DEF Members, C
<1>5. ASSUME NEW i \in 1 .. n PROVE r[i] \in Members(l, WaitHead)
  <2>1. i - 1 \in 0 .. C /\ i - 1 \in Nat /\ i - 1 < n /\ (i - 1) + 1 = i
    BY <1>1
  <2> QED BY <2>1, <1>2, <1>3, <1>4
<1>6. ASSUME NEW x \in Members(l, WaitHead) PROVE x \in On(n, r)
  <2>1. PICK k \in 0 .. C : x = Visited(l, WaitHead, {}, k) /\ x # WaitHead
    BY <1>4
  <2>2. k \in Nat /\ k < n /\ x = r[k + 1]
    BY <2>1, <1>1, <1>2
  <2>3. k + 1 \in 1 .. n
    BY <2>2, <1>1
  <2> QED BY <2>2, <2>3 DEF On
<1> QED BY <1>5, <1>6 DEF On

(* wake_up_one on a ring ends, at a sleeper if there is one on the ring. *)
LEMMA RingFirst ==
  ASSUME NEW l \in Lists, NEW n, NEW r, Ring(l, n, r), NEW S \in SUBSET Tasks
  PROVE  /\ WalkEnds(l, WaitHead, S)
         /\ FirstIn(l, WaitHead, S) # WaitHead =>
              \E j \in 1 .. n : FirstIn(l, WaitHead, S) = r[j] /\ r[j] \in S
         /\ FirstIn(l, WaitHead, S) = WaitHead => On(n, r) \cap S = {}
<1> DEFINE C == Cardinality(Nodes)
           T == {i \in 1 .. n : r[i] \in S}
<1>1. /\ n \in Nat /\ C \in Nat /\ n + 1 <= C
      /\ FirstIn(l, WaitHead, S) = Visited(l, WaitHead, S, C)
  <2>1. C \in Nat /\ n + 1 <= C
    BY RingSize
  <2>2. n \in Nat /\ DOMAIN l.next = Nodes
    BY DEF Ring, Lists
  <2> QED BY <2>1, <2>2 DEF FirstIn
<1>2. \A i \in 1 .. n : r[i] # WaitHead
  BY <1>1 DEF Ring
<1> HIDE DEF C
<1>3. CASE T = {}
  <2>1. n + 1 \in 1 .. n + 1 /\ ~(n + 1 <= n) /\ ~(C + 1 < n + 1) /\ (n + 1) - 1 = n
    BY <1>1
  <2>2. First(n, r, S, n + 1)
    BY <2>1, <1>3 DEF First
  <2>3. Visited(l, WaitHead, S, C) = Reached(n, r, n + 1, C)
    BY <2>2, <1>1, WalkAlongRing
  <2>4. Visited(l, WaitHead, S, C) = WaitHead
    BY <2>1, <2>3 DEF Reached
  <2> QED BY <2>4, <1>1, <1>3 DEF WalkEnds, On
<1>4. CASE T # {}
  <2>1. PICK j \in T : \A i \in T : j <= i
    <3>1. T \in SUBSET Nat
      OBVIOUS
    <3> HIDE DEF T
    <3> QED BY <3>1, <1>4, LeastNumber
  <2>2. j \in 1 .. n + 1 /\ j \in 1 .. n /\ j <= n /\ r[j] \in S /\ ~(C + 1 < j)
    BY <2>1, <1>1
  <2>3. \A i \in 1 .. j - 1 : r[i] \notin S
    <3>1. \A i \in 1 .. j - 1 : i \in 1 .. n /\ ~(j <= i)
      BY <2>2, <1>1
    <3> QED BY <2>1, <3>1
  <2>4. First(n, r, S, j)
    BY <2>2, <2>3 DEF First
  <2>5. Visited(l, WaitHead, S, C) = Reached(n, r, j, C)
    BY <2>4, <1>1, WalkAlongRing
  <2>6. Visited(l, WaitHead, S, C) = r[j]
    BY <2>2, <2>5 DEF Reached
  <2> QED BY <2>2, <2>6, <1>1, <1>2 DEF WalkEnds
<1> QED BY <1>3, <1>4

(* list_add_tail of a node that is alone. *)
LEMMA RingAdd ==
  ASSUME NEW l \in Lists, NEW n, NEW r, Ring(l, n, r), NEW t \in Tasks, l.next[t] = t
  PROVE  \E q : /\ Ring(ListAddTail(l, WaitHead, t), n + 1, q)
                /\ On(n + 1, q) = On(n, r) \cup {t}
<1> DEFINE q == [i \in 0 .. n + 1 |-> IF i <= n THEN r[i] ELSE t]
           m == ListAddTail(l, WaitHead, t)
<1>1. n \in Nat /\ n + 1 \in Nat /\ t \in Nodes /\ WaitHead \in Nodes /\ t # WaitHead
  BY TasksAssumption DEF Ring, Nodes
<1>2. \A i \in 0 .. n : r[i] # t
  <2> SUFFICES ASSUME NEW i \in 0 .. n, r[i] = t PROVE FALSE
    OBVIOUS
  <2>1. CASE i = n
    BY <2>1, <1>1 DEF Ring
  <2>2. CASE i # n
    <3>1. i \in 0 .. n - 1 /\ i + 1 \in 0 .. n /\ i # i + 1
      BY <2>2, <1>1
    <3> QED BY <3>1 DEF Ring
  <2> QED BY <2>1, <2>2
<1>3. /\ m.next = [l.next EXCEPT ![r[n]] = t, ![t] = WaitHead]
      /\ m.prev = [l.prev EXCEPT ![t] = r[n], ![WaitHead] = t]
  BY DEF Ring, ListAddTail, ListAddBetween
<1>4. /\ l.next \in [Nodes -> Nodes] /\ l.prev \in [Nodes -> Nodes]
      /\ \A i \in 0 .. n : r[i] \in Nodes
  BY DEF Lists, Ring
<1> HIDE DEF m
<1>5. /\ \A x \in Nodes : m.next[x] = IF x = t THEN WaitHead ELSE IF x = r[n] THEN t ELSE l.next[x]
      /\ \A x \in Nodes : m.prev[x] = IF x = WaitHead THEN t ELSE IF x = t THEN r[n] ELSE l.prev[x]
  BY <1>1, <1>2, <1>3, <1>4
<1>6. /\ q \in [0 .. n + 1 -> Nodes] /\ q[0] = WaitHead
      /\ \A i \in 0 .. n : q[i] = r[i]
      /\ q[n + 1] = t
  BY <1>1, <1>4 DEF Ring
<1>7. \A i \in 0 .. n + 1 : i \in 0 .. n \/ i = n + 1
  BY <1>1
<1>8. On(n + 1, q) = On(n, r) \cup {t}
  <2>1. \A i \in 1 .. n + 1 : i \in 1 .. n \/ i = n + 1
    BY <1>1
  <2>2. n + 1 \in 1 .. n + 1 /\ \A i \in 1 .. n : i \in 1 .. n + 1 /\ i \in 0 .. n
    BY <1>1
  <2> HIDE DEF q
  <2> QED BY <1>6, <2>1, <2>2 DEF On
<1> HIDE DEF q
<1>9. \A i, j \in 0 .. n + 1 : q[i] = q[j] => i = j
  BY <1>2, <1>6, <1>7 DEF Ring
<1>10. ASSUME NEW i \in 0 .. (n + 1) - 1
       PROVE  m.next[q[i]] = q[i + 1] /\ m.prev[q[i + 1]] = q[i]
  <2>1. i \in 0 .. n /\ n \in 0 .. n /\ 0 \in 0 .. n
    BY <1>1
  <2>2. CASE i = n
    BY <2>1, <2>2, <1>1, <1>2, <1>4, <1>5, <1>6
  <2>3. CASE i # n
    <3>1. i \in 0 .. n - 1 /\ i + 1 \in 0 .. n /\ i + 1 # 0
      BY <2>1, <2>3, <1>1
    <3>2. r[i] # r[n] /\ r[i + 1] # WaitHead
      BY <2>1, <2>3, <3>1 DEF Ring
    <3>3. l.next[r[i]] = r[i + 1] /\ l.prev[r[i + 1]] = r[i]
      BY <3>1 DEF Ring
    <3>4. q[i] = r[i] /\ q[i + 1] = r[i + 1] /\ r[i] # t /\ r[i + 1] # t
      BY <2>1, <3>1, <1>2, <1>6
    <3> QED BY <2>1, <3>1, <3>2, <3>3, <3>4, <1>4, <1>5
  <2> QED BY <2>2, <2>3
<1>11. m.next[q[n + 1]] = WaitHead /\ m.prev[WaitHead] = q[n + 1]
  BY <1>1, <1>5, <1>6
<1>12. ASSUME NEW x \in Nodes, \A i \in 0 .. n + 1 : q[i] # x
       PROVE  m.next[x] = x /\ m.prev[x] = x
  <2>1. x # t /\ \A i \in 0 .. n : i \in 0 .. n + 1 /\ r[i] # x
    BY <1>12, <1>1, <1>6
  <2>2. n \in 0 .. n /\ 0 \in 0 .. n
    BY <1>1
  <2>3. x # r[n] /\ x # WaitHead
    BY <2>1, <2>2 DEF Ring
  <2>4. l.next[x] = x /\ l.prev[x] = x
    BY <2>1 DEF Ring
  <2> QED BY <2>1, <2>3, <2>4, <1>5
<1>13. Ring(m, n + 1, q)
  BY <1>1, <1>6, <1>9, <1>10, <1>11, <1>12 DEF Ring
<1> QED BY <1>8, <1>13 DEF m

(* list_del of the k-th node. *)
LEMMA RingDel ==
  ASSUME NEW l \in Lists, NEW n, NEW r, Ring(l, n, r), NEW k \in 1 .. n
  PROVE  \E q : /\ Ring(ListDel(l, r[k]), n - 1, q)
                /\ On(n - 1, q) = On(n, r) \ {r[k]}
<1> DEFINE q == [i \in 0 .. n - 1 |-> IF i < k THEN r[i] ELSE r[i + 1]]
           m == ListDel(l, r[k])
           after == IF k = n THEN WaitHead ELSE r[k + 1]
<1>1. n \in Nat /\ k \in Nat /\ k >= 1 /\ k <= n
  BY DEF Ring
<1>2. /\ n - 1 \in Nat /\ k \in 0 .. n /\ k - 1 \in 0 .. n - 1 /\ k - 1 \in 0 .. n
      /\ 0 \in 0 .. n /\ n \in 0 .. n /\ (k - 1) + 1 = k
      /\ k # n => k + 1 \in 0 .. n /\ k \in 0 .. n - 1 /\ k + 1 # 0
  BY <1>1
<1>3. l.prev[r[k]] = r[k - 1] /\ l.next[r[k]] = after
  BY <1>1, <1>2 DEF Ring
<1>4. /\ l.next \in [Nodes -> Nodes] /\ l.prev \in [Nodes -> Nodes]
      /\ \A i \in 0 .. n : r[i] \in Nodes
      /\ WaitHead \in Nodes /\ r[0] = WaitHead
      /\ \A i, j \in 0 .. n : r[i] = r[j] => i = j
  BY DEF Lists, Ring, Nodes
<1>5. after \in Nodes /\ after # r[k] /\ r[k - 1] # r[k]
  BY <1>1, <1>2, <1>4
<1>6. /\ m.next = [l.next EXCEPT ![r[k - 1]] = after, ![r[k]] = r[k]]
      /\ m.prev = [l.prev EXCEPT ![after] = r[k - 1], ![r[k]] = r[k]]
  BY <1>3 DEF ListDel
<1> HIDE DEF m, after
<1>7. /\ \A x \in Nodes : m.next[x] = IF x = r[k] THEN r[k]
                                      ELSE IF x = r[k - 1] THEN after ELSE l.next[x]
      /\ \A x \in Nodes : m.prev[x] = IF x = r[k] THEN r[k]
                                      ELSE IF x = after THEN r[k - 1] ELSE l.prev[x]
  BY <1>2, <1>4, <1>5, <1>6
<1>8. \A i \in 0 .. n - 1 : i \in 0 .. n /\ i + 1 \in 0 .. n /\ (i < k => i # k) /\ (~(i < k) => i + 1 # k)
  BY <1>1
<1>9. /\ q \in [0 .. n - 1 -> Nodes] /\ q[0] = WaitHead
      /\ \A i \in 0 .. n - 1 : q[i] = IF i < k THEN r[i] ELSE r[i + 1]
  BY <1>1, <1>2, <1>4, <1>8
<1> HIDE DEF q
<1>10. \A i, j \in 0 .. n - 1 : q[i] = q[j] => i = j
  <2> SUFFICES ASSUME NEW i \in 0 .. n - 1, NEW j \in 0 .. n - 1, q[i] = q[j] PROVE i = j
    OBVIOUS
  <2>1. CASE i < k /\ j < k
    BY <2>1, <1>4, <1>8, <1>9
  <2>2. CASE i < k /\ ~(j < k)
    <3>1. i # j + 1
      BY <2>2, <1>1
    <3> QED BY <2>2, <3>1, <1>4, <1>8, <1>9
  <2>3. CASE ~(i < k) /\ j < k
    <3>1. j # i + 1
      BY <2>3, <1>1
    <3> QED BY <2>3, <3>1, <1>4, <1>8, <1>9
  <2>4. CASE ~(i < k) /\ ~(j < k)
    <3>1. i + 1 = j + 1
      BY <2>4, <1>4, <1>8, <1>9
    <3> QED BY <3>1, <1>1
  <2> QED BY <2>1, <2>2, <2>3, <2>4
<1>11. ASSUME NEW i \in 0 .. (n - 1) - 1
       PROVE  m.next[q[i]] = q[i + 1] /\ m.prev[q[i + 1]] = q[i]
  <2>1. i \in 0 .. n - 1 /\ i + 1 \in 0 .. n - 1 /\ (i + 1) + 1 \in 0 .. n /\ (i + 1) + 1 # 0
    BY <1>1
  <2>2. /\ l.next[r[i]] = r[i + 1] /\ l.prev[r[i + 1]] = r[i]
        /\ l.next[r[i + 1]] = r[(i + 1) + 1] /\ l.prev[r[(i + 1) + 1]] = r[i + 1]
    BY <2>1 DEF Ring
  <2>3. CASE i + 1 < k
    <3>1. /\ i < k /\ q[i] = r[i] /\ q[i + 1] = r[i + 1]
          /\ i # k /\ i # k - 1 /\ i + 1 # k /\ i + 1 # k + 1 /\ i + 1 # 0
      BY <2>1, <2>3, <1>1, <1>9
    <3>2. r[i] # r[k] /\ r[i] # r[k - 1] /\ r[i + 1] # r[k] /\ r[i + 1] # after
      BY <2>1, <3>1, <1>2, <1>4, <1>8 DEF after
    <3> QED BY <2>1, <2>2, <3>1, <3>2, <1>4, <1>7, <1>8
  <2>4. CASE i + 1 = k
    <3>1. /\ i < k /\ ~(i + 1 < k) /\ i = k - 1 /\ (i + 1) + 1 = k + 1 /\ k # n
      BY <2>1, <2>4, <1>1
    <3>2. q[i] = r[k - 1] /\ q[i + 1] = r[k + 1] /\ after = r[k + 1]
      BY <2>1, <3>1, <1>9 DEF after
    <3> QED BY <2>1, <3>1, <3>2, <1>2, <1>4, <1>5, <1>7
  <2>5. CASE i + 1 > k
    <3>1. /\ ~(i < k) /\ ~(i + 1 < k) /\ i + 1 # k /\ i + 1 # k - 1
          /\ (i + 1) + 1 # k /\ (i + 1) + 1 # k + 1
      BY <2>1, <2>5, <1>1
    <3>2. q[i] = r[i + 1] /\ q[i + 1] = r[(i + 1) + 1]
      BY <2>1, <3>1, <1>9
    <3>3. /\ r[i + 1] # r[k] /\ r[i + 1] # r[k - 1]
          /\ r[(i + 1) + 1] # r[k] /\ r[(i + 1) + 1] # after
      BY <2>1, <3>1, <1>2, <1>4, <1>8 DEF after
    <3> QED BY <2>1, <2>2, <3>2, <3>3, <1>4, <1>7, <1>8
  <2> QED BY <2>1, <2>3, <2>4, <2>5, <1>1
<1>12. m.next[q[n - 1]] = WaitHead /\ m.prev[WaitHead] = q[n - 1]
  <2>1. n - 1 \in 0 .. n - 1 /\ (n - 1) + 1 = n
    BY <1>1
  <2>2. l.next[r[n]] = WaitHead /\ l.prev[WaitHead] = r[n] /\ WaitHead # r[k]
    BY <1>1, <1>2, <1>4 DEF Ring
  <2>3. CASE k = n
    <3>1. q[n - 1] = r[k - 1] /\ after = WaitHead
      BY <2>1, <2>3, <1>1, <1>9 DEF after
    <3> QED BY <3>1, <2>2, <1>2, <1>4, <1>5, <1>7
  <2>4. CASE k # n
    <3>1. q[n - 1] = r[n] /\ after = r[k + 1] /\ n # k - 1
      BY <2>1, <2>4, <1>1, <1>9 DEF after
    <3>2. r[n] # r[k] /\ r[n] # r[k - 1] /\ WaitHead # after
      BY <2>4, <3>1, <1>2, <1>4
    <3> QED BY <3>1, <3>2, <2>2, <1>2, <1>4, <1>7
  <2> QED BY <2>3, <2>4
<1>13. ASSUME NEW j \in 0 .. n, j # k PROVE \E i \in 0 .. n - 1 : q[i] = r[j] /\ (j # 0 => i # 0)
  <2>1. CASE j < k
    <3>1. j \in 0 .. n - 1
      BY <2>1, <1>1
    <3> QED BY <2>1, <3>1, <1>9
  <2>2. CASE ~(j < k)
    <3>1. j - 1 \in 0 .. n - 1 /\ ~(j - 1 < k) /\ (j - 1) + 1 = j /\ j - 1 # 0
      BY <2>2, <1>13, <1>1
    <3> QED BY <3>1, <1>9
  <2> QED BY <2>1, <2>2
<1>14. ASSUME NEW x \in Nodes, \A i \in 0 .. n - 1 : q[i] # x
       PROVE  m.next[x] = x /\ m.prev[x] = x
  <2>1. CASE x = r[k]
    BY <2>1, <1>7
  <2>2. CASE x # r[k]
    <3>1. \A j \in 0 .. n : r[j] # x
      BY <2>2, <1>13, <1>14
    <3>2. l.next[x] = x /\ l.prev[x] = x
      BY <3>1 DEF Ring
    <3>3. x # r[k - 1] /\ x # after
      BY <3>1, <1>2, <1>4 DEF after
    <3> QED BY <2>2, <3>2, <3>3, <1>7
  <2> QED BY <2>1, <2>2
<1>15. On(n - 1, q) = On(n, r) \ {r[k]}
  <2>1. ASSUME NEW i \in 1 .. n - 1 PROVE q[i] \in On(n, r) \ {r[k]}
    <3>1. i \in 0 .. n - 1 /\ i \in 1 .. n /\ i + 1 \in 1 .. n
      BY <1>1
    <3>2. q[i] # r[k]
      BY <3>1, <1>2, <1>4, <1>8, <1>9
    <3> QED BY <3>1, <3>2, <1>9 DEF On
  <2>2. ASSUME NEW j \in 1 .. n, r[j] # r[k] PROVE r[j] \in On(n - 1, q)
    <3>1. j \in 0 .. n /\ j # k /\ j # 0
      BY <2>2
    <3>2. PICK i \in 0 .. n - 1 : q[i] = r[j] /\ i # 0
      BY <3>1, <1>13
    <3>3. i \in 1 .. n - 1
      BY <3>2, <1>1
    <3> QED BY <3>2, <3>3 DEF On
  <2> QED BY <2>1, <2>2 DEF On
<1>16. Ring(m, n - 1, q)
  BY <1>2, <1>9, <1>10, <1>11, <1>12, <1>14 DEF Ring
<1> QED BY <1>15, <1>16 DEF m

-----------------------------------------------------------------------------
(* A task that may have been signalled goes to sleep with its node unlinked. *)
LinksOnce == \A t \in Signalled : LockSleep(t) => list.next[t] = t

(* The queue is a ring of the sleepers and of tasks that a signal woke. *)
Queued ==
  \E n, r : /\ Ring(list, n, r)
            /\ Sleepers \subseteq On(n, r)
            /\ On(n, r) \subseteq Sleepers \cup Signalled

(* Who sleeps does so in mutex_lock. *)
Asleep == \A t \in Tasks : status[t] = "SLEEPING" => pc[t] = "sched"

(* Somebody is on the way to a free mutex that others wait for. *)
Awaited ==
  ~locked /\ Sleepers # {} =>
    \E t \in Tasks : pc[t] = "lock" \/ (pc[t] = "sched" /\ status[t] = "RUNNING")

WInv == Queued /\ Asleep /\ Awaited

(* Every step that links no linked node keeps the queue a ring. *)
LEMMA QueueStep ==
  ASSUME TypeOK, Queued, Asleep, [Next]_vars, [LinksOnce]_vars PROVE Queued'
<1>1. list \in Lists
  BY DEF TypeOK, Lists
<1>2. PICK n, r : /\ Ring(list, n, r) /\ Sleepers \subseteq On(n, r)
                  /\ On(n, r) \subseteq Sleepers \cup Signalled
  BY DEF Queued
<1>3. Sleepers \in SUBSET Tasks
  BY DEF Sleepers
<1>4. ASSUME UNCHANGED <<list, status>> PROVE Queued'
  <2>1. Ring(list', n, r) /\ Sleepers' = Sleepers
    BY <1>2, <1>4 DEF Sleepers
  <2> QED BY <2>1, <1>2 DEF Queued
<1>5. ASSUME NEW t \in Tasks, LockSleep(t), LinksOnce PROVE Queued'
  <2>1. list.next[t] = t /\ list' = ListAddTail(list, WaitHead, t)
    <3>1. CASE t \in Signalled
      BY <3>1, <1>5 DEF LinksOnce, LockSleep
    <3>2. CASE t \notin Signalled
      <4>1. t \notin Sleepers
        BY <1>5 DEF LockSleep, Asleep, Sleepers
      <4>2. t \notin On(n, r) /\ t \in Nodes /\ t # WaitHead
        BY <3>2, <4>1, <1>2, TasksAssumption DEF Nodes
      <4>3. \A i \in 0 .. n : r[i] # t
        BY <4>2, <1>2 DEF Ring, On
      <4>4. list.next[t] = t
        BY <4>2, <4>3, <1>2 DEF Ring
      <4> QED BY <4>4, <1>5 DEF LockSleep
    <3> QED BY <3>1, <3>2
  <2>2. Sleepers' = Sleepers \cup {t}
    BY <1>5 DEF LockSleep, Sleepers, TypeOK
  <2>3. PICK q : /\ Ring(ListAddTail(list, WaitHead, t), n + 1, q)
                 /\ On(n + 1, q) = On(n, r) \cup {t}
    BY <1>1, <1>2, <2>1, RingAdd
  <2>4. Ring(list', n + 1, q) /\ Sleepers' \subseteq On(n + 1, q)
    BY <1>2, <2>1, <2>2, <2>3
  <2>5. On(n + 1, q) \subseteq Sleepers' \cup Signalled
    BY <1>2, <2>2, <2>3
  <2> QED BY <2>4, <2>5 DEF Queued
<1>6. ASSUME NEW t \in Tasks, Unlock(t), locked PROVE Queued'
  <2> DEFINE w == FirstIn(list, WaitHead, Sleepers)
  <2>1. CASE w = WaitHead
    BY <2>1, <1>4, <1>6 DEF Unlock, WakeUpOne
  <2>2. CASE w # WaitHead
    <3>1. PICK j \in 1 .. n : w = r[j] /\ r[j] \in Sleepers
      BY <1>1, <1>2, <1>3, <2>2, RingFirst
    <3>2. list' = ListDel(list, r[j]) /\ status' = [status EXCEPT ![r[j]] = "RUNNING"]
      BY <2>2, <3>1, <1>6 DEF Unlock, WakeUpOne
    <3>3. Sleepers' = Sleepers \ {r[j]}
      BY <3>1, <3>2 DEF Sleepers, TypeOK
    <3>4. PICK q : /\ Ring(ListDel(list, r[j]), n - 1, q)
                   /\ On(n - 1, q) = On(n, r) \ {r[j]}
      BY <1>1, <1>2, RingDel
    <3>5. Ring(list', n - 1, q) /\ Sleepers' \subseteq On(n - 1, q)
      BY <1>2, <3>2, <3>3, <3>4
    <3>6. On(n - 1, q) \subseteq Sleepers' \cup Signalled
      BY <1>2, <3>3, <3>4
    <3> QED BY <3>5, <3>6 DEF Queued
  <2> QED BY <2>1, <2>2
<1>7. ASSUME NEW t \in Signalled, Signal(t) PROVE Queued'
  <2>1. Sleepers' = Sleepers \ {t} /\ list' = list
    BY <1>7, TasksAssumption DEF Signal, Sleepers, TypeOK
  <2>2. Ring(list', n, r)
    BY <1>2, <2>1
  <2>3. Sleepers' \subseteq On(n, r) /\ On(n, r) \subseteq Sleepers' \cup Signalled
    BY <1>2, <1>7, <2>1
  <2> QED BY <2>2, <2>3 DEF Queued
<1>8. ASSUME NEW t \in Tasks, Enter(t) \/ TryLock(t) \/ LockTake(t) \/ Resume(t) \/ UnlockSpins(t)
      PROVE  UNCHANGED <<list, status>>
  BY <1>8 DEF Enter, TryLock, LockTake, Resume, UnlockSpins
<1>9. ASSUME NEW t \in Tasks, Unlock(t), ~locked PROVE UNCHANGED <<list, status>>
  BY <1>9 DEF Unlock
<1>10. UNCHANGED vars => UNCHANGED <<list, status>>
  BY DEF vars
<1> QED
  BY <1>4, <1>5, <1>6, <1>7, <1>8, <1>9, <1>10 DEF Next, Step

(* Every step keeps it true that sleepers are in mutex_lock. *)
LEMMA AsleepStep == ASSUME TypeOK, Asleep, [Next]_vars PROVE Asleep'
<1> USE TasksAssumption DEF TypeOK, Asleep
<1>1. ASSUME NEW t \in Tasks, Enter(t) \/ TryLock(t) \/ LockTake(t) \/ LockSleep(t)
                                \/ Resume(t) \/ UnlockSpins(t)
      PROVE  Asleep'
  BY <1>1 DEF Enter, TryLock, LockTake, LockSleep, Resume, UnlockSpins
<1>2. ASSUME NEW t \in Tasks, Unlock(t) PROVE Asleep'
  BY <1>2 DEF Unlock, WakeUpOne
<1>3. ASSUME NEW t \in Signalled, Signal(t) PROVE Asleep'
  BY <1>3 DEF Signal
<1>4. CASE UNCHANGED vars
  BY <1>4 DEF vars
<1> QED BY <1>1, <1>2, <1>3, <1>4 DEF Next, Step

(***************************************************************************)
(* The unlock that frees the mutex finds a sleeper if there is one, and    *)
(* that task is then on its way; whoever leaves the way takes the mutex.   *)
(***************************************************************************)
LEMMA AwaitedStep ==
  ASSUME TypeOK, WInv, [Next]_vars PROVE Awaited'
<1> USE TasksAssumption DEF TypeOK
<1>1. ASSUME NEW t \in Tasks, Enter(t) PROVE Awaited'
  BY <1>1 DEF Enter, WInv, Awaited, Sleepers
<1>2. ASSUME NEW t \in Tasks, TryLock(t) \/ LockTake(t) \/ LockSleep(t) PROVE Awaited'
  BY <1>2 DEF TryLock, LockTake, LockSleep, Awaited
<1>3. ASSUME NEW t \in Tasks, Resume(t) PROVE Awaited'
  BY <1>3 DEF Resume, Awaited
<1>4. PICK n, r : Ring(list, n, r) /\ Sleepers \subseteq On(n, r)
  BY DEF WInv, Queued
<1>5. list \in Lists /\ Sleepers \in SUBSET Tasks
  BY DEF Lists, Sleepers
<1>6. ASSUME NEW t \in Tasks, Unlock(t) PROVE Awaited'
  <2> DEFINE w == FirstIn(list, WaitHead, Sleepers)
  <2>1. CASE ~locked
    <3>1. pc' = [pc EXCEPT ![t] = "outside"] /\ pc[t] = "critical" /\ UNCHANGED <<status, locked>>
      BY <1>6, <2>1 DEF Unlock
    <3> QED BY <3>1 DEF WInv, Awaited, Sleepers
  <2>2. CASE locked /\ w = WaitHead
    <3>1. Sleepers = {}
      BY <2>2, <1>4, <1>5, RingFirst
    <3>2. status' = status
      BY <1>6, <2>2 DEF Unlock, WakeUpOne
    <3> QED BY <3>1, <3>2 DEF Awaited, Sleepers
  <2>3. CASE locked /\ w # WaitHead
    <3>1. w \in Sleepers
      BY <2>3, <1>4, <1>5, RingFirst
    <3>2. status' = [status EXCEPT ![w] = "RUNNING"] /\ pc' = [pc EXCEPT ![t] = "outside"]
      BY <1>6, <2>3 DEF Unlock, WakeUpOne
    <3> HIDE DEF w
    <3>3. w \in Tasks /\ pc[w] = "sched" /\ w # t
      BY <3>1, <1>6 DEF WInv, Asleep, Sleepers, Unlock
    <3>4. pc'[w] = "sched" /\ status'[w] = "RUNNING"
      BY <3>2, <3>3
    <3> QED BY <3>3, <3>4 DEF Awaited
  <2> QED BY <2>1, <2>2, <2>3
<1>7. ASSUME NEW t \in Tasks, UnlockSpins(t) PROVE Awaited'
  BY <1>4, <1>5, <1>7, RingFirst DEF UnlockSpins
<1>8. ASSUME NEW t \in Signalled, Signal(t) PROVE Awaited'
  <2>1. t \in Tasks /\ pc'[t] = "sched" /\ status'[t] = "RUNNING"
    BY <1>8 DEF Signal, WInv, Asleep
  <2> QED BY <2>1 DEF Awaited
<1>9. CASE UNCHANGED vars
  BY <1>9 DEF vars, WInv, Awaited, Sleepers
<1> QED
  BY <1>1, <1>2, <1>3, <1>6, <1>7, <1>8, <1>9 DEF Next, Step

(* Before the first call nobody sleeps and the queue is the head alone. *)
LEMMA InitWaits == Init => WInv
<1> SUFFICES ASSUME Init PROVE WInv
  OBVIOUS
<1> DEFINE r == [i \in 0 .. 0 |-> WaitHead]
<1>1. Sleepers = {}
  BY DEF Init, Sleepers
<1>2. Ring(list, 0, r)
  BY DEF Init, EmptyList, Ring, Nodes
<1>3. On(0, r) = {}
  BY DEF On
<1> HIDE DEF r
<1>4. Queued
  BY <1>1, <1>2, <1>3 DEF Queued
<1>5. Asleep /\ Awaited
  BY <1>1 DEF Asleep, Awaited, Sleepers
<1> QED BY <1>4, <1>5 DEF WInv

(* The steps that link no node twice keep the invariant. *)
LEMMA WaitsKept == Spec /\ [][LinksOnce]_vars => [](TypeOK /\ WInv)
<1>1. TypeOK /\ WInv /\ [Next]_vars /\ [LinksOnce]_vars => (TypeOK /\ WInv)'
  BY TypeStep, QueueStep, AsleepStep, AwaitedStep DEF WInv
<1> QED BY InitHolds, InitWaits, <1>1, PTL DEF Spec

(***************************************************************************)
(* As long as no signalled task goes to sleep again with its wait node     *)
(* still linked, and always when nobody is signalled, mutex_unlock loses   *)
(* no wake-up, for any number of tasks.                                    *)
(***************************************************************************)
THEOREM WakeUpsAreNotLost == Spec /\ [][LinksOnce]_vars => []NoLostWakeup
<1>1. WInv => NoLostWakeup
  BY DEF WInv, Awaited, NoLostWakeup
<1> QED BY <1>1, WaitsKept, PTL

(***************************************************************************)
(* Under the same condition the wait queue holds every task that sleeps in *)
(* mutex_lock, and besides only tasks that were signalled.                 *)
(***************************************************************************)
THEOREM SleepersAreQueued == Spec /\ [][LinksOnce]_vars => []QueueIsSleepers
<1>1. ASSUME TypeOK, WInv PROVE QueueIsSleepers
  <2>1. PICK n, r : /\ Ring(list, n, r) /\ Sleepers \subseteq On(n, r)
                    /\ On(n, r) \subseteq Sleepers \cup Signalled
    BY <1>1 DEF WInv, Queued
  <2>2. list \in Lists
    BY <1>1 DEF TypeOK, Lists
  <2>3. Members(list, WaitHead) = On(n, r)
    BY <2>1, <2>2, RingMembers
  <2> QED BY <2>1, <2>3 DEF QueueIsSleepers
<1> QED BY <1>1, WaitsKept, PTL
=============================================================================
