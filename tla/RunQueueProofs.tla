--------------------------- MODULE RunQueueProofs ---------------------------
(***************************************************************************)
(* For any number of CPUs, tasks, wakers and levels: the queues, on_rq,    *)
(* the bitmap and nr_running stay together, no RUNNING task is forgotten,  *)
(* preemption stays alive and aging is gradual.                            *)
(***************************************************************************)
EXTENDS RunQueue, FiniteSetTheorems, WellFoundedInduction, TLAPS

(* t is on level l of the queues q. *)
In(q, l, t) == \E i \in 1 .. Len(q[l]) : q[l][i] = t

(* No task is on q twice. *)
Once(q) ==
  \A l, m \in Levels : \A i \in 1 .. Len(q[l]), j \in 1 .. Len(q[m]) :
    q[l][i] = q[m][j] => l = m /\ i = j

-----------------------------------------------------------------------------
(* list_del of a node that is on the list once. *)
LEMMA RemoveFirstFacts ==
  ASSUME NEW q \in Seq(Tasks), NEW p, NEW k \in 1 .. Len(q), q[k] = p,
         \A i \in 1 .. Len(q) : q[i] = p => i = k
  PROVE  /\ RemoveFirst(q, p) \in Seq(Tasks)
         /\ Len(RemoveFirst(q, p)) = Len(q) - 1
         /\ \A j \in 1 .. Len(q) - 1 :
              RemoveFirst(q, p)[j] = IF j < k THEN q[j] ELSE q[j + 1]
<1>1. {i \in 1 .. Len(q) : q[i] = p} = {k}
  OBVIOUS
<1>2. Min({k}) = k
  BY DEF Min
<1>3. SelectInSeq(q, LAMBDA v : v = p) = k
  BY <1>1, <1>2 DEF SelectInSeq
<1>4. RemoveFirst(q, p) = SubSeq(q, 1, k - 1) \o SubSeq(q, k + 1, Len(q))
  BY <1>3 DEF RemoveFirst, RemoveAt
<1> DEFINE a == SubSeq(q, 1, k - 1)
           b == SubSeq(q, k + 1, Len(q))
<1>5. a \in Seq(Tasks) /\ Len(a) = k - 1 /\ \A j \in 1 .. k - 1 : a[j] = q[j]
  OBVIOUS
<1>6. b \in Seq(Tasks) /\ Len(b) = Len(q) - k /\ \A j \in 1 .. Len(q) - k : b[j] = q[j + k]
  OBVIOUS
<1> HIDE DEF a, b
<1>7. a \o b \in Seq(Tasks) /\ Len(a \o b) = Len(q) - 1
  BY <1>5, <1>6
<1>8. \A j \in 1 .. Len(q) - 1 : (a \o b)[j] = IF j < k THEN a[j] ELSE b[j - (k - 1)]
  BY <1>5, <1>6
<1>9. \A j \in 1 .. Len(q) - 1 : (a \o b)[j] = IF j < k THEN q[j] ELSE q[j + 1]
  BY <1>5, <1>6, <1>8
<1> QED BY <1>4, <1>7, <1>9 DEF a, b

(* list_del of another list's node. *)
LEMMA RemoveFirstOther ==
  ASSUME NEW q \in Seq(Tasks), NEW p, \A i \in 1 .. Len(q) : q[i] # p
  PROVE  RemoveFirst(q, p) = q
BY DEF RemoveFirst

Queues == [Levels -> Seq(Tasks)]

(* list_add_tail to a level, of a task that is on none. *)
LEMMA AppendFacts ==
  ASSUME NEW q \in Queues, Once(q), NEW l \in Levels, NEW p \in Tasks,
         \A m \in Levels : ~In(q, m, p),
         NEW r, r = [q EXCEPT ![l] = Append(@, p)]
  PROVE  /\ r \in Queues /\ Once(r)
         /\ \A m \in Levels, t \in Tasks : In(r, m, t) <=> In(q, m, t) \/ (m = l /\ t = p)
<1>1. /\ r \in Queues
      /\ \A m \in Levels : m # l => r[m] = q[m]
      /\ Len(r[l]) = Len(q[l]) + 1 /\ r[l][Len(q[l]) + 1] = p
      /\ \A i \in 1 .. Len(q[l]) : r[l][i] = q[l][i]
  BY DEF Queues
<1>2. \A m \in Levels, t \in Tasks : In(r, m, t) <=> In(q, m, t) \/ (m = l /\ t = p)
  BY <1>1 DEF Queues, In
<1>3. Once(r)
  BY <1>1 DEF Queues, Once, In
<1> QED BY <1>1, <1>2, <1>3

(* list_del of a task that is on some level. *)
LEMMA RemoveFacts ==
  ASSUME NEW q \in Queues, Once(q), NEW k \in Levels, NEW p \in Tasks, In(q, k, p),
         NEW r, r = [l \in Levels |-> RemoveFirst(q[l], p)]
  PROVE  /\ r \in Queues /\ Once(r)
         /\ \A m \in Levels, t \in Tasks : In(r, m, t) <=> In(q, m, t) /\ t # p
<1>1. PICK n \in 1 .. Len(q[k]) : q[k][n] = p
  BY DEF In
<1>2. \A i \in 1 .. Len(q[k]) : q[k][i] = p => i = n
  BY <1>1 DEF Once
<1>3. /\ r[k] \in Seq(Tasks) /\ Len(r[k]) = Len(q[k]) - 1
      /\ \A j \in 1 .. Len(q[k]) - 1 : r[k][j] = IF j < n THEN q[k][j] ELSE q[k][j + 1]
  BY <1>1, <1>2, RemoveFirstFacts DEF Queues
<1>4. \A m \in Levels : m # k => r[m] = q[m]
  <2> SUFFICES ASSUME NEW m \in Levels, m # k PROVE r[m] = q[m]
    OBVIOUS
  <2>1. \A i \in 1 .. Len(q[m]) : q[m][i] # p
    BY <1>1 DEF Once
  <2> QED BY <2>1, RemoveFirstOther DEF Queues
<1>5. r \in Queues
  BY <1>3, <1>4 DEF Queues
<1>6. \A m \in Levels, t \in Tasks : In(r, m, t) <=> In(q, m, t) /\ t # p
  <2> SUFFICES ASSUME NEW m \in Levels, NEW t \in Tasks
               PROVE  In(r, m, t) <=> In(q, m, t) /\ t # p
    OBVIOUS
  <2>1. CASE m # k
    BY <2>1, <1>1, <1>4 DEF In, Once
  <2>2. CASE m = k
    <3>1. ASSUME In(r, k, t) PROVE In(q, k, t) /\ t # p
      <4>1. PICK j \in 1 .. Len(r[k]) : r[k][j] = t
        BY <3>1 DEF In
      <4>2. CASE j < n
        BY <4>1, <4>2, <1>2, <1>3 DEF In, Queues
      <4>3. CASE j >= n
        <5>1. j + 1 \in 1 .. Len(q[k]) /\ q[k][j + 1] = t
          BY <4>1, <4>3, <1>3 DEF Queues
        <5> QED BY <5>1, <4>3, <1>2 DEF In
      <4> QED BY <4>2, <4>3
    <3>2. ASSUME In(q, k, t), t # p PROVE In(r, k, t)
      <4>1. PICK i \in 1 .. Len(q[k]) : q[k][i] = t
        BY <3>2 DEF In
      <4>2. CASE i < n
        BY <4>1, <4>2, <1>3, SMTT(30) DEF In, Queues
      <4>3. CASE i > n
        <5>1. i - 1 \in 1 .. Len(q[k]) - 1 /\ r[k][i - 1] = q[k][i]
          BY <4>3, <1>3 DEF Queues
        <5> QED BY <5>1, <4>1, <1>3 DEF In
      <4> QED BY <4>1, <4>2, <4>3, <3>2, <1>1
    <3> QED BY <2>2, <3>1, <3>2
  <2> QED BY <2>1, <2>2
<1>7. Once(r)
  <2> DEFINE src(m, j) == IF m = k /\ j >= n THEN j + 1 ELSE j
  <2>1. ASSUME NEW m \in Levels, NEW j \in 1 .. Len(r[m])
        PROVE  src(m, j) \in 1 .. Len(q[m]) /\ q[m][src(m, j)] = r[m][j]
    <3>1. CASE m # k
      BY <3>1, <1>4
    <3>2. CASE m = k /\ j < n
      BY <3>2, <1>3 DEF Queues
    <3>3. CASE m = k /\ j >= n
      BY <3>3, <1>3 DEF Queues
    <3> QED BY <3>1, <3>2, <3>3
  <2>2. ASSUME NEW l \in Levels, NEW m \in Levels, NEW i \in 1 .. Len(r[l]),
               NEW j \in 1 .. Len(r[m]), r[l][i] = r[m][j]
        PROVE  l = m /\ i = j
    <3> DEFINE a == src(l, i)
               b == src(m, j)
    <3>1. a \in 1 .. Len(q[l]) /\ q[l][a] = r[l][i]
      BY <2>1
    <3>2. b \in 1 .. Len(q[m]) /\ q[m][b] = r[m][j]
      BY <2>1
    <3> HIDE DEF a, b
    <3>3. l = m /\ a = b
      BY <2>2, <3>1, <3>2 DEF Once
    <3> QED BY <3>3 DEF a, b
  <2> QED BY <2>2 DEF Once
<1> QED BY <1>5, <1>6, <1>7

(* The elements of a concatenation. *)
LEMMA ConcatFacts ==
  ASSUME NEW x \in Seq(Tasks), NEW y \in Seq(Tasks)
  PROVE  /\ Len(x) \in Nat /\ Len(y) \in Nat
         /\ x \o y \in Seq(Tasks) /\ Len(x \o y) = Len(x) + Len(y)
         /\ \A j \in 1 .. Len(x) : (x \o y)[j] = x[j]
         /\ \A j \in 1 .. Len(y) : (x \o y)[j + Len(x)] = y[j]
OBVIOUS

(* The queues after rr_aging: the levels of old move up, the others stay. *)
Promoted(q, old) ==
  [l \in Levels |-> (IF l \in old THEN <<>> ELSE q[l])
                     \o (IF l \in {k - 1 : k \in old} THEN q[l + 1] ELSE <<>>)]

(* rr_aging loses no task and doubles none. *)
LEMMA PromoteFacts ==
  ASSUME NEW q \in Queues, Once(q), NEW old \in SUBSET Levels, 0 \notin old
  PROVE  /\ Promoted(q, old) \in Queues /\ Once(Promoted(q, old))
         /\ \A m \in Levels, t \in Tasks :
              In(Promoted(q, old), m, t) <=>
                \/ m \notin old /\ In(q, m, t)
                \/ m + 1 \in old /\ In(q, m + 1, t)
<1> DEFINE r == Promoted(q, old)
<1> DEFINE a(m) == IF m \in old THEN <<>> ELSE q[m]
           b(m) == IF m + 1 \in old THEN q[m + 1] ELSE <<>>
<1>1. ASSUME NEW m \in Levels
      PROVE  r[m] = a(m) \o b(m) /\ a(m) \in Seq(Tasks) /\ b(m) \in Seq(Tasks)
  <2>1. m \in {k - 1 : k \in old} <=> m + 1 \in old
    BY RunQueueAssumption DEF Levels
  <2>2. a(m) \in Seq(Tasks) /\ b(m) \in Seq(Tasks)
    BY DEF Queues
  <2> QED BY <2>1, <2>2 DEF Promoted
<1> HIDE DEF r
<1>2. ASSUME NEW m \in Levels
      PROVE  /\ m \in Int /\ (m \notin old => a(m) = q[m]) /\ (m \in old => Len(a(m)) = 0)
             /\ (m + 1 \in old => m + 1 \in Levels /\ b(m) = q[m + 1])
             /\ (m + 1 \notin old => Len(b(m)) = 0)
             /\ Len(a(m)) \in Nat /\ Len(b(m)) \in Nat
             /\ r[m] \in Seq(Tasks) /\ Len(r[m]) = Len(a(m)) + Len(b(m))
             /\ \A j \in 1 .. Len(a(m)) : r[m][j] = a(m)[j]
             /\ \A j \in 1 .. Len(b(m)) : r[m][j + Len(a(m))] = b(m)[j]
  <2>1. r[m] = a(m) \o b(m) /\ a(m) \in Seq(Tasks) /\ b(m) \in Seq(Tasks)
    BY <1>1
  <2>2. /\ m \in Int /\ (m \notin old => a(m) = q[m]) /\ (m \in old => Len(a(m)) = 0)
        /\ (m + 1 \in old => m + 1 \in Levels /\ b(m) = q[m + 1])
        /\ (m + 1 \notin old => Len(b(m)) = 0)
    BY DEF Levels
  <2> HIDE DEF a, b
  <2> QED BY <2>1, <2>2, ConcatFacts
<1> HIDE DEF a, b
<1>3. r \in Queues
  <2>1. r = [l \in Levels |-> r[l]]
    BY DEF r, Promoted
  <2> QED BY <1>2, <2>1 DEF Queues
(* Where the j-th task of level m of r was in q. *)
<1> DEFINE lvl(m, j) == IF j <= Len(a(m)) THEN m ELSE m + 1
           idx(m, j) == IF j <= Len(a(m)) THEN j ELSE j - Len(a(m))
<1>4. ASSUME NEW m \in Levels, NEW j \in 1 .. Len(r[m])
      PROVE  /\ lvl(m, j) \in Levels /\ idx(m, j) \in 1 .. Len(q[lvl(m, j)])
             /\ q[lvl(m, j)][idx(m, j)] = r[m][j] /\ lvl(m, j) \in {m, m + 1}
             /\ lvl(m, j) = m => m \notin old
             /\ lvl(m, j) = m + 1 => m + 1 \in old
  <2>1. CASE j <= Len(a(m))
    <3>1. m \notin old /\ a(m) = q[m] /\ j \in 1 .. Len(a(m)) /\ m # m + 1
      BY <2>1, <1>2
    <3>2. r[m][j] = a(m)[j]
      BY <3>1, <1>2
    <3> QED BY <2>1, <3>1, <3>2
  <2>2. CASE j > Len(a(m))
    <3>1. Len(a(m)) \in Nat /\ Len(b(m)) \in Nat /\ Len(r[m]) = Len(a(m)) + Len(b(m))
      BY <1>2
    <3>2. j - Len(a(m)) \in 1 .. Len(b(m)) /\ (j - Len(a(m))) + Len(a(m)) = j /\ ~(j <= Len(a(m)))
      BY <2>2, <3>1
    <3>3. m + 1 \in old /\ m + 1 \in Levels /\ b(m) = q[m + 1] /\ m # m + 1
      BY <3>2, <1>2
    <3>4. r[m][j] = b(m)[j - Len(a(m))]
      BY <3>2, <1>2
    <3> QED BY <3>2, <3>3, <3>4
  <2>3. Len(a(m)) \in Nat /\ j \in Int
    BY <1>2
  <2> QED BY <2>1, <2>2, <2>3
<1>5. Once(r)
  <2> SUFFICES ASSUME NEW l \in Levels, NEW m \in Levels, NEW i \in 1 .. Len(r[l]),
                      NEW j \in 1 .. Len(r[m]), r[l][i] = r[m][j]
               PROVE  l = m /\ i = j
    BY DEF Once
  <2> DEFINE l1 == lvl(l, i)
             i1 == idx(l, i)
             m1 == lvl(m, j)
             j1 == idx(m, j)
  <2> HIDE DEF lvl, idx
  <2>1. /\ l1 \in Levels /\ i1 \in 1 .. Len(q[l1]) /\ q[l1][i1] = r[l][i]
        /\ (l1 = l => l \notin old) /\ (l1 = l + 1 => l + 1 \in old) /\ l1 \in {l, l + 1}
    BY <1>4
  <2>2. /\ m1 \in Levels /\ j1 \in 1 .. Len(q[m1]) /\ q[m1][j1] = r[m][j]
        /\ (m1 = m => m \notin old) /\ (m1 = m + 1 => m + 1 \in old) /\ m1 \in {m, m + 1}
    BY <1>4
  <2> HIDE DEF l1, i1, m1, j1
  <2>4. l1 = m1 /\ i1 = j1
    BY <2>1, <2>2 DEF Once
  <2>5. l = m
    BY <2>1, <2>2, <2>4 DEF Levels
  <2>6. Len(a(l)) \in Nat /\ i \in Int /\ j \in Int /\ l \in Int /\ l # l + 1
    BY <1>2
  <2> QED BY <2>4, <2>5, <2>6 DEF l1, i1, m1, j1, lvl, idx
<1>6. ASSUME NEW m \in Levels, NEW t \in Tasks, In(r, m, t)
      PROVE  (m \notin old /\ In(q, m, t)) \/ (m + 1 \in old /\ In(q, m + 1, t))
  <2> HIDE DEF lvl, idx
  <2>1. PICK j \in 1 .. Len(r[m]) : r[m][j] = t
    BY <1>6 DEF In
  <2>2. /\ lvl(m, j) \in {m, m + 1} /\ idx(m, j) \in 1 .. Len(q[lvl(m, j)])
        /\ q[lvl(m, j)][idx(m, j)] = t
        /\ (lvl(m, j) = m => m \notin old) /\ (lvl(m, j) = m + 1 => m + 1 \in old)
    BY <2>1, <1>4
  <2> QED BY <2>2 DEF In
<1>7. ASSUME NEW m \in Levels, NEW t \in Tasks, m \notin old, In(q, m, t) PROVE In(r, m, t)
  <2>1. PICK i \in 1 .. Len(q[m]) : q[m][i] = t
    BY <1>7 DEF In
  <2>2. a(m) = q[m] /\ r[m][i] = t /\ i \in 1 .. Len(r[m])
    BY <2>1, <1>7, <1>2
  <2> QED BY <2>2 DEF In
<1>8. ASSUME NEW m \in Levels, NEW t \in Tasks, m + 1 \in old, In(q, m + 1, t) PROVE In(r, m, t)
  <2>1. PICK i \in 1 .. Len(q[m + 1]) : q[m + 1][i] = t
    BY <1>8 DEF In
  <2>2. b(m) = q[m + 1] /\ r[m][i + Len(a(m))] = t
    BY <2>1, <1>8, <1>2
  <2>3. i + Len(a(m)) \in 1 .. Len(r[m])
    BY <2>1, <2>2, <1>2
  <2> QED BY <2>2, <2>3 DEF In
<1> HIDE DEF lvl, idx
<1> QED BY <1>3, <1>5, <1>6, <1>7, <1>8 DEF r

-----------------------------------------------------------------------------
(* What View gives of one CPU's queues and of the tasks. *)
Views ==
  [runnable : Queues, bitmap : SUBSET Levels, nr_running : Nat,
   age : [Levels -> 0 .. AgingTicks], on_rq : [Tasks -> BOOLEAN],
   prio : [Tasks -> 1 .. Lowest], consec : [Tasks -> 0 .. DemoteAfter]]

(* The tasks of CPU c with on_rq set. *)
Waiting(c, on) == {t \in Tasks : CpuOf[t] = c /\ on[t]}

(***************************************************************************)
(* The queues of CPU c are sound: each task that has on_rq set is on them, *)
(* once, and no other; level 0 is unused; no level is hidden by the bitmap *)
(* and nr_running counts the tasks.                                        *)
(***************************************************************************)
Placed(c, s) ==
  \A t \in Tasks : (\E l \in Levels : In(s.runnable, l, t)) <=> s.on_rq[t] /\ CpuOf[t] = c

Sound(c, s) ==
  /\ s \in Views /\ Once(s.runnable) /\ Placed(c, s)
  /\ \A t \in Tasks : ~In(s.runnable, 0, t)
  /\ \A l \in Levels, t \in Tasks : In(s.runnable, l, t) => l \in s.bitmap
  /\ s.nr_running = Cardinality(Waiting(c, s.on_rq))

(* The two ends of the range of levels, and the level of a new task. *)
LEMMA LevelFacts ==
  /\ 0 \in Levels /\ BasePrio \in 1 .. Lowest /\ 1 .. Lowest \subseteq Levels /\ Levels \subseteq Int
BY RunQueueAssumption DEF Levels, BasePrio

(* Only finitely many tasks wait. *)
LEMMA WaitingFinite ==
  ASSUME NEW c, NEW on PROVE IsFiniteSet(Waiting(c, on)) /\ Cardinality(Waiting(c, on)) \in Nat
<1>1. Waiting(c, on) \subseteq Tasks
  BY DEF Waiting
<1> QED BY <1>1, RunQueueAssumption, FS_Subset, FS_CardinalityType

(* rr_enqueue_task keeps the queues sound and sets on_rq. *)
LEMMA EnqueueSound ==
  ASSUME NEW c \in CPUs, NEW s, Sound(c, s), NEW p \in Tasks, CpuOf[p] = c
  PROVE  LET e == rr_enqueue_task(s, p)
         IN  /\ Sound(c, e) /\ e.on_rq = [s.on_rq EXCEPT ![p] = TRUE]
             /\ e.prio = s.prio /\ e.consec = s.consec
             /\ \A m \in Levels, t \in Tasks : In(s.runnable, m, t) => In(e.runnable, m, t)
<1> DEFINE e == rr_enqueue_task(s, p)
           l == s.prio[p]
<1>1. CASE s.on_rq[p]
  <2>1. e = s
    BY <1>1 DEF rr_enqueue_task
  <2>2. s.on_rq = [s.on_rq EXCEPT ![p] = TRUE]
    BY <1>1 DEF Sound, Views
  <2> QED BY <2>1, <2>2
<1>2. CASE ~s.on_rq[p]
  <2>1. l \in 1 .. Lowest /\ l \in Levels /\ l # 0
    BY LevelFacts DEF Sound, Views
  <2>2. /\ e.runnable = [s.runnable EXCEPT ![l] = Append(@, p)]
        /\ e.bitmap = s.bitmap \cup {l} /\ e.nr_running = s.nr_running + 1
        /\ e.on_rq = [s.on_rq EXCEPT ![p] = TRUE] /\ e.prio = s.prio /\ e.consec = s.consec
        /\ e.age = [s.age EXCEPT ![l] = IF l \in s.bitmap THEN @ ELSE 0]
    BY <1>2 DEF rr_enqueue_task, Sound, Views
  <2>3. \A m \in Levels : ~In(s.runnable, m, p)
    BY <1>2 DEF Sound, Placed
  <2>4. /\ e.runnable \in Queues /\ Once(e.runnable)
        /\ \A m \in Levels, t \in Tasks :
             In(e.runnable, m, t) <=> In(s.runnable, m, t) \/ (m = l /\ t = p)
    <3>1. s.runnable \in Queues /\ Once(s.runnable)
      BY DEF Sound, Views
    <3> HIDE DEF e, l
    <3> QED BY <2>1, <2>2, <2>3, <3>1, AppendFacts, SMTT(30)
  <2>5. e \in Views
    <3>1. /\ e.bitmap \in SUBSET Levels /\ e.on_rq \in [Tasks -> BOOLEAN] /\ e.nr_running \in Nat
          /\ e.prio \in [Tasks -> 1 .. Lowest] /\ e.consec \in [Tasks -> 0 .. DemoteAfter]
      BY <2>1, <2>2 DEF Sound, Views
    <3>2. e.age \in [Levels -> 0 .. AgingTicks]
      BY <2>1, <2>2, RunQueueAssumption DEF Sound, Views
    <3>3. e = [runnable |-> e.runnable, bitmap |-> e.bitmap, nr_running |-> e.nr_running,
               age |-> e.age, on_rq |-> e.on_rq, prio |-> e.prio, consec |-> e.consec]
      BY <1>2 DEF rr_enqueue_task, Sound, Views
    <3> HIDE DEF e
    <3> QED BY <2>4, <3>1, <3>2, <3>3 DEF Views
  <2>6. e.nr_running = Cardinality(Waiting(c, e.on_rq))
    <3>1. Waiting(c, e.on_rq) = Waiting(c, s.on_rq) \cup {p} /\ p \notin Waiting(c, s.on_rq)
      BY <1>2, <2>2 DEF Waiting, Sound, Views
    <3> QED BY <2>2, <3>1, WaitingFinite, FS_AddElement DEF Sound
  <2>7. Placed(c, e)
    <3>1. \A t \in Tasks : e.on_rq[t] <=> (t = p \/ s.on_rq[t])
      BY <2>2 DEF Sound, Views
    <3> HIDE DEF e, l
    <3> QED BY <2>1, <2>4, <3>1 DEF Placed, Sound
  <2>8. \A t \in Tasks : ~In(e.runnable, 0, t)
    <3> HIDE DEF e, l
    <3> QED BY <2>1, <2>4, LevelFacts DEF Sound
  <2>9. \A m \in Levels, t \in Tasks : In(e.runnable, m, t) => m \in e.bitmap
    <3> HIDE DEF e, l
    <3> QED BY <2>2, <2>4 DEF Sound
  <2> HIDE DEF e, l
  <2> QED BY <2>2, <2>4, <2>5, <2>6, <2>7, <2>8, <2>9 DEF Sound, e
<1> QED BY <1>1, <1>2

(* Clocks, priorities and counts may change without the queues. *)
LEMMA SameQueuesSound ==
  ASSUME NEW c \in CPUs, NEW s, Sound(c, s), NEW e \in Views,
         e.runnable = s.runnable, e.bitmap = s.bitmap, e.nr_running = s.nr_running,
         e.on_rq = s.on_rq
  PROVE  Sound(c, e)
BY DEF Sound, Placed

(* rr_remove_task keeps the queues sound and clears on_rq. *)
LEMMA RemoveSound ==
  ASSUME NEW c \in CPUs, NEW s, Sound(c, s), NEW p \in Tasks, CpuOf[p] = c
  PROVE  LET e == rr_remove_task(s, p)
         IN  /\ Sound(c, e) /\ e.on_rq = [s.on_rq EXCEPT ![p] = FALSE]
             /\ e.prio = s.prio /\ e.consec = s.consec
             /\ \A m \in Levels, t \in Tasks : In(e.runnable, m, t) => In(s.runnable, m, t) /\ t # p
<1> DEFINE e == rr_remove_task(s, p)
           l == s.prio[p]
           r == [k \in Levels |-> RemoveFirst(s.runnable[k], p)]
<1>1. CASE ~s.on_rq[p]
  <2>1. e = s
    BY <1>1 DEF rr_remove_task
  <2>2. s.on_rq = [s.on_rq EXCEPT ![p] = FALSE]
    BY <1>1 DEF Sound, Views
  <2>3. \A m \in Levels : ~In(s.runnable, m, p)
    BY <1>1 DEF Sound, Placed
  <2> QED BY <2>1, <2>2, <2>3
<1>2. CASE s.on_rq[p]
  <2>1. /\ e.runnable = r /\ e.on_rq = [s.on_rq EXCEPT ![p] = FALSE]
        /\ e.bitmap = IF r[l] = <<>> THEN s.bitmap \ {l} ELSE s.bitmap
        /\ e.nr_running = IF s.nr_running > 0 THEN s.nr_running - 1 ELSE s.nr_running
        /\ e.prio = s.prio /\ e.consec = s.consec /\ e.age = s.age
    BY <1>2 DEF rr_remove_task, Sound, Views
  <2>2. e = [runnable |-> e.runnable, bitmap |-> e.bitmap, nr_running |-> e.nr_running,
             age |-> e.age, on_rq |-> e.on_rq, prio |-> e.prio, consec |-> e.consec]
    BY <1>2 DEF rr_remove_task, Sound, Views
  <2>3. /\ r \in Queues /\ Once(r)
        /\ \A m \in Levels, t \in Tasks : In(r, m, t) <=> In(s.runnable, m, t) /\ t # p
    <3>1. s.runnable \in Queues /\ Once(s.runnable)
      BY DEF Sound, Views
    <3>2. PICK k \in Levels : In(s.runnable, k, p)
      BY <1>2 DEF Sound, Placed
    <3> QED BY <3>1, <3>2, RemoveFacts
  <2>4. l \in Levels /\ (r[l] = <<>> => \A t \in Tasks : ~In(r, l, t))
    <3>1. l \in Levels
      BY LevelFacts DEF Sound, Views
    <3> HIDE DEF r, l
    <3> QED BY <3>1 DEF In
  <2> HIDE DEF e, r, l
  <2>5. /\ e.on_rq \in [Tasks -> BOOLEAN] /\ e.nr_running \in Nat
        /\ \A t \in Tasks : e.on_rq[t] <=> (t # p /\ s.on_rq[t])
    BY <2>1 DEF Sound, Views
  <2>6. e \in Views
    BY <2>1, <2>2, <2>3, <2>5 DEF Views, Sound
  <2>7. e.nr_running = Cardinality(Waiting(c, e.on_rq))
    <3>1. Waiting(c, e.on_rq) = Waiting(c, s.on_rq) \ {p} /\ p \in Waiting(c, s.on_rq)
      BY <1>2, <2>5 DEF Waiting
    <3>2. Cardinality(Waiting(c, s.on_rq)) # 0
      BY <3>1, WaitingFinite, FS_EmptySet
    <3>3. Cardinality(Waiting(c, s.on_rq) \ {p}) = Cardinality(Waiting(c, s.on_rq)) - 1
      BY <3>1, WaitingFinite, FS_RemoveElement
    <3>4. s.nr_running = Cardinality(Waiting(c, s.on_rq)) /\ s.nr_running \in Nat
      BY DEF Sound, Views
    <3>5. e.nr_running = IF s.nr_running > 0 THEN s.nr_running - 1 ELSE s.nr_running
      BY <2>1
    <3>6. Cardinality(Waiting(c, e.on_rq)) = s.nr_running - 1
      BY <3>1, <3>3, <3>4
    <3> QED BY <3>2, <3>4, <3>5, <3>6
  <2>8. Placed(c, e)
    BY <2>1, <2>3, <2>5 DEF Placed, Sound
  <2>9. /\ \A t \in Tasks : ~In(e.runnable, 0, t)
        /\ \A m \in Levels, t \in Tasks : In(e.runnable, m, t) => m \in e.bitmap
    BY <2>1, <2>3, <2>4, LevelFacts DEF Sound
  <2> QED BY <2>1, <2>3, <2>6, <2>7, <2>8, <2>9 DEF Sound, e
<1> QED BY <1>1, <1>2

(* rr_dequeue_task does too, and puts the task back to its base. *)
LEMMA DequeueSound ==
  ASSUME NEW c \in CPUs, NEW s, Sound(c, s), NEW p \in Tasks, CpuOf[p] = c
  PROVE  LET e == rr_dequeue_task(s, p)
         IN  /\ Sound(c, e) /\ e.on_rq = [s.on_rq EXCEPT ![p] = FALSE]
             /\ \A m \in Levels, t \in Tasks : In(e.runnable, m, t) => In(s.runnable, m, t)
<1> DEFINE d == rr_remove_task(s, p)
           e == rr_dequeue_task(s, p)
<1>1. /\ Sound(c, d) /\ d.on_rq = [s.on_rq EXCEPT ![p] = FALSE]
      /\ \A m \in Levels, t \in Tasks : In(d.runnable, m, t) => In(s.runnable, m, t)
  BY RemoveSound
<1>2. CASE ~s.on_rq[p]
  <2>1. e = s /\ s.on_rq = [s.on_rq EXCEPT ![p] = FALSE]
    BY <1>2 DEF rr_dequeue_task, Sound, Views
  <2> QED BY <2>1
<1>3. CASE s.on_rq[p]
  <2>1. e = [d EXCEPT !.prio[p] = BasePrio, !.consec[p] = 0]
    BY <1>3 DEF rr_dequeue_task
  <2> HIDE DEF d, e
  <2>2. e = [runnable |-> d.runnable, bitmap |-> d.bitmap, nr_running |-> d.nr_running,
             age |-> d.age, on_rq |-> d.on_rq, prio |-> [d.prio EXCEPT ![p] = BasePrio],
             consec |-> [d.consec EXCEPT ![p] = 0]]
    BY <1>1, <2>1 DEF Sound, Views
  <2>3. /\ [d.prio EXCEPT ![p] = BasePrio] \in [Tasks -> 1 .. Lowest]
        /\ [d.consec EXCEPT ![p] = 0] \in [Tasks -> 0 .. DemoteAfter]
    BY <1>1, LevelFacts, RunQueueAssumption DEF Sound, Views
  <2>4. e \in Views
    BY <1>1, <2>2, <2>3 DEF Sound, Views
  <2>5. Sound(c, e)
    BY <1>1, <2>2, <2>4, SameQueuesSound
  <2> QED BY <1>1, <2>2, <2>5 DEF e
<1> QED BY <1>2, <1>3

(* Demotion only touches the priority and the count of the task. *)
LEMMA DemoteSound ==
  ASSUME NEW c \in CPUs, NEW s, Sound(c, s), NEW p \in Tasks
  PROVE  Sound(c, Demote(s, p)) /\ Demote(s, p).on_rq = s.on_rq
         /\ Demote(s, p).runnable = s.runnable
<1> DEFINE e == Demote(s, p)
<1>1. CASE e = s
  BY <1>1
<1>2. CASE s.prio[p] < Lowest /\ e = [s EXCEPT !.prio[p] = @ + 1, !.consec[p] = 0]
  <2> HIDE DEF e
  <2>1. e = [runnable |-> s.runnable, bitmap |-> s.bitmap, nr_running |-> s.nr_running,
             age |-> s.age, on_rq |-> s.on_rq, prio |-> [s.prio EXCEPT ![p] = @ + 1],
             consec |-> [s.consec EXCEPT ![p] = 0]]
    BY <1>2 DEF Sound, Views
  <2>2. /\ [s.prio EXCEPT ![p] = @ + 1] \in [Tasks -> 1 .. Lowest]
        /\ [s.consec EXCEPT ![p] = 0] \in [Tasks -> 0 .. DemoteAfter]
    BY <1>2, RunQueueAssumption DEF Sound, Views
  <2>3. e \in Views
    BY <2>1, <2>2 DEF Sound, Views
  <2> QED BY <2>1, <2>3, SameQueuesSound DEF e
<1> QED BY <1>1, <1>2 DEF Demote

(* The first half of rr_pick_next_task queues curr, or nobody. *)
LEMMA RequeueSound ==
  ASSUME NEW c \in CPUs, NEW s, Sound(c, s),
         curr[c] \in Tasks \cup {c}, curr[c] \in Tasks => CpuOf[curr[c]] = c
  PROVE  LET e == Requeue(s, c)
         IN  /\ Sound(c, e)
             /\ e.on_rq = IF curr[c] # c /\ status[curr[c]] = "RUNNING"
                          THEN [s.on_rq EXCEPT ![curr[c]] = TRUE] ELSE s.on_rq
             /\ \A m \in Levels, t \in Tasks : In(s.runnable, m, t) => In(e.runnable, m, t)
<1>1. CASE curr[c] # c /\ status[curr[c]] = "RUNNING"
  <2> DEFINE p == curr[c]
             d == Demote(s, p)
  <2>1. p \in Tasks /\ CpuOf[p] = c
    BY <1>1
  <2>2. Sound(c, d) /\ d.on_rq = s.on_rq /\ d.runnable = s.runnable
    BY <2>1, DemoteSound
  <2>3. Requeue(s, c) = rr_enqueue_task(d, p)
    BY <1>1 DEF Requeue
  <2> HIDE DEF d
  <2>4. LET e == rr_enqueue_task(d, p)
        IN  /\ Sound(c, e) /\ e.on_rq = [d.on_rq EXCEPT ![p] = TRUE]
            /\ \A m \in Levels, t \in Tasks : In(d.runnable, m, t) => In(e.runnable, m, t)
    BY <2>1, <2>2, EnqueueSound
  <2> QED BY <1>1, <2>2, <2>3, <2>4
<1>2. CASE ~(curr[c] # c /\ status[curr[c]] = "RUNNING")
  BY <1>2 DEF Requeue
<1> QED BY <1>1, <1>2

(* Time passes for the clocks only. *)
LEMMA ElapseSound ==
  ASSUME NEW c \in CPUs, NEW s, Sound(c, s)
  PROVE  /\ Sound(c, Elapse(s)) /\ Elapse(s).on_rq = s.on_rq /\ Elapse(s).runnable = s.runnable
         /\ Elapse(s).prio = s.prio /\ Elapse(s).consec = s.consec
<1> DEFINE a == [l \in Levels |-> IF l \in s.bitmap /\ s.age[l] < AgingTicks
                                  THEN s.age[l] + 1 ELSE s.age[l]]
           e == Elapse(s)
<1>1. a \in [Levels -> 0 .. AgingTicks]
  <2>1. \A l \in Levels : s.age[l] \in 0 .. AgingTicks
    BY DEF Sound, Views
  <2> QED BY <2>1, RunQueueAssumption
<1>2. e = [s EXCEPT !.age = a]
  BY DEF Elapse
<1> HIDE DEF a, e
<1>3. e = [runnable |-> s.runnable, bitmap |-> s.bitmap, nr_running |-> s.nr_running,
           age |-> a, on_rq |-> s.on_rq, prio |-> s.prio, consec |-> s.consec]
  BY <1>2 DEF Sound, Views
<1>4. e \in Views
  BY <1>1, <1>3 DEF Sound, Views
<1>5. Sound(c, e)
  BY <1>3, <1>4, SameQueuesSound
<1> QED BY <1>3, <1>5 DEF e

(* rr_aging keeps the queues sound; a task waits where it did or one up. *)
LEMMA AgingSound ==
  ASSUME NEW c \in CPUs, NEW s, Sound(c, s)
  PROVE  LET e == rr_aging(s)
         IN  /\ Sound(c, e) /\ e.on_rq = s.on_rq /\ e.consec = s.consec
             /\ \A m \in Levels, t \in Tasks :
                  In(e.runnable, m, t) =>
                    In(s.runnable, m, t) \/ (m + 1 \in Levels /\ In(s.runnable, m + 1, t))
<1> DEFINE old == Aged(s, 2)
           above == {l - 1 : l \in old}
           q == s.runnable
           e == rr_aging(s)
           np == [t \in Tasks |-> IF \E l \in old : t \in ToSet(q[l])
                                  THEN (CHOOSE l \in old : t \in ToSet(q[l])) - 1
                                  ELSE s.prio[t]]
           na == [l \in Levels |-> IF l \in above THEN 0 ELSE s.age[l]]
<1>1. /\ old \in SUBSET Levels /\ 0 \notin old /\ above \in SUBSET Levels
      /\ \A l \in old : l \in Int /\ l >= 2 /\ l <= Lowest
      /\ \A m \in Levels : m \in above <=> m + 1 \in old
  <2>1. /\ old \in SUBSET Levels /\ \A l \in old : l >= 2
    BY DEF Aged, Sound, Views
  <2> HIDE DEF old
  <2> QED BY <2>1, RunQueueAssumption DEF Levels
<1>2. /\ q \in Queues /\ Once(q)
  BY DEF Sound, Views
<1>3. e = [runnable |-> Promoted(q, old), bitmap |-> (s.bitmap \ old) \cup above,
           nr_running |-> s.nr_running, age |-> na, on_rq |-> s.on_rq, prio |-> np,
           consec |-> s.consec]
  <2>1. e = [s EXCEPT !.prio = np, !.runnable = Promoted(q, old),
                      !.bitmap = (@ \ old) \cup above, !.age = na]
    BY DEF rr_aging, Promote, Promoted
  <2> HIDE DEF old, above, np, na, e
  <2> QED BY <2>1 DEF Sound, Views
<1>4. /\ Promoted(q, old) \in Queues /\ Once(Promoted(q, old))
      /\ \A m \in Levels, t \in Tasks :
           In(Promoted(q, old), m, t) <=>
             (m \notin old /\ In(q, m, t)) \/ (m + 1 \in old /\ In(q, m + 1, t))
  <2> HIDE DEF old, q
  <2> QED BY <1>1, <1>2, PromoteFacts
<1>5. np \in [Tasks -> 1 .. Lowest]
  <2>1. \A t \in Tasks : s.prio[t] \in 1 .. Lowest
    BY DEF Sound, Views
  <2>2. ASSUME NEW t \in Tasks, \E l \in old : t \in ToSet(q[l])
        PROVE  (CHOOSE l \in old : t \in ToSet(q[l])) - 1 \in 1 .. Lowest
    <3> HIDE DEF old, q
    <3>1. (CHOOSE l \in old : t \in ToSet(q[l])) \in old
      BY <2>2
    <3> QED BY <3>1, <1>1, RunQueueAssumption
  <2> HIDE DEF old, q
  <2> QED BY <2>1, <2>2
<1>6. na \in [Levels -> 0 .. AgingTicks]
  <2>1. \A l \in Levels : s.age[l] \in 0 .. AgingTicks
    BY DEF Sound, Views
  <2> HIDE DEF above
  <2> QED BY <2>1, RunQueueAssumption
<1> HIDE DEF old, above, np, na, e
<1>7. e \in Views
  BY <1>1, <1>3, <1>4, <1>5, <1>6 DEF Sound, Views
<1>8. \A t \in Tasks : ~In(e.runnable, 0, t)
  BY <1>1, <1>3, <1>4, LevelFacts DEF Sound
<1>9. \A m \in Levels, t \in Tasks : In(e.runnable, m, t) => m \in e.bitmap
  BY <1>1, <1>3, <1>4 DEF Sound
<1>10. Placed(c, e)
  <2>1. ASSUME NEW t \in Tasks, NEW l \in Levels, In(q, l, t)
        PROVE  \E m \in Levels : In(e.runnable, m, t)
    <3>1. CASE l \notin old
      BY <2>1, <3>1, <1>3, <1>4
    <3>2. CASE l \in old
      <4>1. l - 1 \in Levels /\ (l - 1) + 1 = l
        BY <3>2, <1>1, RunQueueAssumption DEF Levels
      <4> QED BY <2>1, <3>2, <4>1, <1>3, <1>4
    <3> QED BY <3>1, <3>2
  <2>2. ASSUME NEW t \in Tasks, NEW m \in Levels, In(e.runnable, m, t)
        PROVE  \E l \in Levels : In(q, l, t)
    BY <2>2, <1>1, <1>3, <1>4
  <2>3. e.on_rq = s.on_rq
    BY <1>3
  <2> QED BY <2>1, <2>2, <2>3 DEF Sound, Placed
<1>11. Sound(c, e)
  BY <1>3, <1>4, <1>7, <1>8, <1>9, <1>10 DEF Sound
<1> QED BY <1>1, <1>3, <1>4, <1>11 DEF e

(* A set of natural numbers has a least one. *)
LEMMA LeastNumber ==
  ASSUME NEW T \in SUBSET Nat, T # {} PROVE \E x \in T : \A y \in T : x <= y
<1> DEFINE R == {ss \in Nat \X Nat : ss[1] < ss[2]}
<1>1. R = OpToRel(<, Nat)
  BY DEF OpToRel
<1>2. IsWellFoundedOn(R, Nat)
  BY <1>1, NatLessThanWellFounded
<1>3. PICK x \in T : \A y \in T : <<y, x>> \notin R
  <2> HIDE DEF R
  <2> QED BY <1>2, WFMin
<1>4. \A y \in T : y \in Nat /\ x \in Nat /\ ~(y < x)
  BY <1>3
<1> QED BY <1>4

(* ctz32 finds a level whose bit is set. *)
LEMMA HighestIsSet ==
  ASSUME NEW c \in CPUs, NEW s, Sound(c, s), s.bitmap # {} PROVE Highest(s) \in s.bitmap
<1>1. s.bitmap \in SUBSET Nat
  BY RunQueueAssumption DEF Sound, Views, Levels
<1>2. \E l \in s.bitmap : \A m \in s.bitmap : l <= m
  BY <1>1, LeastNumber
<1> QED BY <1>2 DEF Highest

-----------------------------------------------------------------------------
(* The queues of all CPUs. *)
RqType ==
  rq \in [CPUs -> [runnable : Queues, bitmap : SUBSET Levels, nr_running : Nat,
                   age : [Levels -> 0 .. AgingTicks]]]

QInv == RqType /\ \A c \in CPUs : Sound(c, View(c))

(* The fields of a View. *)
LEMMA ViewFacts ==
  ASSUME NEW c \in CPUs
  PROVE  /\ View(c).runnable = rq[c].runnable /\ View(c).bitmap = rq[c].bitmap
         /\ View(c).nr_running = rq[c].nr_running /\ View(c).age = rq[c].age
         /\ View(c).on_rq = on_rq /\ View(c).prio = prio /\ View(c).consec = consec_ticks
BY DEF View

(* A critical section of one CPU's rq->lock leaves the other queues sound. *)
LEMMA CommitSound ==
  ASSUME QInv, NEW c \in CPUs, NEW s, Sound(c, s), Commit(c, s),
         \A t \in Tasks : CpuOf[t] # c => (s.on_rq[t] <=> on_rq[t])
  PROVE  QInv' /\ on_rq' = s.on_rq /\ rq'[c].runnable = s.runnable
         /\ \A d \in CPUs : d # c => rq'[d] = rq[d]
<1>1. /\ rq' = [rq EXCEPT ![c] = [runnable |-> s.runnable, bitmap |-> s.bitmap,
                                 nr_running |-> s.nr_running, age |-> s.age]]
      /\ on_rq' = s.on_rq /\ prio' = s.prio /\ consec_ticks' = s.consec
  BY DEF Commit
<1>2. /\ RqType' /\ \A d \in CPUs : d # c => rq'[d] = rq[d]
      /\ rq'[c] = [runnable |-> s.runnable, bitmap |-> s.bitmap,
                   nr_running |-> s.nr_running, age |-> s.age]
  BY <1>1 DEF QInv, RqType, Sound, Views
<1>3. View(c)' = s
  BY <1>1, <1>2 DEF View, Sound, Views
<1>4. ASSUME NEW d \in CPUs, d # c PROVE Sound(d, View(d)')
  <2> DEFINE v == View(d)
             e == View(d)'
  <2>1. Sound(d, v) /\ v.on_rq = on_rq
    BY ViewFacts DEF QInv
  <2>2. e = [runnable |-> v.runnable, bitmap |-> v.bitmap, nr_running |-> v.nr_running,
             age |-> v.age, on_rq |-> s.on_rq, prio |-> s.prio, consec |-> s.consec]
    BY <1>1, <1>2, <1>4 DEF View
  <2> HIDE DEF v, e
  <2>3. e \in Views
    BY <2>1, <2>2 DEF Sound, Views
  <2>4. Placed(d, e)
    BY <1>4, <2>1, <2>2 DEF Sound, Placed
  <2>5. Waiting(d, e.on_rq) = Waiting(d, v.on_rq)
    BY <1>4, <2>1, <2>2 DEF Waiting
  <2>6. Sound(d, e)
    BY <2>1, <2>2, <2>3, <2>4, <2>5 DEF Sound
  <2> QED BY <2>6 DEF e
<1>5. \A d \in CPUs : Sound(d, View(d)')
  BY <1>3, <1>4
<1>6. \A d \in CPUs : Sound(d, View(d))'
  BY <1>5 DEF Sound, Placed, Views, Waiting, Once, In, Queues
<1> QED BY <1>1, <1>2, <1>6 DEF QInv

(* What is on the queues of a CPU before and after a step moves up by one at most. *)
Gradual(c) ==
  \A l, m \in Levels, t \in Tasks :
    In(rq[c].runnable, l, t) /\ In(rq'[c].runnable, m, t) => m + 1 >= l

(* A task executes on its own CPU. *)
Currs ==
  /\ curr \in [CPUs -> Tasks \cup CPUs]
  /\ \A c \in CPUs : /\ curr[c] \in Tasks \cup {c}
                     /\ curr[c] \in Tasks => CpuOf[curr[c]] = c

(* on_rq behind the first half of rr_pick_next_task. *)
Requeued(c) ==
  IF curr[c] # c /\ status[curr[c]] = "RUNNING" THEN [on_rq EXCEPT ![curr[c]] = TRUE] ELSE on_rq

(* The rest of sched(): the task that was picked is off the queues and executes. *)
SwitchTo(c, next, resched) ==
  /\ on_rq' = IF next \in Tasks THEN [Requeued(c) EXCEPT ![next] = FALSE] ELSE Requeued(c)
  /\ curr' = [curr EXCEPT ![c] = next]
  /\ need_resched' = IF next = curr[c] THEN [resched EXCEPT ![next] = FALSE] ELSE resched
  /\ armed' = [armed EXCEPT ![c] = TRUE]
  /\ lost' = [lost EXCEPT ![c] = next \in Tasks /\ pc[next] = "exit"]
  /\ pc' = IF next \in Tasks /\ pc[next] # "exit" THEN [pc EXCEPT ![next] = "run"] ELSE pc
  /\ halt' = [halt EXCEPT ![c] = IF next = c THEN "halting" ELSE "awake"]
  /\ UNCHANGED <<status, waker, ipi>>

(* ... or the CPU takes the head of an empty list for a task. *)
GetsLost(c) ==
  /\ on_rq' = Requeued(c)
  /\ lost' = [lost EXCEPT ![c] = TRUE]
  /\ UNCHANGED <<curr, need_resched, armed, pc, halt, status, waker, ipi>>

(* All of sched(), whichever way it goes. *)
LEMMA SchedFacts ==
  ASSUME QInv, Currs, NEW c \in CPUs, NEW resched, sched(c, resched)
  PROVE  /\ QInv' /\ (\A d \in CPUs : d # c => rq'[d] = rq[d]) /\ Gradual(c)
         /\ \/ GetsLost(c)
            \/ \E next \in Tasks \cup {c} :
                 (next \in Tasks => CpuOf[next] = c) /\ SwitchTo(c, next, resched)
<1> DEFINE v == View(c)
           s == Requeue(v, c)
<1>1. Sound(c, v) /\ v.on_rq = on_rq /\ v.runnable = rq[c].runnable
  BY ViewFacts DEF QInv
<1>2. curr[c] \in Tasks \cup {c} /\ (curr[c] \in Tasks => CpuOf[curr[c]] = c)
  BY DEF Currs
<1> HIDE DEF v
<1>3. /\ Sound(c, s) /\ s.on_rq = Requeued(c)
      /\ \A m \in Levels, t \in Tasks : In(v.runnable, m, t) => In(s.runnable, m, t)
  BY <1>1, <1>2, RequeueSound DEF Requeued
<1>4. \A t \in Tasks : CpuOf[t] # c => (s.on_rq[t] <=> on_rq[t])
  <2>1. on_rq \in [Tasks -> BOOLEAN]
    BY <1>1 DEF Sound, Views
  <2> HIDE DEF s
  <2> QED BY <1>2, <1>3, <2>1 DEF Requeued
<1>5. \/ s.bitmap = {} /\ Switch(c, s, c, resched)
      \/ /\ s.bitmap # {} /\ lost' = [lost EXCEPT ![c] = TRUE] /\ Commit(c, s)
         /\ UNCHANGED <<curr, need_resched, armed, pc, halt, status, waker, ipi>>
      \/ /\ s.bitmap # {} /\ s.runnable[Highest(s)] # <<>>
         /\ Switch(c, [rr_remove_task(s, Head(s.runnable[Highest(s)])) EXCEPT !.age[Highest(s)] = 0],
                   Head(s.runnable[Highest(s)]), resched)
  BY DEF sched, v
<1> HIDE DEF s
<1>6. ASSUME NEW l \in Levels, NEW m \in Levels, NEW t \in Tasks,
             In(v.runnable, l, t), In(s.runnable, m, t)
      PROVE  l = m
  <2>1. In(s.runnable, l, t)
    BY <1>3, <1>6
  <2> QED BY <1>3, <1>6, <2>1 DEF Sound, Once, In
<1>7. \A l \in Levels : l + 1 >= l
  BY LevelFacts
<1>8. CASE s.bitmap = {} /\ Switch(c, s, c, resched)
  <2>1. Commit(c, s)
    BY <1>8 DEF Switch
  <2>2. /\ QInv' /\ on_rq' = s.on_rq /\ rq'[c].runnable = s.runnable
        /\ \A d \in CPUs : d # c => rq'[d] = rq[d]
    BY <1>3, <1>4, <2>1, CommitSound
  <2>3. Gradual(c)
    BY <1>1, <1>6, <1>7, <2>2 DEF Gradual
  <2>4. c \notin Tasks
    BY RunQueueAssumption
  <2>5. SwitchTo(c, c, resched)
    BY <1>3, <1>8, <2>2, <2>4 DEF Switch, SwitchTo
  <2> QED BY <2>2, <2>3, <2>4, <2>5
<1>9. CASE /\ s.bitmap # {} /\ lost' = [lost EXCEPT ![c] = TRUE] /\ Commit(c, s)
           /\ UNCHANGED <<curr, need_resched, armed, pc, halt, status, waker, ipi>>
  <2>1. /\ QInv' /\ on_rq' = s.on_rq /\ rq'[c].runnable = s.runnable
        /\ \A d \in CPUs : d # c => rq'[d] = rq[d]
    BY <1>3, <1>4, <1>9, CommitSound
  <2>2. Gradual(c)
    BY <1>1, <1>6, <1>7, <2>1 DEF Gradual
  <2> QED BY <1>3, <1>9, <2>1, <2>2 DEF GetsLost
<1>10. CASE /\ s.bitmap # {} /\ s.runnable[Highest(s)] # <<>>
            /\ Switch(c, [rr_remove_task(s, Head(s.runnable[Highest(s)]))
                            EXCEPT !.age[Highest(s)] = 0],
                      Head(s.runnable[Highest(s)]), resched)
  <2> DEFINE h == Highest(s)
             p == Head(s.runnable[h])
             d0 == rr_remove_task(s, p)
             e == [d0 EXCEPT !.age[h] = 0]
  <2>1. h \in Levels
    BY <1>3, <1>10, HighestIsSet DEF Sound, Views
  <2>2. p \in Tasks /\ In(s.runnable, h, p)
    <3>1. s.runnable[h] \in Seq(Tasks) /\ s.runnable[h] # <<>>
      BY <1>3, <1>10, <2>1 DEF Sound, Views, Queues
    <3> HIDE DEF h
    <3> QED BY <3>1 DEF In
  <2>3. CpuOf[p] = c
    BY <1>3, <2>1, <2>2 DEF Sound, Placed
  <2> HIDE DEF h, p
  <2>4. /\ Sound(c, d0) /\ d0.on_rq = [s.on_rq EXCEPT ![p] = FALSE]
        /\ \A m \in Levels, t \in Tasks : In(d0.runnable, m, t) => In(s.runnable, m, t)
    BY <1>3, <2>2, <2>3, RemoveSound
  <2> HIDE DEF d0
  <2>5. e = [runnable |-> d0.runnable, bitmap |-> d0.bitmap, nr_running |-> d0.nr_running,
             age |-> [d0.age EXCEPT ![h] = 0], on_rq |-> d0.on_rq, prio |-> d0.prio,
             consec |-> d0.consec]
    <3>1. d0 \in Views
      BY <2>4 DEF Sound
    <3> QED BY <3>1 DEF Views
  <2>6. [d0.age EXCEPT ![h] = 0] \in [Levels -> 0 .. AgingTicks]
    BY <2>1, <2>4, RunQueueAssumption DEF Sound, Views
  <2>7. Switch(c, e, p, resched)
    BY <1>10 DEF h, p, d0
  <2> HIDE DEF e
  <2>8. e \in Views
    BY <2>4, <2>5, <2>6 DEF Sound, Views
  <2>9. Sound(c, e) /\ e.on_rq = [s.on_rq EXCEPT ![p] = FALSE] /\ e.runnable = d0.runnable
    BY <2>4, <2>5, <2>8, SameQueuesSound
  <2>10. \A t \in Tasks : CpuOf[t] # c => (e.on_rq[t] <=> on_rq[t])
    <3>1. s.on_rq \in [Tasks -> BOOLEAN]
      BY <1>3 DEF Sound, Views
    <3> QED BY <1>4, <2>3, <2>9, <3>1
  <2>11. /\ QInv' /\ on_rq' = e.on_rq /\ rq'[c].runnable = e.runnable
         /\ \A d \in CPUs : d # c => rq'[d] = rq[d]
    BY <2>7, <2>9, <2>10, CommitSound DEF Switch
  <2>12. Gradual(c)
    BY <1>1, <1>6, <1>7, <2>4, <2>9, <2>11 DEF Gradual
  <2>13. SwitchTo(c, p, resched)
    BY <1>3, <2>2, <2>7, <2>9, <2>11 DEF Switch, SwitchTo
  <2> QED BY <2>2, <2>3, <2>11, <2>12, <2>13
<1> QED BY <1>5, <1>8, <1>9, <1>10

-----------------------------------------------------------------------------
(* The variables outside the queues. *)
Types ==
  /\ status \in [Tasks -> {"RUNNING", "SLEEPING", "ZOMBIE"}]
  /\ need_resched \in [Tasks \cup CPUs -> BOOLEAN]
  /\ pc \in [Tasks -> {"run", "marked", "block", "exit"}]
  /\ waker \in [Wakers -> {NoWake} \cup [at : {"checked", "set", "queued"}, task : Tasks]]
  /\ armed \in [CPUs -> BOOLEAN] /\ ipi \in [CPUs -> BOOLEAN]
  /\ halt \in [CPUs -> {"awake", "halting", "wfi"}] /\ lost \in [CPUs -> BOOLEAN]

IInv == QInv /\ Currs /\ Types /\ NoForgottenTask /\ PreemptionAlive

(* What every step keeps. *)
Kept == IInv' /\ \A c \in CPUs : Gradual(c)

(* A task is on one level only. *)
LEMMA OneLevel ==
  ASSUME NEW c \in CPUs, NEW s, Sound(c, s), NEW l \in Levels, NEW m \in Levels,
         NEW t \in Tasks, In(s.runnable, l, t), In(s.runnable, m, t)
  PROVE  l = m /\ m + 1 >= l
BY LevelFacts DEF Sound, Once, In

(* Queues that do not change move nobody. *)
LEMMA SameIsGradual ==
  ASSUME QInv, NEW c \in CPUs, rq'[c] = rq[c] PROVE Gradual(c)
<1>1. Sound(c, View(c)) /\ View(c).runnable = rq[c].runnable
  BY ViewFacts DEF QInv
<1> QED BY <1>1, OneLevel DEF Gradual

(* A step outside every rq->lock. *)
LEMMA QuietStep ==
  ASSUME QInv, UNCHANGED <<rq, on_rq, prio, consec_ticks>>
  PROVE  QInv' /\ \A c \in CPUs : Gradual(c)
<1>1. \A c \in CPUs : Gradual(c)
  BY SameIsGradual
<1>2. RqType'
  BY DEF QInv, RqType, Queues
<1>3. \A c \in CPUs : View(c)' = View(c)
  BY DEF View
<1>4. \A c \in CPUs : Sound(c, View(c)')
  BY <1>3 DEF QInv
<1>5. \A c \in CPUs : Sound(c, View(c))'
  BY <1>4 DEF Sound, Placed, Views, Waiting, Once, In, Queues
<1> QED BY <1>1, <1>2, <1>5 DEF QInv

(* on_rq is a flag of each task. *)
LEMMA OnRqType == ASSUME QInv PROVE on_rq \in [Tasks -> BOOLEAN]
BY RunQueueAssumption, ViewFacts DEF QInv, Sound, Views

(* A call of sched(), with need_resched cleared for its caller or not. *)
LEMMA SchedStep ==
  ASSUME IInv, NEW c \in CPUs, NEW resched \in [Tasks \cup CPUs -> BOOLEAN], sched(c, resched),
         \A u \in Tasks \cup CPUs : u # curr[c] => resched[u] = need_resched[u]
  PROVE  Kept
<1>0. QInv /\ Currs /\ Types /\ NoForgottenTask /\ PreemptionAlive /\ on_rq \in [Tasks -> BOOLEAN]
  BY OnRqType DEF IInv
<1>1. /\ QInv' /\ (\A d \in CPUs : d # c => rq'[d] = rq[d]) /\ Gradual(c)
      /\ \/ GetsLost(c)
         \/ \E next \in Tasks \cup {c} :
              (next \in Tasks => CpuOf[next] = c) /\ SwitchTo(c, next, resched)
  BY <1>0, SchedFacts
<1>2. \A d \in CPUs : Gradual(d)
  BY <1>0, <1>1, SameIsGradual
<1>3. Requeued(c) \in [Tasks -> BOOLEAN] /\ \A t \in Tasks : on_rq[t] => Requeued(c)[t]
  BY <1>0 DEF Requeued
<1>4. \A t \in Tasks : curr[c] = t /\ status[t] = "RUNNING" => Requeued(c)[t]
  BY <1>0, RunQueueAssumption DEF Requeued
<1>5. CASE GetsLost(c)
  <2>1. Currs' /\ Types'
    BY <1>0, <1>5 DEF GetsLost, Currs, Types
  <2>2. NoForgottenTask'
    BY <1>0, <1>3, <1>5 DEF GetsLost, NoForgottenTask
  <2>3. PreemptionAlive'
    BY <1>0, <1>5 DEF GetsLost, PreemptionAlive
  <2> QED BY <1>1, <1>2, <2>1, <2>2, <2>3 DEF Kept, IInv
<1>6. ASSUME NEW next \in Tasks \cup {c}, next \in Tasks => CpuOf[next] = c,
             SwitchTo(c, next, resched)
      PROVE  Kept
  <2>1. Currs'
    BY <1>0, <1>6 DEF SwitchTo, Currs
  <2>2. Types'
    BY <1>0, <1>6 DEF SwitchTo, Types
  <2>3. curr'[c] = next /\ \A d \in CPUs : d # c => curr'[d] = curr[d]
    BY <1>0, <1>6 DEF SwitchTo, Currs
  <2>4. NoForgottenTask'
    <3> SUFFICES ASSUME NEW t \in Tasks, status[t] = "RUNNING", curr'[CpuOf[t]] # t
                 PROVE  on_rq'[t] \/ \E w \in Wakers : waker[w] = [at |-> "set", task |-> t]
      BY <1>6 DEF NoForgottenTask, SwitchTo
    <3>1. t # next
      BY <1>6, <2>3
    <3>2. on_rq'[t] <=> Requeued(c)[t]
      BY <1>3, <1>6, <3>1 DEF SwitchTo
    <3>3. CpuOf[t] \in CPUs
      BY RunQueueAssumption
    <3> QED BY <1>0, <1>3, <1>4, <2>3, <3>2, <3>3 DEF NoForgottenTask
  <2>5. PreemptionAlive'
    <3> SUFFICES ASSUME NEW d \in CPUs, d # c, curr[d] \in Tasks
                 PROVE  \/ armed'[d] \/ need_resched'[curr[d]]
                        \/ pc'[curr[d]] \in {"marked", "block", "exit"}
      BY <1>0, <1>6, <2>3 DEF PreemptionAlive, SwitchTo, Types
    <3>1. curr[d] # curr[c] /\ curr[d] # next
      BY <1>0, <1>6, RunQueueAssumption DEF Currs
    <3>2. armed'[d] = armed[d] /\ pc'[curr[d]] = pc[curr[d]]
      BY <1>0, <1>6, <3>1 DEF SwitchTo, Types
    <3>3. need_resched'[curr[d]] = need_resched[curr[d]]
      BY <1>0, <1>6, <3>1 DEF SwitchTo, Types
    <3> QED BY <1>0, <3>2, <3>3 DEF PreemptionAlive
  <2> QED BY <1>1, <1>2, <2>1, <2>2, <2>4, <2>5 DEF Kept, IInv
<1> QED BY <1>1, <1>5, <1>6

(* A task that runs takes itself off the queues to sleep or to exit. *)
LEMMA DequeueStep ==
  ASSUME IInv, NEW t \in Tasks, Commit(CpuOf[t], rr_dequeue_task(View(CpuOf[t]), t))
  PROVE  /\ QInv' /\ on_rq' = [on_rq EXCEPT ![t] = FALSE] /\ on_rq \in [Tasks -> BOOLEAN]
         /\ \A c \in CPUs : Gradual(c)
<1> DEFINE c == CpuOf[t]
           v == View(c)
           e == rr_dequeue_task(v, t)
<1>1. c \in CPUs /\ QInv /\ on_rq \in [Tasks -> BOOLEAN]
  BY RunQueueAssumption, OnRqType DEF IInv
<1>2. Sound(c, v) /\ v.on_rq = on_rq /\ v.runnable = rq[c].runnable
  BY <1>1, ViewFacts DEF QInv
<1> HIDE DEF v
<1>3. /\ Sound(c, e) /\ e.on_rq = [v.on_rq EXCEPT ![t] = FALSE]
      /\ \A m \in Levels, u \in Tasks : In(e.runnable, m, u) => In(v.runnable, m, u)
  BY <1>1, <1>2, DequeueSound
<1>4. Commit(c, e)
  BY DEF v
<1> HIDE DEF e
<1>5. \A u \in Tasks : CpuOf[u] # c => (e.on_rq[u] <=> on_rq[u])
  BY <1>1, <1>2, <1>3
<1> HIDE DEF c
<1>6. /\ QInv' /\ on_rq' = e.on_rq /\ rq'[c].runnable = e.runnable
      /\ \A d \in CPUs : d # c => rq'[d] = rq[d]
  BY <1>1, <1>3, <1>4, <1>5, CommitSound
<1>7. Gradual(c)
  BY <1>1, <1>2, <1>3, <1>6, OneLevel DEF Gradual
<1> QED BY <1>1, <1>2, <1>3, <1>6, <1>7, SameIsGradual

(* sched_event ages the queues and asks the task that executes to call sched(). *)
LEMMA TickStep ==
  ASSUME IInv, NEW c \in CPUs, Tick(c) PROVE Kept
<1> DEFINE v == View(c)
           s == Elapse(v)
           n == IF curr[c] \in Tasks
                THEN [s EXCEPT !.consec[curr[c]] = IF @ < DemoteAfter THEN @ + 1 ELSE @]
                ELSE s
           e == rr_aging(n)
<1>0. QInv /\ Currs /\ Types /\ NoForgottenTask /\ PreemptionAlive
  BY DEF IInv
<1>1. Sound(c, v) /\ v.on_rq = on_rq /\ v.runnable = rq[c].runnable
  BY <1>0, ViewFacts DEF QInv
<1>2. Commit(c, e)
  BY DEF Tick
<1> HIDE DEF v
<1>3. Sound(c, s) /\ s.on_rq = v.on_rq /\ s.runnable = v.runnable
  BY <1>1, ElapseSound
<1> HIDE DEF s
<1>4. Sound(c, n) /\ n.on_rq = s.on_rq /\ n.runnable = s.runnable
  <2>1. CASE curr[c] \notin Tasks
    BY <1>3, <2>1
  <2>2. CASE curr[c] \in Tasks
    <3> DEFINE p == curr[c]
               nc == [s.consec EXCEPT ![p] = IF @ < DemoteAfter THEN @ + 1 ELSE @]
    <3>1. s \in Views
      BY <1>3 DEF Sound
    <3>2. n = [s EXCEPT !.consec[p] = IF @ < DemoteAfter THEN @ + 1 ELSE @]
      BY <2>2
    <3> HIDE DEF n
    <3>3. n = [runnable |-> s.runnable, bitmap |-> s.bitmap, nr_running |-> s.nr_running,
               age |-> s.age, on_rq |-> s.on_rq, prio |-> s.prio, consec |-> nc]
      BY <3>1, <3>2 DEF Views
    <3>4. nc \in [Tasks -> 0 .. DemoteAfter]
      <4>1. s.consec \in [Tasks -> 0 .. DemoteAfter]
        BY <3>1 DEF Views
      <4> QED BY <4>1, <2>2, RunQueueAssumption
    <3> HIDE DEF nc, p
    <3>5. n \in Views
      BY <3>1, <3>3, <3>4 DEF Views
    <3> QED BY <1>3, <3>3, <3>5, SameQueuesSound
  <2> QED BY <2>1, <2>2
<1> HIDE DEF n
<1>5. /\ Sound(c, e) /\ e.on_rq = n.on_rq
      /\ \A m \in Levels, t \in Tasks :
           In(e.runnable, m, t) =>
             In(n.runnable, m, t) \/ (m + 1 \in Levels /\ In(n.runnable, m + 1, t))
  BY <1>4, AgingSound
<1> HIDE DEF e
<1>6. /\ QInv' /\ on_rq' = on_rq /\ rq'[c].runnable = e.runnable
      /\ \A d \in CPUs : d # c => rq'[d] = rq[d]
  BY <1>0, <1>1, <1>2, <1>3, <1>4, <1>5, CommitSound
<1>7. Gradual(c)
  <2> SUFFICES ASSUME NEW l \in Levels, NEW m \in Levels, NEW t \in Tasks,
                      In(v.runnable, l, t), In(e.runnable, m, t)
               PROVE  m + 1 >= l
    BY <1>1, <1>6 DEF Gradual
  <2>1. CASE In(v.runnable, m, t)
    BY <1>1, <2>1, OneLevel
  <2>2. CASE m + 1 \in Levels /\ In(v.runnable, m + 1, t)
    <3>1. l = m + 1
      BY <1>1, <2>2, OneLevel
    <3> QED BY <3>1, LevelFacts
  <2> QED BY <1>3, <1>4, <1>5, <2>1, <2>2
<1>8. \A d \in CPUs : Gradual(d)
  BY <1>0, <1>6, <1>7, SameIsGradual
<1>9. Currs' /\ Types'
  BY <1>0 DEF Tick, Interrupt, Currs, Types
<1>10. NoForgottenTask'
  BY <1>0, <1>6 DEF Tick, NoForgottenTask
<1>11. PreemptionAlive'
  BY <1>0 DEF Tick, PreemptionAlive, Types, Currs
<1> QED BY <1>6, <1>8, <1>9, <1>10, <1>11 DEF Kept, IInv

(* The clocks of the levels go on. *)
LEMMA TimeStep ==
  ASSUME IInv, NEW c \in CPUs, TimePasses(c) PROVE Kept
<1> DEFINE v == View(c)
           s == Elapse(v)
<1>0. QInv /\ Currs /\ Types /\ NoForgottenTask /\ PreemptionAlive
  BY DEF IInv
<1>1. Sound(c, v) /\ v.on_rq = on_rq /\ v.runnable = rq[c].runnable
  BY <1>0, ViewFacts DEF QInv
<1>2. Commit(c, s)
  BY DEF TimePasses
<1> HIDE DEF v
<1>3. Sound(c, s) /\ s.on_rq = v.on_rq /\ s.runnable = v.runnable
  BY <1>1, ElapseSound
<1> HIDE DEF s
<1>4. /\ QInv' /\ on_rq' = on_rq /\ rq'[c].runnable = rq[c].runnable
      /\ \A d \in CPUs : d # c => rq'[d] = rq[d]
  BY <1>0, <1>1, <1>2, <1>3, CommitSound
<1>5. Gradual(c)
  BY <1>1, <1>4, OneLevel DEF Gradual
<1>6. \A d \in CPUs : Gradual(d)
  BY <1>0, <1>4, <1>5, SameIsGradual
<1>7. Currs' /\ Types'
  BY <1>0 DEF TimePasses, Currs, Types
<1>8. NoForgottenTask' /\ PreemptionAlive'
  BY <1>0, <1>4 DEF TimePasses, NoForgottenTask, PreemptionAlive
<1> QED BY <1>4, <1>6, <1>7, <1>8 DEF Kept, IInv

(* The locked part of wake_up_process puts the task on the queues of its CPU. *)
LEMMA WakeEnqueueStep ==
  ASSUME IInv, NEW w \in Wakers, WakeEnqueue(w) PROVE Kept
<1> DEFINE t == waker[w].task
           c == CpuOf[t]
           v == View(c)
           e == rr_enqueue_task(v, t)
<1>0. QInv /\ Currs /\ Types /\ NoForgottenTask /\ PreemptionAlive /\ on_rq \in [Tasks -> BOOLEAN]
  BY OnRqType DEF IInv
<1>1. waker[w] \in [at : {"checked", "set", "queued"}, task : Tasks] /\ waker[w].at = "set"
  BY <1>0 DEF WakeEnqueue, Types, NoWake
<1>2. t \in Tasks /\ c \in CPUs
  BY <1>1, RunQueueAssumption
<1>3. Commit(c, e)
  BY DEF WakeEnqueue
<1>4. Sound(c, v) /\ v.on_rq = on_rq /\ v.runnable = rq[c].runnable
  BY <1>0, <1>2, ViewFacts DEF QInv
<1> HIDE DEF v
<1>5. /\ Sound(c, e) /\ e.on_rq = [v.on_rq EXCEPT ![t] = TRUE]
      /\ \A m \in Levels, u \in Tasks : In(v.runnable, m, u) => In(e.runnable, m, u)
  BY <1>2, <1>4, EnqueueSound
<1> HIDE DEF e
<1>6. \A u \in Tasks : CpuOf[u] # c => (e.on_rq[u] <=> on_rq[u])
  BY <1>0, <1>4, <1>5
<1>7. waker' = [waker EXCEPT ![w].at = "queued"]
      /\ UNCHANGED <<status, need_resched, curr, pc, armed, ipi, halt, lost>>
  BY DEF WakeEnqueue
<1> HIDE DEF c
<1>8. /\ QInv' /\ on_rq' = e.on_rq /\ rq'[c].runnable = e.runnable
      /\ \A d \in CPUs : d # c => rq'[d] = rq[d]
  BY <1>0, <1>2, <1>3, <1>5, <1>6, CommitSound
<1>9. Gradual(c)
  BY <1>2, <1>4, <1>5, <1>8, OneLevel DEF Gradual
<1>10. \A d \in CPUs : Gradual(d)
  BY <1>0, <1>8, <1>9, SameIsGradual
<1>11. /\ waker'[w] = [at |-> "queued", task |-> t]
       /\ \A x \in Wakers : x # w => waker'[x] = waker[x]
  BY <1>0, <1>1, <1>7 DEF Types
<1>12. Currs' /\ Types'
  BY <1>0, <1>1, <1>7, <1>11 DEF Currs, Types
<1>13. on_rq'[t] /\ \A u \in Tasks : on_rq[u] => on_rq'[u]
  BY <1>0, <1>2, <1>4, <1>5, <1>8
<1>14. NoForgottenTask'
  <2> SUFFICES ASSUME NEW u \in Tasks, status[u] = "RUNNING", curr[CpuOf[u]] # u, ~on_rq'[u]
               PROVE  \E x \in Wakers : waker'[x] = [at |-> "set", task |-> u]
    BY <1>7 DEF NoForgottenTask
  <2>1. PICK x \in Wakers : waker[x] = [at |-> "set", task |-> u]
    BY <1>0, <1>13 DEF NoForgottenTask
  <2>2. x # w
    BY <1>13, <2>1
  <2> QED BY <1>11, <2>1, <2>2
<1>15. PreemptionAlive'
  BY <1>0, <1>7 DEF PreemptionAlive
<1> QED BY <1>8, <1>10, <1>12, <1>14, <1>15 DEF Kept, IInv

(* sleep_on and do_exit take their task off the queues. *)
LEMMA LeavingStep ==
  ASSUME IInv, NEW t \in Tasks, SleepDequeue(t) \/ Exit(t) PROVE Kept
<1>0. QInv /\ Currs /\ Types /\ NoForgottenTask /\ PreemptionAlive
  BY DEF IInv
<1>1. Commit(CpuOf[t], rr_dequeue_task(View(CpuOf[t]), t))
  BY DEF SleepDequeue, Exit
<1>2. /\ QInv' /\ on_rq' = [on_rq EXCEPT ![t] = FALSE] /\ on_rq \in [Tasks -> BOOLEAN]
      /\ \A c \in CPUs : Gradual(c)
  BY <1>1, DequeueStep
<1>3. /\ curr[CpuOf[t]] = t /\ UNCHANGED <<need_resched, curr, waker, armed, ipi, halt, lost>>
      /\ \E to \in {"block", "exit"} : pc' = [pc EXCEPT ![t] = to]
      /\ status' = status \/ status' = [status EXCEPT ![t] = "ZOMBIE"]
  BY DEF SleepDequeue, Exit, Runs
<1>4. Currs' /\ Types'
  BY <1>0, <1>3 DEF Currs, Types
<1>5. NoForgottenTask'
  BY <1>0, <1>2, <1>3 DEF NoForgottenTask, Types
<1>6. PreemptionAlive'
  BY <1>0, <1>3 DEF PreemptionAlive, Types
<1> QED BY <1>2, <1>4, <1>5, <1>6 DEF Kept, IInv

(* The steps that no rq->lock protects: marking, testing, asking, halting. *)
LEMMA UnlockedStep ==
  ASSUME IInv, UNCHANGED <<rq, on_rq, prio, consec_ticks>>,
         Currs' /\ Types' /\ NoForgottenTask' /\ PreemptionAlive'
  PROVE  Kept
BY QuietStep DEF Kept, IInv

(* sleep_on marks the current task, which is not queued. *)
LEMMA SleepMarkStep ==
  ASSUME IInv, NEW t \in Tasks, SleepMark(t) PROVE Kept
<1>0. Currs /\ Types /\ NoForgottenTask /\ PreemptionAlive
  BY DEF IInv
<1>1. Currs' /\ Types'
  BY <1>0 DEF SleepMark, Currs, Types
<1>2. NoForgottenTask' /\ PreemptionAlive'
  BY <1>0 DEF SleepMark, NoForgottenTask, PreemptionAlive, Types
<1> QED BY <1>1, <1>2, UnlockedStep DEF SleepMark

(* The idle task halts, or looks for work. *)
LEMMA IdleStep ==
  ASSUME IInv, NEW c \in CPUs, IdleHalt(c) \/ IdleLoop(c) PROVE Kept
<1>0. Currs /\ Types /\ NoForgottenTask /\ PreemptionAlive
  BY DEF IInv
<1>1. CASE sched(c, need_resched)
  BY <1>0, <1>1, SchedStep DEF Types
<1>2. CASE /\ \E to \in {"wfi", "halting"} : halt' = [halt EXCEPT ![c] = to]
           /\ UNCHANGED <<rq, on_rq, prio, consec_ticks, status, need_resched, curr,
                          pc, waker, armed, ipi, lost>>
  <2>1. Currs' /\ Types' /\ NoForgottenTask' /\ PreemptionAlive'
    BY <1>0, <1>2 DEF Currs, Types, NoForgottenTask, PreemptionAlive
  <2> QED BY <1>2, <2>1, UnlockedStep
<1> QED BY <1>1, <1>2 DEF IdleHalt, IdleLoop

(* The IPI asks the current task to give up the CPU. *)
LEMMA IpiStep ==
  ASSUME IInv, NEW c \in CPUs, ReschedIpi(c) PROVE Kept
<1>0. Currs /\ Types /\ NoForgottenTask /\ PreemptionAlive
  BY DEF IInv
<1>1. Currs' /\ Types'
  BY <1>0 DEF ReschedIpi, Interrupt, Currs, Types
<1>2. NoForgottenTask' /\ PreemptionAlive'
  BY <1>0 DEF ReschedIpi, NoForgottenTask, PreemptionAlive, Types, Currs
<1> QED BY <1>1, <1>2, UnlockedStep DEF ReschedIpi

(* wake_up_process looks at the status. *)
LEMMA WakeCheckStep ==
  ASSUME IInv, NEW w \in Wakers, NEW t \in Tasks, WakeCheck(w, t) PROVE Kept
<1>0. Currs /\ Types /\ NoForgottenTask /\ PreemptionAlive
  BY DEF IInv
<1>1. Currs' /\ Types'
  BY <1>0, RunQueueAssumption DEF WakeCheck, Interrupt, Currs, Types
<1>2. NoForgottenTask'
  <2> SUFFICES ASSUME NEW u \in Tasks, status[u] = "RUNNING", curr[CpuOf[u]] # u, ~on_rq[u]
               PROVE  \E x \in Wakers : waker'[x] = [at |-> "set", task |-> u]
    BY DEF WakeCheck, NoForgottenTask
  <2>1. PICK x \in Wakers : waker[x] = [at |-> "set", task |-> u]
    BY <1>0 DEF NoForgottenTask
  <2>2. waker[x].at = "set" /\ waker[w].at = "none"
    BY <2>1 DEF WakeCheck, NoWake
  <2> QED BY <1>0, <2>1, <2>2 DEF WakeCheck, Types
<1>3. PreemptionAlive'
  BY <1>0 DEF WakeCheck, PreemptionAlive
<1> QED BY <1>1, <1>2, <1>3, UnlockedStep DEF WakeCheck

(* wake_up_process sets RUNNING: the task is the waker's to queue. *)
LEMMA WakeSetStep ==
  ASSUME IInv, NEW w \in Wakers, WakeSet(w) PROVE Kept
<1> DEFINE t == waker[w].task
<1>0. Currs /\ Types /\ NoForgottenTask /\ PreemptionAlive
  BY DEF IInv
<1>1. waker[w] \in [at : {"checked", "set", "queued"}, task : Tasks] /\ waker[w].at = "checked"
  BY <1>0 DEF WakeSet, Types, NoWake
<1>2. /\ waker'[w] = [at |-> "set", task |-> t] /\ t \in Tasks
      /\ waker' \in [Wakers -> {NoWake} \cup [at : {"checked", "set", "queued"}, task : Tasks]]
      /\ \A x \in Wakers : x # w => waker'[x] = waker[x]
  BY <1>0, <1>1 DEF WakeSet, Types
<1>3. /\ status' = [status EXCEPT ![t] = "RUNNING"]
      /\ UNCHANGED <<rq, on_rq, prio, consec_ticks, need_resched, curr, pc, armed, ipi, halt, lost>>
  BY DEF WakeSet
<1> HIDE DEF t
<1>4. Currs' /\ Types'
  BY <1>0, <1>2, <1>3 DEF Currs, Types
<1>5. NoForgottenTask'
  <2> SUFFICES ASSUME NEW u \in Tasks, status'[u] = "RUNNING", curr[CpuOf[u]] # u, ~on_rq[u]
               PROVE  \E x \in Wakers : waker'[x] = [at |-> "set", task |-> u]
    BY <1>3 DEF NoForgottenTask
  <2>1. CASE u = t
    BY <1>2, <2>1
  <2>2. CASE u # t
    <3>1. PICK x \in Wakers : waker[x] = [at |-> "set", task |-> u]
      BY <1>0, <1>3, <2>2 DEF NoForgottenTask, Types
    <3>2. x # w
      BY <1>1, <3>1
    <3> QED BY <1>2, <3>1, <3>2
  <2> QED BY <2>1, <2>2
<1>6. PreemptionAlive'
  BY <1>0, <1>3 DEF PreemptionAlive
<1> QED BY <1>3, <1>4, <1>5, <1>6, UnlockedStep

(* wake_up_process asks the CPU of the task to reschedule. *)
LEMMA WakeReschedStep ==
  ASSUME IInv, NEW w \in Wakers, WakeResched(w) PROVE Kept
<1> DEFINE c == CpuOf[waker[w].task]
<1>0. Currs /\ Types /\ NoForgottenTask /\ PreemptionAlive
  BY DEF IInv
<1>1. waker[w] \in [at : {"checked", "set", "queued"}, task : Tasks] /\ waker[w].at = "queued"
  BY <1>0 DEF WakeResched, Types, NoWake
<1>2. c \in CPUs /\ curr[c] \in Tasks \cup CPUs
  BY <1>0, <1>1, RunQueueAssumption DEF Currs
<1>3. /\ \/ need_resched' = [need_resched EXCEPT ![curr[c]] = TRUE] /\ UNCHANGED ipi
         \/ ipi' = [ipi EXCEPT ![c] = TRUE] /\ UNCHANGED need_resched
      /\ waker' = [waker EXCEPT ![w] = NoWake]
      /\ UNCHANGED <<rq, on_rq, prio, consec_ticks, status, curr, pc, armed, halt, lost>>
  BY DEF WakeResched
<1> HIDE DEF c
<1>4. Currs' /\ Types'
  BY <1>0, <1>2, <1>3 DEF Currs, Types
<1>5. NoForgottenTask'
  <2> SUFFICES ASSUME NEW u \in Tasks, status[u] = "RUNNING", curr[CpuOf[u]] # u, ~on_rq[u]
               PROVE  \E x \in Wakers : waker'[x] = [at |-> "set", task |-> u]
    BY <1>3 DEF NoForgottenTask
  <2>1. PICK x \in Wakers : waker[x] = [at |-> "set", task |-> u]
    BY <1>0 DEF NoForgottenTask
  <2>2. x # w
    BY <1>1, <2>1
  <2> QED BY <1>0, <1>3, <2>1, <2>2 DEF Types
<1>6. PreemptionAlive'
  BY <1>0, <1>2, <1>3 DEF PreemptionAlive, Types
<1> QED BY <1>3, <1>4, <1>5, <1>6, UnlockedStep

-----------------------------------------------------------------------------
(* After sched_init and sched_fork all queues are empty. *)
LEMMA InitIInv == Init => IInv
<1> SUFFICES ASSUME Init PROVE IInv
  OBVIOUS
<1>1. RqType
  <2>1. [l \in Levels |-> <<>>] \in Queues /\ [l \in Levels |-> 0] \in [Levels -> 0 .. AgingTicks]
    BY RunQueueAssumption DEF Queues
  <2> QED BY <2>1 DEF Init, RqType
<1>2. ASSUME NEW c \in CPUs PROVE Sound(c, View(c))
  <2> DEFINE s == View(c)
  <2>1. s = [runnable |-> [l \in Levels |-> <<>>], bitmap |-> {}, nr_running |-> 0,
             age |-> [l \in Levels |-> 0], on_rq |-> [t \in Tasks |-> FALSE],
             prio |-> [t \in Tasks |-> BasePrio], consec |-> [t \in Tasks |-> 0]]
    BY DEF Init, View
  <2> HIDE DEF s
  <2>2. s \in Views
    BY <2>1, LevelFacts, RunQueueAssumption DEF Views, Queues
  <2>3. \A l \in Levels, t \in Tasks : ~In(s.runnable, l, t)
    BY <2>1 DEF In
  <2>4. Once(s.runnable) /\ Placed(c, s)
    BY <2>1, <2>3 DEF Once, Placed, In
  <2>5. Waiting(c, s.on_rq) = {}
    BY <2>1 DEF Waiting
  <2>6. s.nr_running = Cardinality(Waiting(c, s.on_rq))
    BY <2>1, <2>5, FS_EmptySet
  <2>7. Sound(c, s)
    BY <2>2, <2>3, <2>4, <2>6, LevelFacts DEF Sound
  <2> QED BY <2>7 DEF s
<1>3. Currs
  BY RunQueueAssumption DEF Init, Currs
<1>4. Types
  BY DEF Init, Types
<1>5. NoForgottenTask /\ PreemptionAlive
  BY RunQueueAssumption DEF Init, NoForgottenTask, PreemptionAlive
<1> QED BY <1>1, <1>2, <1>3, <1>4, <1>5 DEF IInv, QInv

(* Every step keeps the invariant, and lifts nobody by more than one level. *)
LEMMA IInvStep == IInv /\ [Next]_vars => Kept
<1> SUFFICES ASSUME IInv, [Next]_vars PROVE Kept
  OBVIOUS
<1>0. Currs /\ Types /\ NoForgottenTask /\ PreemptionAlive
  BY DEF IInv
<1>1. ASSUME NEW t \in Tasks, UserReturn(t) \/ yield(t) \/ Leave(t) PROVE Kept
  <2>1. CpuOf[t] \in CPUs /\ curr[CpuOf[t]] = t
    BY <1>1, RunQueueAssumption DEF UserReturn, yield, Leave, Runs
  <2>2. PICK resched : /\ sched(CpuOf[t], resched)
                       /\ resched \in {need_resched, [need_resched EXCEPT ![t] = FALSE]}
    BY <1>1 DEF UserReturn, yield, Leave
  <2>3. /\ resched \in [Tasks \cup CPUs -> BOOLEAN]
        /\ \A u \in Tasks \cup CPUs : u # t => resched[u] = need_resched[u]
    BY <1>0, <2>2 DEF Types
  <2> QED BY <2>1, <2>2, <2>3, SchedStep
<1>2. ASSUME NEW c \in CPUs, CpuStep(c) \/ TimePasses(c) PROVE Kept
  BY <1>2, TickStep, IpiStep, IdleStep, TimeStep DEF CpuStep
<1>3. ASSUME NEW w \in Wakers, WakeStep(w) \/ \E t \in Tasks : WakeCheck(w, t) PROVE Kept
  BY <1>3, WakeSetStep, WakeEnqueueStep, WakeReschedStep, WakeCheckStep DEF WakeStep
<1>4. CASE UNCHANGED vars
  <2>1. Currs' /\ Types' /\ NoForgottenTask' /\ PreemptionAlive'
    BY <1>0, <1>4 DEF vars, Currs, Types, NoForgottenTask, PreemptionAlive
  <2> QED BY <1>4, <2>1, UnlockedStep DEF vars
<1>5. ASSUME NEW t \in Tasks, SleepMark(t) \/ Exit(t) \/ SleepDequeue(t) PROVE Kept
  BY <1>5, SleepMarkStep, LeavingStep
<1>6. Yielders \subseteq Tasks /\ Sleepers \subseteq Tasks
  BY RunQueueAssumption
<1> QED BY <1>1, <1>2, <1>3, <1>4, <1>5, <1>6 DEF Next, TaskStep

(* The inductive invariant holds throughout. *)
LEMMA Invariance == Spec => []IInv
<1>1. IInv /\ [Next]_vars => IInv'
  BY IInvStep DEF Kept
<1> QED BY <1>1, InitIInv, PTL DEF Spec

-----------------------------------------------------------------------------
(* The number of places of a task on the queues of a CPU. *)
LEMMA Occurs ==
  ASSUME IInv, NEW c \in CPUs, NEW t \in Tasks
  PROVE  Occurrences(c, t) = IF on_rq[t] /\ c = CpuOf[t] THEN 1 ELSE 0
<1> DEFINE q == rq[c].runnable
           P(l) == {l} \X {i \in DOMAIN q[l] : q[l][i] = t}
           A == UNION {P(l) : l \in Levels}
<1>1. /\ q \in Queues /\ Once(q)
      /\ (\E l \in Levels : In(q, l, t)) <=> on_rq[t] /\ CpuOf[t] = c
  BY ViewFacts DEF IInv, QInv, Sound, Placed, Views
<1>2. Occurrences(c, t) = Cardinality(A)
  BY DEF Occurrences
<1> HIDE DEF q
<1>3. \A l \in Levels : DOMAIN q[l] = 1 .. Len(q[l])
  BY <1>1 DEF Queues
<1>4. CASE \E l \in Levels : In(q, l, t)
  <2>1. PICK l \in Levels : \E i \in 1 .. Len(q[l]) : q[l][i] = t
    BY <1>4 DEF In
  <2>2. PICK i \in 1 .. Len(q[l]) : q[l][i] = t
    BY <2>1
  <2>3. A = {<<l, i>>}
    BY <1>1, <1>3, <2>2 DEF Once
  <2> QED BY <1>1, <1>2, <1>4, <2>3, FS_Singleton
<1>5. CASE ~\E l \in Levels : In(q, l, t)
  <2>1. A = {}
    BY <1>3, <1>5 DEF In
  <2> QED BY <1>1, <1>2, <1>5, <2>1, FS_EmptySet
<1> QED BY <1>4, <1>5

(***************************************************************************)
(* on_rq keeps its promise for any number of CPUs, tasks and wakers: a     *)
(* task is on its CPU's queues, once, exactly when it is set, whatever the *)
(* order of wake_up_process, the tick, sleep_on and do_exit.               *)
(***************************************************************************)
THEOREM TasksAreQueuedOnce == Spec => []QueuedOnce
<1>1. IInv => QueuedOnce
  <2> SUFFICES ASSUME IInv PROVE QueuedOnce
    OBVIOUS
  <2>1. on_rq \in [Tasks -> BOOLEAN] /\ consec_ticks \in [Tasks -> 0 .. DemoteAfter]
        /\ prio \in [Tasks -> Levels]
    BY RunQueueAssumption, LevelFacts, ViewFacts DEF IInv, QInv, Sound, Views
  <2>2. TypeOK
    BY <2>1 DEF IInv, QInv, RqType, Currs, Types, Queues, TypeOK
  <2>3. \A c \in CPUs :
          rq[c].nr_running = Cardinality({t \in Tasks : CpuOf[t] = c /\ on_rq[t]})
    BY ViewFacts DEF IInv, QInv, Sound, Waiting
  <2> QED BY <2>2, <2>3, Occurs DEF QueuedOnce
<1> QED BY <1>1, Invariance, PTL

(* ctz32 on prio_bitmap finds every level that holds a task. *)
THEOREM BitmapHidesNobody == Spec => []NoHiddenTask
<1>1. IInv => NoHiddenTask
  <2> SUFFICES ASSUME IInv, NEW c \in CPUs, NEW l \in Levels, rq[c].runnable[l] # <<>>
               PROVE  l \in rq[c].bitmap
    BY DEF NoHiddenTask
  <2> DEFINE q == rq[c].runnable[l]
  <2>1. q \in Seq(Tasks) /\ q # <<>>
    BY DEF IInv, QInv, RqType, Queues
  <2> HIDE DEF q
  <2>2. 1 \in 1 .. Len(q) /\ q[1] \in Tasks
    BY <2>1
  <2>3. In(rq[c].runnable, l, q[1])
    BY <2>2 DEF q, In
  <2> QED BY <2>2, <2>3, ViewFacts DEF IInv, QInv, Sound
<1> QED BY <1>1, Invariance, PTL

(* A RUNNING task executes, is queued, or is about to be by the waker that marked it. *)
THEOREM NobodyIsForgotten == Spec => []NoForgottenTask
<1>1. IInv => NoForgottenTask
  BY DEF IInv
<1> QED BY <1>1, Invariance, PTL

(* A CPU that executes a task will hear its timer or is on its way to sched(). *)
THEOREM PreemptionGoesOn == Spec => []PreemptionAlive
<1>1. IInv => PreemptionAlive
  BY DEF IInv
<1> QED BY <1>1, Invariance, PTL

(* rr_aging lifts a task that waits by one level at most, and never to level 0. *)
THEOREM AgingGoesLevelByLevel == Spec => AgingIsGradual
<1> DEFINE A == \A c \in CPUs, l \in Levels, m \in Levels :
                  \A t \in WaitsAt(c, l) \cap WaitsAt(c, m)' : m + 1 >= l /\ m >= BasePrio
<1>1. ASSUME IInv, IInv', NEW c \in CPUs, NEW l \in Levels, NEW t \in WaitsAt(c, l)
      PROVE  t \in Tasks /\ In(rq[c].runnable, l, t)
  <2>1. rq[c].runnable[l] \in Seq(Tasks)
    BY <1>1 DEF IInv, QInv, RqType, Queues
  <2> QED BY <1>1, <2>1 DEF WaitsAt, ToSet, In
<1>2. ASSUME IInv', NEW c \in CPUs, NEW m \in Levels, NEW t \in WaitsAt(c, m)'
      PROVE  t \in Tasks /\ In(rq'[c].runnable, m, t) /\ m >= BasePrio
  <2>1. rq'[c].runnable[m] \in Seq(Tasks)
    BY <1>2 DEF IInv, QInv, RqType, Queues
  <2>2. t \in Tasks /\ In(rq'[c].runnable, m, t)
    BY <1>2, <2>1 DEF WaitsAt, ToSet, In
  <2>3. ~In(rq'[c].runnable, 0, t)
    BY <1>2, <2>2 DEF IInv, QInv, Sound, View, In
  <2>4. m # 0 /\ m \in Nat
    BY <2>2, <2>3, RunQueueAssumption DEF Levels
  <2> QED BY <2>2, <2>4 DEF BasePrio
<1>3. IInv /\ [Next]_vars => [A]_vars
  <2> SUFFICES ASSUME IInv, [Next]_vars PROVE A
    OBVIOUS
  <2>1. Kept
    BY IInvStep
  <2> QED BY <1>1, <1>2, <2>1 DEF Kept, Gradual
<1>4. AgingIsGradual <=> [][A]_vars
  BY DEF AgingIsGradual
<1> QED BY <1>3, <1>4, Invariance, PTL DEF Spec
=============================================================================
