----------------------------- MODULE PipeProofs -----------------------------
(***************************************************************************)
(* The pipes of kernel/pipe.c for every number of pipes and tasks, every   *)
(* buffer size and every length of a call: the ring buffer implements the  *)
(* queue of PipeStream, a pipe is freed once and with nobody in it, and    *)
(* tees do not lock each other out.                                        *)
(***************************************************************************)
EXTENDS Pipe, FiniteSetTheorems, SequenceTheorems, WellFoundedInduction, TLAPS

(* One turn round the ring at most. *)
LEMMA Wrap ==
  ASSUME NEW a \in Index, NEW x \in 0 .. BufSize
  PROVE  /\ (a + x) % BufSize = IF a + x < BufSize THEN a + x ELSE a + x - BufSize
         /\ (a + x) % BufSize \in Index
<1>1. BufSize \in Nat \ {0} /\ a \in 0 .. BufSize - 1
  BY PipeAssumption DEF Index
<1>2. (a + x) % BufSize = IF a + x < BufSize THEN a + x ELSE a + x - BufSize
  BY <1>1
<1> QED BY <1>1, <1>2 DEF Index

(* Going on from where one has wrapped. *)
LEMMA WrapTwice ==
  ASSUME NEW B \in Nat, NEW a \in 0 .. B - 1, NEW c \in Nat, NEW n \in Nat, c + n <= B,
         NEW h, h = IF a + c < B THEN a + c ELSE a + c - B
  PROVE  (IF a + (c + n) < B THEN a + (c + n) ELSE a + (c + n) - B)
           = IF h + n < B THEN h + n ELSE h + n - B
OBVIOUS

(* The n bytes of the ring b from position i on. *)
Ring(b, i, n) == [k \in 1 .. n |-> b[(i + k - 1) % BufSize]]

(* The ring b after the bytes s are copied in at position h. *)
Stored(b, h, s) ==
  [i \in Index |-> IF \E k \in 1 .. Len(s) : i = (h + k - 1) % BufSize
                   THEN s[CHOOSE k \in 1 .. Len(s) : i = (h + k - 1) % BufSize]
                   ELSE b[i]]

(* Where the k-th byte behind position i is. *)
LEMMA Position ==
  ASSUME NEW i \in Index, NEW k \in 1 .. BufSize
  PROVE  /\ (i + k - 1) % BufSize
              = IF i + k - 1 < BufSize THEN i + k - 1 ELSE i + k - 1 - BufSize
         /\ (i + k - 1) % BufSize \in Index
<1>1. k - 1 \in 0 .. BufSize /\ i + k - 1 = i + (k - 1)
  BY PipeAssumption DEF Index
<1> QED BY <1>1, Wrap

(* A part of the ring is a sequence of bytes. *)
LEMMA RingIsSeq ==
  ASSUME NEW b \in [Index -> Bytes], NEW i \in Index, NEW n \in 0 .. BufSize
  PROVE  /\ Ring(b, i, n) \in Seq(Bytes) /\ Len(Ring(b, i, n)) = n
         /\ \A k \in 1 .. n : Ring(b, i, n)[k] = b[(i + k - 1) % BufSize]
<1>1. \A k \in 1 .. n : b[(i + k - 1) % BufSize] \in Bytes
  BY Position, PipeAssumption
<1>2. n \in Nat
  BY PipeAssumption
<1> QED BY <1>1, <1>2 DEF Ring

(* The first bytes of a part of the ring. *)
LEMMA RingPrefix ==
  ASSUME NEW b \in [Index -> Bytes], NEW i \in Index, NEW m \in 0 .. BufSize, NEW n \in 0 .. m
  PROVE  SubSeq(Ring(b, i, m), 1, n) = Ring(b, i, n)
<1> DEFINE r == Ring(b, i, m)
           u == Ring(b, i, n)
<1>1. m \in Nat /\ n \in Nat /\ n \in 0 .. BufSize
  BY PipeAssumption
<1>2. r \in Seq(Bytes) /\ Len(r) = m /\ u \in Seq(Bytes) /\ Len(u) = n
      /\ \A k \in 1 .. n : r[k] = u[k]
  BY <1>1, RingIsSeq
<1> HIDE DEF r, u
<1> DEFINE v == SubSeq(r, 1, n)
<1>3. v \in Seq(Bytes) /\ Len(v) = n /\ \A k \in 1 .. n : v[k] = r[k]
  <2>1. \A k \in 1 .. n : r[k] \in Bytes
    BY <1>1, <1>2
  <2> QED BY <1>1, <2>1, SubSeqProperties
<1> HIDE DEF v
<1>4. v = u
  BY <1>2, <1>3, SeqEqual
<1> QED BY <1>4 DEF v, r, u

(* The bytes behind the first n, which start n positions further on. *)
LEMMA RingRest ==
  ASSUME NEW b \in [Index -> Bytes], NEW i \in Index, NEW m \in 0 .. BufSize, NEW n \in 0 .. m
  PROVE  SubSeq(Ring(b, i, m), n + 1, m) = Ring(b, (i + n) % BufSize, m - n)
<1> DEFINE r == Ring(b, i, m)
           j == (i + n) % BufSize
           u == Ring(b, j, m - n)
<1>1. m \in Nat /\ n \in Nat /\ n \in 0 .. BufSize /\ m - n \in 0 .. BufSize /\ BufSize \in Nat
  BY PipeAssumption
<1>2. j \in Index /\ j = IF i + n < BufSize THEN i + n ELSE i + n - BufSize
  BY <1>1, Wrap
<1>3. r \in Seq(Bytes) /\ Len(r) = m /\ \A k \in 1 .. m : r[k] = b[(i + k - 1) % BufSize]
  BY <1>1, RingIsSeq
<1> HIDE DEF r, j
<1>4. u \in Seq(Bytes) /\ Len(u) = m - n
      /\ \A k \in 1 .. m - n : u[k] = b[(j + k - 1) % BufSize]
  BY <1>1, <1>2, RingIsSeq
<1>5. ASSUME NEW k \in 1 .. m - n PROVE u[k] = r[n + k]
  <2>1. k \in 1 .. BufSize /\ n + k \in 1 .. m /\ n + k \in 1 .. BufSize
    BY <1>1, <1>5
  <2>2. (j + k - 1) % BufSize
          = IF j + k - 1 < BufSize THEN j + k - 1 ELSE j + k - 1 - BufSize
    BY <1>2, <2>1, Position
  <2>3. (i + (n + k) - 1) % BufSize
          = IF i + (n + k) - 1 < BufSize THEN i + (n + k) - 1 ELSE i + (n + k) - 1 - BufSize
    BY <2>1, Position
  <2>4. i \in 0 .. BufSize - 1 /\ j \in 0 .. BufSize - 1
    BY <1>2 DEF Index
  <2>5. (j + k - 1) % BufSize = (i + (n + k) - 1) % BufSize
    BY <1>1, <1>2, <2>1, <2>2, <2>3, <2>4
  <2> QED BY <1>3, <1>4, <2>1, <2>5
<1> HIDE DEF u
<1> DEFINE v == SubSeq(r, n + 1, m)
<1>6. v \in Seq(Bytes) /\ Len(v) = m - n /\ \A k \in 1 .. m - n : v[k] = r[n + k]
  <2>1. \A k \in n + 1 .. m : r[k] \in Bytes
    BY <1>1, <1>3
  <2>2. /\ v \in Seq(Bytes) /\ Len(v) = IF n + 1 <= m THEN m - (n + 1) + 1 ELSE 0
        /\ \A k \in 1 .. m - (n + 1) + 1 : v[k] = r[n + 1 + k - 1]
    BY <1>1, <2>1, SubSeqProperties
  <2> HIDE DEF v
  <2>3. m - (n + 1) + 1 = m - n /\ \A k \in 1 .. m - n : n + 1 + k - 1 = n + k
    BY <1>1
  <2> QED BY <1>1, <2>2, <2>3
<1> HIDE DEF v
<1>7. v = u
  BY <1>1, <1>4, <1>5, <1>6, SeqEqual
<1> QED BY <1>7 DEF v, u, r, j

(* What is stored is behind what was there, which stays as it was. *)
LEMMA RingAppend ==
  ASSUME NEW b \in [Index -> Bytes], NEW i \in Index, NEW m \in 0 .. BufSize,
         NEW s \in Seq(Bytes), m + Len(s) <= BufSize, NEW h \in Index,
         h = IF i + m < BufSize THEN i + m ELSE i + m - BufSize
  PROVE  /\ Stored(b, h, s) \in [Index -> Bytes]
         /\ Ring(Stored(b, h, s), i, m + Len(s)) = Ring(b, i, m) \o s
<1> DEFINE n == Len(s)
           c == Stored(b, h, s)
           At(a, k) == (a + k - 1) % BufSize
<1>1. m \in Nat /\ n \in Nat /\ m + n \in 0 .. BufSize /\ BufSize \in Nat \ {0}
      /\ (\A k \in 1 .. n : s[k] \in Bytes) /\ i \in 0 .. BufSize - 1
  BY PipeAssumption DEF Index
<1>2. /\ h \in Index /\ h \in 0 .. BufSize - 1
      /\ h = IF i + m < BufSize THEN i + m ELSE i + m - BufSize
  BY <1>1 DEF Index
<1>3. \A k \in 1 .. n : At(h, k) = (IF h + k - 1 < BufSize THEN h + k - 1 ELSE h + k - 1 - BufSize)
                        /\ At(h, k) \in Index
  <2> SUFFICES ASSUME NEW k \in 1 .. n
               PROVE  /\ At(h, k) = IF h + k - 1 < BufSize THEN h + k - 1 ELSE h + k - 1 - BufSize
                      /\ At(h, k) \in Index
    OBVIOUS
  <2>1. k \in 1 .. BufSize
    BY <1>1
  <2> QED BY <1>2, <2>1, Position
<1>4. \A k \in 1 .. m + n :
         At(i, k) = (IF i + k - 1 < BufSize THEN i + k - 1 ELSE i + k - 1 - BufSize)
         /\ At(i, k) \in Index
  <2> SUFFICES ASSUME NEW k \in 1 .. m + n
               PROVE  /\ At(i, k) = IF i + k - 1 < BufSize THEN i + k - 1 ELSE i + k - 1 - BufSize
                      /\ At(i, k) \in Index
    OBVIOUS
  <2>1. k \in 1 .. BufSize
    BY <1>1
  <2> QED BY <2>1, Position
<1>5. \A k \in 1 .. n : c[At(h, k)] = s[k]
  <2> SUFFICES ASSUME NEW k \in 1 .. n PROVE c[At(h, k)] = s[k]
    OBVIOUS
  <2> DEFINE x == At(h, k)
             w == CHOOSE kk \in 1 .. n : x = At(h, kk)
  <2>1. x \in Index /\ \E kk \in 1 .. n : x = At(h, kk)
    BY <1>3
  <2>2. w \in 1 .. n /\ x = At(h, w)
    BY <2>1
  <2>3. c[x] = s[w]
    BY <2>1 DEF Stored
  <2> HIDE DEF w
  <2>4. w = k
    <3>1. /\ At(h, k) = IF h + k - 1 < BufSize THEN h + k - 1 ELSE h + k - 1 - BufSize
          /\ At(h, w) = IF h + w - 1 < BufSize THEN h + w - 1 ELSE h + w - 1 - BufSize
          /\ At(h, k) = At(h, w)
      BY <1>3, <2>2
    <3> HIDE DEF At
    <3> QED BY <1>1, <1>2, <2>2, <3>1
  <2> QED BY <2>3, <2>4
<1>6. \A x \in Index : (\A k \in 1 .. n : x # At(h, k)) => c[x] = b[x]
  BY DEF Stored
<1>7. c \in [Index -> Bytes]
  <2>1. ASSUME NEW x \in Index PROVE c[x] \in Bytes
    <3>1. CASE \E k \in 1 .. n : x = At(h, k)
      BY <1>1, <1>5, <3>1
    <3>2. CASE \A k \in 1 .. n : x # At(h, k)
      BY <1>6, <3>2
    <3> QED BY <3>1, <3>2
  <2>2. c = [x \in Index |-> c[x]]
    BY DEF Stored
  <2> HIDE DEF c
  <2> QED BY <2>1, <2>2
<1> HIDE DEF c
<1> DEFINE r == Ring(b, i, m)
           u == Ring(c, i, m + n)
           v == r \o s
<1>8. r \in Seq(Bytes) /\ Len(r) = m /\ \A k \in 1 .. m : r[k] = b[At(i, k)]
  BY RingIsSeq
<1>9. u \in Seq(Bytes) /\ Len(u) = m + n /\ \A k \in 1 .. m + n : u[k] = c[At(i, k)]
  BY <1>1, <1>7, RingIsSeq
<1> HIDE DEF r, u
<1>10. v \in Seq(Bytes) /\ Len(v) = m + n
       /\ \A k \in 1 .. m + n : v[k] = IF k <= m THEN r[k] ELSE s[k - m]
  BY <1>8, ConcatProperties
<1> HIDE DEF v
<1>11. ASSUME NEW k \in 1 .. m + n PROVE u[k] = v[k]
  <2>1. CASE k <= m
    <3>1. k \in 1 .. m
      BY <1>1, <2>1
    <3>2. ASSUME NEW j \in 1 .. n PROVE At(i, k) # At(h, j)
      <4>1. /\ At(i, k) = IF i + k - 1 < BufSize THEN i + k - 1 ELSE i + k - 1 - BufSize
            /\ At(h, j) = IF h + j - 1 < BufSize THEN h + j - 1 ELSE h + j - 1 - BufSize
        BY <1>3, <1>4, <1>11
      <4> HIDE DEF At
      <4> QED BY <1>1, <1>2, <3>1, <4>1
    <3>3. c[At(i, k)] = b[At(i, k)]
      BY <1>4, <1>6, <1>11, <3>2
    <3> QED BY <1>8, <1>9, <1>10, <2>1, <3>1, <3>3
  <2>2. CASE k > m
    <3>1. k - m \in 1 .. n
      BY <1>1, <2>2
    <3>2. At(i, k) = At(h, k - m)
      <4>1. /\ At(i, k) = IF i + k - 1 < BufSize THEN i + k - 1 ELSE i + k - 1 - BufSize
            /\ At(h, k - m)
                 = IF h + (k - m) - 1 < BufSize THEN h + (k - m) - 1 ELSE h + (k - m) - 1 - BufSize
        BY <1>3, <1>4, <1>11, <3>1
      <4> HIDE DEF At
      <4> QED BY <1>1, <1>2, <3>1, <4>1
    <3>3. ~(k <= m)
      BY <1>1, <2>2
    <3> QED BY <1>5, <1>9, <1>10, <3>1, <3>2, <3>3
  <2> QED BY <1>1, <2>1, <2>2
<1>12. u = v
  BY <1>9, <1>10, <1>11, SeqEqual
<1> QED BY <1>7, <1>12 DEF u, v, r, c

-----------------------------------------------------------------------------
(* A task inside a call has asked for something and keeps its files open. *)
Args ==
  /\ arg \in [Tasks -> Nat \cup Seq(Bytes)]
  /\ \A t \in Readers :
       /\ pc[t] \in {"idle", "read", "sleep_read", "sched", "wake_writer"}
       /\ pc[t] # "idle" => arg[t] \in Nat \ {0} /\ t \in rfile[In[t]]
  /\ \A t \in Writers :
       /\ pc[t] \in {"idle", "write", "sleep_write", "sched", "wake_reader"}
       /\ pc[t] # "idle" => arg[t] \in Seq(Bytes) /\ Len(arg[t]) > 0 /\ t \in wfile[Out[t]]
  /\ \A t \in Teers :
       /\ pc[t] \in {"idle", "tee", "tee_second", "sleep_read", "sleep_write", "sched",
                     "wake_reader"}
       /\ pc[t] # "idle" =>
            arg[t] \in Nat \ {0} /\ t \in rfile[In[t]] /\ t \in wfile[Out[t]]

(* Who waits on a queue is asleep, on the queue of its own pipe. *)
Waits ==
  \A p \in Pipes :
    /\ \A i \in 1 .. Len(read_wait[p]) :
         /\ read_wait[p][i] \in Readers \cup Teers
         /\ In[read_wait[p][i]] = p /\ pc[read_wait[p][i]] = "sched"
    /\ \A i \in 1 .. Len(write_wait[p]) :
         /\ write_wait[p][i] \in Writers \cup Teers
         /\ Out[write_wait[p][i]] = p /\ pc[write_wait[p][i]] = "sched"

(* An end that is gone has no file left; without both ends the pipe is freed. *)
Ends ==
  \A p \in Pipes :
    /\ readers[p] = 0 => rfile[p] = {}
    /\ writers[p] = 0 => wfile[p] = {}
    /\ freed[p] = IF readers[p] = 0 /\ writers[p] = 0 THEN 1 ELSE 0

(* A lock is held from one step to the next only by a tee between its two. *)
Locks ==
  /\ \A p \in Pipes : lock[p] # NoTask =>
       lock[p] \in Teers /\ pc[lock[p]] = "tee_second" /\ FirstLock(lock[p]) = p
  /\ \A t \in Teers : pc[t] = "tee_second" => lock[FirstLock(t)] = t

(* head is where count bytes from tail on end. *)
Heads == \A p \in Pipes : head[p] = (tail[p] + count[p]) % BufSize

IInv == TypeOK /\ Args /\ Waits /\ Ends /\ Locks /\ Heads

(* sleep_on, wake_up_one and wake_up_all leave queues of tasks. *)
LEMMA QueueTypes ==
  ASSUME NEW q \in [Pipes -> Seq(Tasks)], NEW p \in Pipes, NEW t \in Tasks
  PROVE  /\ [q EXCEPT ![p] = Append(@, t)] \in [Pipes -> Seq(Tasks)]
         /\ [q EXCEPT ![p] = IF @ = <<>> THEN @ ELSE Tail(@)] \in [Pipes -> Seq(Tasks)]
         /\ [q EXCEPT ![p] = <<>>] \in [Pipes -> Seq(Tasks)]
<1>1. /\ Append(q[p], t) \in Seq(Tasks) /\ <<>> \in Seq(Tasks)
      /\ q[p] # <<>> => Tail(q[p]) \in Seq(Tasks)
  OBVIOUS
<1> DEFINE S == Seq(Tasks)
<1> HIDE DEF S
<1>2. Append(q[p], t) \in S /\ <<>> \in S /\ (IF q[p] = <<>> THEN q[p] ELSE Tail(q[p])) \in S
  BY <1>1 DEF S
<1>3. q \in [Pipes -> S]
  BY DEF S
<1>4. /\ [q EXCEPT ![p] = Append(@, t)] \in [Pipes -> S]
      /\ [q EXCEPT ![p] = IF @ = <<>> THEN @ ELSE Tail(@)] \in [Pipes -> S]
      /\ [q EXCEPT ![p] = <<>>] \in [Pipes -> S]
  BY <1>2, <1>3
<1> QED BY <1>4 DEF S

(* A system call begins. *)
LEMMA CallStep ==
  ASSUME IInv, NEW t \in Tasks,
         (t \in Readers /\ CallRead(t)) \/ (t \in Writers /\ CallWrite(t))
           \/ (t \in Teers /\ CallTee(t))
  PROVE IInv'
<1> USE PipeAssumption
<1>0. TypeOK /\ Args /\ Waits /\ Ends /\ Locks /\ Heads
  BY DEF IInv
<1>1. TypeOK'
  <2>1. pc' \in [Tasks -> PCs]
    BY <1>0 DEF CallRead, CallWrite, CallTee, Call, ring, ends, TypeOK, PCs
  <2> QED BY <1>0, <2>1 DEF CallRead, CallWrite, CallTee, Call, ring, ends, TypeOK
<1>2. Args'
  <2>1. PICK label, a : Call(t, label, a) /\
          \/ /\ t \in Readers /\ label = "read" /\ a \in Nat \ {0} /\ t \in rfile[In[t]]
          \/ /\ t \in Writers /\ label = "write" /\ a \in Seq(Bytes) /\ Len(a) > 0
             /\ t \in wfile[Out[t]]
          \/ /\ t \in Teers /\ label = "tee" /\ a \in Nat \ {0}
             /\ t \in rfile[In[t]] /\ t \in wfile[Out[t]]
    <3>1. CASE t \in Readers /\ CallRead(t)
      BY <3>1 DEF CallRead
    <3>2. CASE t \in Writers /\ CallWrite(t)
      <4>1. PICK n \in WriteLens, a \in Seq(Bytes) : Call(t, "write", a) /\ Len(a) = n
        BY <3>2 DEF CallWrite
      <4> QED BY <3>2, <4>1 DEF CallWrite
    <3>3. CASE t \in Teers /\ CallTee(t)
      BY <3>3 DEF CallTee
    <3> QED BY <3>1, <3>2, <3>3
  <2>2. /\ arg' = [arg EXCEPT ![t] = a] /\ pc' = [pc EXCEPT ![t] = label]
        /\ rfile' = rfile /\ wfile' = wfile
    BY <2>1 DEF Call, ends
  <2>3. a \in Nat \cup Seq(Bytes) /\ arg' \in [Tasks -> Nat \cup Seq(Bytes)]
    BY <1>0, <2>1, <2>2 DEF Args
  <2>4. /\ arg'[t] = a /\ pc'[t] = label
        /\ \A u \in Tasks : u # t => arg'[u] = arg[u] /\ pc'[u] = pc[u]
    BY <1>0, <2>2 DEF Args, TypeOK
  <2> QED BY <1>0, <2>1, <2>2, <2>3, <2>4 DEF Args, Tasks
<1>3. Waits'
  BY <1>0 DEF CallRead, CallWrite, CallTee, Call, ring, ends, Waits, TypeOK, PCs, Tasks, Args
<1>4. Ends'
  BY <1>0 DEF CallRead, CallWrite, CallTee, Call, ring, ends, Ends, TypeOK
<1>5. Locks'
  BY <1>0 DEF CallRead, CallWrite, CallTee, Call, ring, ends, Locks, FirstLock, Least, TypeOK, Tasks
<1>6. Heads'
  BY <1>0 DEF CallRead, CallWrite, CallTee, Call, ring, ends, Heads
<1> QED BY <1>1, <1>2, <1>3, <1>4, <1>5, <1>6 DEF IInv

(* sleep_on of a reader or a tee. *)
LEMMA SleepReadStep ==
  ASSUME IInv, NEW t \in Readers \cup Teers, SleepOnRead(t) PROVE IInv'
<1> USE PipeAssumption
<1>0. TypeOK /\ Args /\ Waits /\ Ends /\ Locks /\ Heads
  BY DEF IInv
<1>1. TypeOK'
  <2>1. pc' \in [Tasks -> PCs]
    BY <1>0 DEF SleepOnRead, Goto, ring, ends, TypeOK, PCs, Tasks
  <2>2. read_wait' \in [Pipes -> Seq(Tasks)]
    <3>1. t \in Tasks
      BY DEF Tasks
    <3> QED BY <1>0, <3>1, QueueTypes DEF SleepOnRead, Goto, ring, ends, TypeOK
  <2> QED BY <1>0, <2>1, <2>2 DEF SleepOnRead, Goto, ring, ends, TypeOK
<1>2. Args'
  BY <1>0 DEF SleepOnRead, Goto, ring, ends, Args, TypeOK, PCs, Tasks
<1>3. Waits'
  BY <1>0 DEF SleepOnRead, Goto, ring, ends, Waits, TypeOK, PCs, Tasks, Args
<1>4. Ends'
  BY <1>0 DEF SleepOnRead, Goto, ring, ends, Ends, TypeOK
<1>5. Locks'
  BY <1>0 DEF SleepOnRead, Goto, ring, ends, Locks, FirstLock, Least, TypeOK, Tasks
<1>6. Heads'
  BY <1>0 DEF SleepOnRead, Goto, ring, ends, Heads
<1> QED BY <1>1, <1>2, <1>3, <1>4, <1>5, <1>6 DEF IInv

(* sleep_on of a writer or a tee. *)
LEMMA SleepWriteStep ==
  ASSUME IInv, NEW t \in Writers \cup Teers, SleepOnWrite(t) PROVE IInv'
<1> USE PipeAssumption
<1>0. TypeOK /\ Args /\ Waits /\ Ends /\ Locks /\ Heads
  BY DEF IInv
<1>1. TypeOK'
  <2>1. pc' \in [Tasks -> PCs]
    BY <1>0 DEF SleepOnWrite, Goto, ring, ends, TypeOK, PCs, Tasks
  <2>2. write_wait' \in [Pipes -> Seq(Tasks)]
    <3>1. t \in Tasks
      BY DEF Tasks
    <3> QED BY <1>0, <3>1, QueueTypes DEF SleepOnWrite, Goto, ring, ends, TypeOK
  <2> QED BY <1>0, <2>1, <2>2 DEF SleepOnWrite, Goto, ring, ends, TypeOK
<1>2. Args'
  BY <1>0 DEF SleepOnWrite, Goto, ring, ends, Args, TypeOK, PCs, Tasks
<1>3. Waits'
  BY <1>0 DEF SleepOnWrite, Goto, ring, ends, Waits, TypeOK, PCs, Tasks, Args
<1>4. Ends'
  BY <1>0 DEF SleepOnWrite, Goto, ring, ends, Ends, TypeOK
<1>5. Locks'
  BY <1>0 DEF SleepOnWrite, Goto, ring, ends, Locks, FirstLock, Least, TypeOK, Tasks
<1>6. Heads'
  BY <1>0 DEF SleepOnWrite, Goto, ring, ends, Heads
<1> QED BY <1>1, <1>2, <1>3, <1>4, <1>5, <1>6 DEF IInv

(* sched() returns to a task that was taken off its queue. *)
LEMMA ResumeStep ==
  ASSUME IInv, NEW t \in Tasks, Resume(t) PROVE IInv'
<1> USE PipeAssumption
<1>0. TypeOK /\ Args /\ Waits /\ Ends /\ Locks /\ Heads
  BY DEF IInv
<1>1. TypeOK'
  BY <1>0 DEF Resume, Asleep, Goto, ring, ends, TypeOK, PCs, Tasks, Args
<1>2. Args'
  BY <1>0 DEF Resume, Asleep, Goto, ring, ends, Args, TypeOK, PCs, Tasks
<1>3. Waits'
  BY <1>0 DEF Resume, Asleep, Goto, ring, ends, Waits, TypeOK, PCs, Tasks, Args
<1>4. Ends'
  BY <1>0 DEF Resume, Asleep, Goto, ring, ends, Ends, TypeOK
<1>5. Locks'
  BY <1>0 DEF Resume, Asleep, Goto, ring, ends, Locks, FirstLock, Least, TypeOK, Tasks
<1>6. Heads'
  BY <1>0 DEF Resume, Asleep, Goto, ring, ends, Heads
<1> QED BY <1>1, <1>2, <1>3, <1>4, <1>5, <1>6 DEF IInv

(* A read wakes a writer and returns. *)
LEMMA WakeWriterStep ==
  ASSUME IInv, NEW t \in Readers, WakeWriter(t) PROVE IInv'
<1> USE PipeAssumption
<1>0. TypeOK /\ Args /\ Waits /\ Ends /\ Locks /\ Heads
  BY DEF IInv
<1>1. TypeOK'
  <2>1. pc' \in [Tasks -> PCs]
    BY <1>0 DEF WakeWriter, WakeOne, Return, ring, ends, TypeOK, PCs, Tasks
  <2>2. write_wait' \in [Pipes -> Seq(Tasks)]
    <3>1. t \in Tasks
      BY DEF Tasks
    <3> QED BY <1>0, <3>1, QueueTypes DEF WakeWriter, WakeOne, Return, ring, ends, TypeOK
  <2> QED BY <1>0, <2>1, <2>2 DEF WakeWriter, WakeOne, Return, ring, ends, TypeOK
<1>2. Args'
  BY <1>0 DEF WakeWriter, WakeOne, Return, ring, ends, Args, TypeOK, PCs, Tasks
<1>3. Waits'
  BY <1>0 DEF WakeWriter, WakeOne, Return, ring, ends, Waits, TypeOK, PCs, Tasks, Args
<1>4. Ends'
  BY <1>0 DEF WakeWriter, WakeOne, Return, ring, ends, Ends, TypeOK
<1>5. Locks'
  BY <1>0 DEF WakeWriter, WakeOne, Return, ring, ends, Locks, FirstLock, Least, TypeOK, Tasks
<1>6. Heads'
  BY <1>0 DEF WakeWriter, WakeOne, Return, ring, ends, Heads
<1> QED BY <1>1, <1>2, <1>3, <1>4, <1>5, <1>6 DEF IInv

(* A write or a tee wakes a reader and returns. *)
LEMMA WakeReaderStep ==
  ASSUME IInv, NEW t \in Writers \cup Teers, WakeReader(t) PROVE IInv'
<1> USE PipeAssumption
<1>0. TypeOK /\ Args /\ Waits /\ Ends /\ Locks /\ Heads
  BY DEF IInv
<1>1. TypeOK'
  <2>1. pc' \in [Tasks -> PCs]
    BY <1>0 DEF WakeReader, WakeOne, Return, ring, ends, TypeOK, PCs, Tasks
  <2>2. read_wait' \in [Pipes -> Seq(Tasks)]
    <3>1. t \in Tasks
      BY DEF Tasks
    <3> QED BY <1>0, <3>1, QueueTypes DEF WakeReader, WakeOne, Return, ring, ends, TypeOK
  <2> QED BY <1>0, <2>1, <2>2 DEF WakeReader, WakeOne, Return, ring, ends, TypeOK
<1>2. Args'
  BY <1>0 DEF WakeReader, WakeOne, Return, ring, ends, Args, TypeOK, PCs, Tasks
<1>3. Waits'
  BY <1>0 DEF WakeReader, WakeOne, Return, ring, ends, Waits, TypeOK, PCs, Tasks, Args
<1>4. Ends'
  BY <1>0 DEF WakeReader, WakeOne, Return, ring, ends, Ends, TypeOK
<1>5. Locks'
  BY <1>0 DEF WakeReader, WakeOne, Return, ring, ends, Locks, FirstLock, Least, TypeOK, Tasks
<1>6. Heads'
  BY <1>0 DEF WakeReader, WakeOne, Return, ring, ends, Heads
<1> QED BY <1>1, <1>2, <1>3, <1>4, <1>5, <1>6 DEF IInv

(* pipe_lock_pair takes the first lock. *)
LEMMA LockFirstStep ==
  ASSUME IInv, NEW t \in Teers, LockFirst(t) PROVE IInv'
<1> USE PipeAssumption
<1>0. TypeOK /\ Args /\ Waits /\ Ends /\ Locks /\ Heads
  BY DEF IInv
<1>1. TypeOK'
  BY <1>0 DEF LockFirst, Goto, ring, ends, TypeOK, PCs, Tasks, Args
<1>2. Args'
  BY <1>0 DEF LockFirst, Goto, ring, ends, Args, TypeOK, PCs, Tasks
<1>3. Waits'
  BY <1>0 DEF LockFirst, Goto, ring, ends, Waits, TypeOK, PCs, Tasks, Args
<1>4. Ends'
  BY <1>0 DEF LockFirst, Goto, ring, ends, Ends, TypeOK
<1>5. Locks'
  BY <1>0 DEF LockFirst, Goto, ring, ends, Locks, FirstLock, Least, TypeOK, Tasks
<1>6. Heads'
  BY <1>0 DEF LockFirst, Goto, ring, ends, Heads
<1> QED BY <1>1, <1>2, <1>3, <1>4, <1>5, <1>6 DEF IInv

(* The read end is closed. *)
LEMMA CloseReadStep ==
  ASSUME IInv, NEW t \in Readers \cup Teers, CloseRead(t) PROVE IInv'
<1> USE PipeAssumption
<1>0. TypeOK /\ Args /\ Waits /\ Ends /\ Locks /\ Heads
  BY DEF IInv
<1>1. TypeOK'
  <2>1. write_wait' \in [Pipes -> Seq(Tasks)]
    <3>1. t \in Tasks /\ In[t] \in Pipes /\ write_wait \in [Pipes -> Seq(Tasks)]
      BY <1>0 DEF Tasks, TypeOK
    <3>2. write_wait' = write_wait \/ write_wait' = [write_wait EXCEPT ![In[t]] = <<>>]
      BY DEF CloseRead, FreeIfUnused, ring
    <3>3. [write_wait EXCEPT ![In[t]] = <<>>] \in [Pipes -> Seq(Tasks)]
      BY <3>1, QueueTypes
    <3> QED BY <3>1, <3>2, <3>3, Zenon
  <2>2. freed' \in [Pipes -> Nat]
    BY <1>0 DEF CloseRead, FreeIfUnused, ring, TypeOK, Tasks
  <2>3. rfile' \in [Pipes -> SUBSET (Readers \cup Teers)] /\ readers' \in [Pipes -> {0, 1}] /\ writers' = writers
    BY <1>0 DEF CloseRead, FreeIfUnused, ring, TypeOK
  <2> QED BY <1>0, <2>1, <2>2, <2>3 DEF CloseRead, FreeIfUnused, ring, TypeOK
<1>2. Args'
  BY <1>0 DEF CloseRead, FreeIfUnused, ring, Args, TypeOK, PCs, Tasks
<1>3. Waits'
  BY <1>0 DEF CloseRead, FreeIfUnused, ring, Waits, TypeOK, PCs, Tasks, Args
<1>4. Ends'
  BY <1>0 DEF CloseRead, FreeIfUnused, ring, Ends, TypeOK
<1>5. Locks'
  BY <1>0 DEF CloseRead, FreeIfUnused, ring, Locks, FirstLock, Least, TypeOK, Tasks
<1>6. Heads'
  BY <1>0 DEF CloseRead, FreeIfUnused, ring, Heads
<1> QED BY <1>1, <1>2, <1>3, <1>4, <1>5, <1>6 DEF IInv

(* The write end is closed. *)
LEMMA CloseWriteStep ==
  ASSUME IInv, NEW t \in Writers \cup Teers, CloseWrite(t) PROVE IInv'
<1> USE PipeAssumption
<1>0. TypeOK /\ Args /\ Waits /\ Ends /\ Locks /\ Heads
  BY DEF IInv
<1>1. TypeOK'
  <2>1. read_wait' \in [Pipes -> Seq(Tasks)]
    <3>1. t \in Tasks /\ Out[t] \in Pipes /\ read_wait \in [Pipes -> Seq(Tasks)]
      BY <1>0 DEF Tasks, TypeOK
    <3>2. read_wait' = read_wait \/ read_wait' = [read_wait EXCEPT ![Out[t]] = <<>>]
      BY DEF CloseWrite, FreeIfUnused, ring
    <3>3. [read_wait EXCEPT ![Out[t]] = <<>>] \in [Pipes -> Seq(Tasks)]
      BY <3>1, QueueTypes
    <3> QED BY <3>1, <3>2, <3>3, Zenon
  <2>2. freed' \in [Pipes -> Nat]
    BY <1>0 DEF CloseWrite, FreeIfUnused, ring, TypeOK, Tasks
  <2>3. wfile' \in [Pipes -> SUBSET (Writers \cup Teers)] /\ writers' \in [Pipes -> {0, 1}] /\ readers' = readers
    BY <1>0 DEF CloseWrite, FreeIfUnused, ring, TypeOK
  <2> QED BY <1>0, <2>1, <2>2, <2>3 DEF CloseWrite, FreeIfUnused, ring, TypeOK
<1>2. Args'
  BY <1>0 DEF CloseWrite, FreeIfUnused, ring, Args, TypeOK, PCs, Tasks
<1>3. Waits'
  BY <1>0 DEF CloseWrite, FreeIfUnused, ring, Waits, TypeOK, PCs, Tasks, Args
<1>4. Ends'
  BY <1>0 DEF CloseWrite, FreeIfUnused, ring, Ends, TypeOK
<1>5. Locks'
  BY <1>0 DEF CloseWrite, FreeIfUnused, ring, Locks, FirstLock, Least, TypeOK, Tasks
<1>6. Heads'
  BY <1>0 DEF CloseWrite, FreeIfUnused, ring, Heads
<1> QED BY <1>1, <1>2, <1>3, <1>4, <1>5, <1>6 DEF IInv

-----------------------------------------------------------------------------
(* The bytes in a pipe, as the refinement sees them. *)
Queue == [p \in Pipes |-> Slice(p, tail[p], count[p])]

(* What the pointers and the counter of a pipe say. *)
RingOK ==
  /\ buf \in [Pipes -> [Index -> Bytes]]
  /\ head \in [Pipes -> Index] /\ tail \in [Pipes -> Index]
  /\ count \in [Pipes -> 0 .. BufSize]
  /\ Heads

(* The bytes of a pipe are a sequence as long as count says. *)
LEMMA QueueType ==
  ASSUME RingOK, NEW p \in Pipes
  PROVE  /\ Queue[p] \in Seq(Bytes) /\ Len(Queue[p]) = count[p]
         /\ Queue[p] = Ring(buf[p], tail[p], count[p])
<1>1. Queue[p] = Ring(buf[p], tail[p], count[p])
  BY DEF Queue, Slice, Ring
<1>2. buf[p] \in [Index -> Bytes] /\ tail[p] \in Index /\ count[p] \in 0 .. BufSize
  BY DEF RingOK
<1> QED BY <1>1, <1>2, RingIsSeq

(* __pipe_read takes n bytes off the front. *)
LEMMA FetchFacts ==
  ASSUME RingOK, NEW t, NEW p \in Pipes, NEW n \in 0 .. count[p], Fetch(t, p, n)
  PROVE  /\ RingOK'
         /\ Queue' = [Queue EXCEPT ![p] = SubSeq(@, n + 1, Len(@))]
         /\ got' = [got EXCEPT ![t] = SubSeq(Queue[p], 1, n)]
<1>1. /\ buf[p] \in [Index -> Bytes] /\ tail[p] \in Index /\ count[p] \in 0 .. BufSize
      /\ head[p] = (tail[p] + count[p]) % BufSize /\ count[p] \in Nat /\ BufSize \in Nat \ {0}
  BY PipeAssumption DEF RingOK, Heads
<1>2. n \in 0 .. BufSize /\ count[p] - n \in 0 .. BufSize
  BY <1>1
<1>3. /\ (tail[p] + n) % BufSize \in Index
      /\ (tail[p] + n) % BufSize = IF tail[p] + n < BufSize THEN tail[p] + n
                                   ELSE tail[p] + n - BufSize
  BY <1>1, <1>2, Wrap
<1>4. /\ buf' = buf /\ head' = head
      /\ tail' = [tail EXCEPT ![p] = (@ + n) % BufSize]
      /\ count' = [count EXCEPT ![p] = @ - n]
      /\ got' = [got EXCEPT ![t] = Slice(p, tail[p], n)]
  BY DEF Fetch
<1>5. /\ tail' \in [Pipes -> Index] /\ count' \in [Pipes -> 0 .. BufSize]
      /\ tail'[p] = (tail[p] + n) % BufSize /\ count'[p] = count[p] - n
      /\ \A r \in Pipes : r # p => tail'[r] = tail[r] /\ count'[r] = count[r]
  BY <1>2, <1>3, <1>4 DEF RingOK
<1>6. (tail'[p] + count'[p]) % BufSize = (tail[p] + count[p]) % BufSize
  <2> DEFINE a == (tail[p] + n) % BufSize
  <2>1. a \in Index /\ a = IF tail[p] + n < BufSize THEN tail[p] + n ELSE tail[p] + n - BufSize
    BY <1>3
  <2>2. tail'[p] = a
    BY <1>5
  <2> HIDE DEF a
  <2>3. (a + (count[p] - n)) % BufSize
          = IF a + (count[p] - n) < BufSize THEN a + (count[p] - n)
            ELSE a + (count[p] - n) - BufSize
    BY <1>2, <2>1, Wrap
  <2>4. (tail[p] + count[p]) % BufSize
          = IF tail[p] + count[p] < BufSize THEN tail[p] + count[p]
            ELSE tail[p] + count[p] - BufSize
    BY <1>1, Wrap
  <2>5. a \in 0 .. BufSize - 1 /\ tail[p] \in 0 .. BufSize - 1
    BY <1>1, <2>1 DEF Index
  <2> QED BY <1>1, <1>2, <1>5, <2>1, <2>2, <2>3, <2>4, <2>5, SMTT(30)
<1>7. RingOK'
  BY <1>1, <1>4, <1>5, <1>6 DEF RingOK, Heads
<1>8. Queue'[p] = SubSeq(Queue[p], n + 1, Len(Queue[p]))
  <2>1. Queue'[p] = Ring(buf[p], (tail[p] + n) % BufSize, count[p] - n)
    BY <1>4, <1>5 DEF Queue, Slice, Ring
  <2>2. SubSeq(Ring(buf[p], tail[p], count[p]), n + 1, count[p])
          = Ring(buf[p], (tail[p] + n) % BufSize, count[p] - n)
    BY <1>1, RingRest
  <2> QED BY <2>1, <2>2, QueueType
<1>9. \A r \in Pipes : r # p => Queue'[r] = Queue[r]
  BY <1>4, <1>5 DEF Queue, Slice
<1>10. Queue' = [Queue EXCEPT ![p] = SubSeq(@, n + 1, Len(@))]
  <2> DEFINE e == SubSeq(Queue[p], n + 1, Len(Queue[p]))
  <2>1. Queue' = [r \in Pipes |-> Queue'[r]] /\ Queue = [r \in Pipes |-> Queue[r]]
    BY DEF Queue
  <2>2. Queue'[p] = e
    BY <1>8
  <2> HIDE DEF e
  <2>3. Queue' = [Queue EXCEPT ![p] = e]
    BY <1>9, <2>1, <2>2
  <2> QED BY <2>3 DEF e
<1>11. Slice(p, tail[p], n) = SubSeq(Queue[p], 1, n)
  <2>1. Slice(p, tail[p], n) = Ring(buf[p], tail[p], n)
    BY DEF Slice, Ring
  <2>2. Queue[p] = Ring(buf[p], tail[p], count[p])
    BY <1>1, QueueType
  <2>3. Ring(buf[p], tail[p], n) = SubSeq(Ring(buf[p], tail[p], count[p]), 1, n)
    BY <1>1, RingPrefix
  <2> QED BY <2>1, <2>2, <2>3
<1> QED BY <1>4, <1>7, <1>10, <1>11

(* __pipe_write and pipe_tee put the bytes s behind the others. *)
LEMMA StoreFacts ==
  ASSUME RingOK, NEW p \in Pipes, NEW s \in Seq(Bytes), count[p] + Len(s) <= BufSize, Store(p, s)
  PROVE  /\ RingOK'
         /\ Queue' = [Queue EXCEPT ![p] = @ \o s]
<1> DEFINE n == Len(s)
           b == Stored(buf[p], head[p], s)
<1>1. /\ buf[p] \in [Index -> Bytes] /\ tail[p] \in Index /\ count[p] \in 0 .. BufSize
      /\ head[p] \in Index /\ head[p] = (tail[p] + count[p]) % BufSize
      /\ count[p] \in Nat /\ BufSize \in Nat \ {0} /\ n \in Nat
  BY PipeAssumption DEF RingOK, Heads
<1>2. n \in 0 .. BufSize /\ count[p] + n \in 0 .. BufSize
  BY <1>1
<1>3. /\ (head[p] + n) % BufSize \in Index
      /\ (head[p] + n) % BufSize = IF head[p] + n < BufSize THEN head[p] + n
                                   ELSE head[p] + n - BufSize
  BY <1>1, <1>2, Wrap
<1>4. /\ buf' = [buf EXCEPT ![p] = b] /\ tail' = tail
      /\ head' = [head EXCEPT ![p] = (@ + n) % BufSize]
      /\ count' = [count EXCEPT ![p] = @ + n]
  BY <1>1 DEF Store, Stored
<1>5. b \in [Index -> Bytes] /\ Ring(b, tail[p], count[p] + n) = Ring(buf[p], tail[p], count[p]) \o s
  <2>1. head[p] = IF tail[p] + count[p] < BufSize THEN tail[p] + count[p]
                  ELSE tail[p] + count[p] - BufSize
    BY <1>1, Wrap
  <2> DEFINE c == buf[p]
             i == tail[p]
             m == count[p]
             h == head[p]
  <2>2. /\ c \in [Index -> Bytes] /\ i \in Index /\ m \in 0 .. BufSize /\ h \in Index
        /\ m + Len(s) <= BufSize /\ h = IF i + m < BufSize THEN i + m ELSE i + m - BufSize
    BY <1>1, <2>1
  <2> HIDE DEF c, i, m, h
  <2>3. Stored(c, h, s) \in [Index -> Bytes] /\ Ring(Stored(c, h, s), i, m + Len(s)) = Ring(c, i, m) \o s
    BY <2>2, RingAppend, SMTT(30)
  <2> QED BY <2>3 DEF c, i, m, h
<1> HIDE DEF b
<1>6. /\ buf' \in [Pipes -> [Index -> Bytes]] /\ head' \in [Pipes -> Index]
      /\ count' \in [Pipes -> 0 .. BufSize]
      /\ buf'[p] = b /\ head'[p] = (head[p] + n) % BufSize /\ count'[p] = count[p] + n
      /\ \A r \in Pipes : r # p => buf'[r] = buf[r] /\ head'[r] = head[r] /\ count'[r] = count[r]
  BY <1>2, <1>3, <1>4, <1>5 DEF RingOK
<1>7. (tail[p] + (count[p] + n)) % BufSize = (head[p] + n) % BufSize
  <2>1. (tail[p] + (count[p] + n)) % BufSize
          = IF tail[p] + (count[p] + n) < BufSize THEN tail[p] + (count[p] + n)
            ELSE tail[p] + (count[p] + n) - BufSize
    BY <1>1, <1>2, Wrap
  <2>2. head[p] = IF tail[p] + count[p] < BufSize THEN tail[p] + count[p]
                  ELSE tail[p] + count[p] - BufSize
    BY <1>1, Wrap
  <2>3. head[p] \in 0 .. BufSize - 1 /\ tail[p] \in 0 .. BufSize - 1
    BY <1>1 DEF Index
  <2> DEFINE a == tail[p]
             m == count[p]
             h == head[p]
  <2>4. /\ a \in 0 .. BufSize - 1 /\ m \in Nat /\ n \in Nat /\ m + n <= BufSize /\ BufSize \in Nat
        /\ h = IF a + m < BufSize THEN a + m ELSE a + m - BufSize
    BY <1>1, <2>2, <2>3
  <2>5. /\ (a + (m + n)) % BufSize
             = IF a + (m + n) < BufSize THEN a + (m + n) ELSE a + (m + n) - BufSize
        /\ (h + n) % BufSize = IF h + n < BufSize THEN h + n ELSE h + n - BufSize
    BY <1>3, <2>1
  <2> HIDE DEF a, m, h, n
  <2>6. (IF a + (m + n) < BufSize THEN a + (m + n) ELSE a + (m + n) - BufSize)
          = IF h + n < BufSize THEN h + n ELSE h + n - BufSize
    BY <2>4, WrapTwice
  <2>7. (a + (m + n)) % BufSize = (h + n) % BufSize
    BY <2>5, <2>6
  <2> QED BY <2>7 DEF a, m, h
<1>8. RingOK'
  BY <1>4, <1>6, <1>7 DEF RingOK, Heads
<1>9. Queue'[p] = Queue[p] \o s
  <2>1. Queue'[p] = Ring(b, tail[p], count[p] + n)
    BY <1>4, <1>6 DEF Queue, Slice, Ring
  <2> QED BY <1>5, <2>1, QueueType
<1>10. \A r \in Pipes : r # p => Queue'[r] = Queue[r]
  BY <1>4, <1>6 DEF Queue, Slice
<1>11. Queue' = [Queue EXCEPT ![p] = @ \o s]
  <2> DEFINE e == Queue[p] \o s
  <2>1. Queue' = [r \in Pipes |-> Queue'[r]] /\ Queue = [r \in Pipes |-> Queue[r]]
    BY DEF Queue
  <2>2. Queue'[p] = e
    BY <1>9
  <2> HIDE DEF e
  <2>3. Queue' = [Queue EXCEPT ![p] = e]
    BY <1>10, <2>1, <2>2
  <2> QED BY <2>3 DEF e
<1> QED BY <1>8, <1>11

(* The invariant says what the ring lemmas need, and is kept by them. *)
LEMMA RingOfInv == IInv => RingOK
BY DEF IInv, TypeOK, RingOK

(* A turn that leaves every queue of tasks and every file alone. *)
LEMMA TurnStep ==
  ASSUME IInv, RingOK', NEW t \in Tasks, NEW label \in PCs,
         pc' = [pc EXCEPT ![t] = label], arg' = [arg EXCEPT ![t] = <<>>] \/ arg' = arg,
         label = "idle" \/ arg' = arg, pc[t] # "idle", pc[t] # "sched",
         UNCHANGED <<readers, writers, rfile, wfile, freed, read_wait, write_wait>>,
         lock' \in [Pipes -> Tasks \cup {NoTask}], Locks',
         t \in Readers => label \in {"idle", "sleep_read", "wake_writer"},
         t \in Writers => label \in {"idle", "sleep_write", "wake_reader"},
         t \in Teers => label \in {"idle", "sleep_read", "sleep_write", "wake_reader"}
  PROVE  IInv'
<1>0. TypeOK /\ Args /\ Waits /\ Ends
  BY DEF IInv
<1>1. TypeOK'
  BY <1>0 DEF TypeOK, RingOK
<1>2. Args'
  <2>1. arg' \in [Tasks -> Nat \cup Seq(Bytes)]
    <3>1. <<>> \in Nat \cup Seq(Bytes) /\ arg \in [Tasks -> Nat \cup Seq(Bytes)]
      BY <1>0 DEF Args
    <3> QED BY <3>1
  <2>2. /\ \A u \in Tasks : u # t => pc'[u] = pc[u] /\ arg'[u] = arg[u]
        /\ pc'[t] = label /\ (label # "idle" => arg'[t] = arg[t])
    BY <1>0 DEF Args, TypeOK
  <2>3. rfile' = rfile /\ wfile' = wfile /\ Args
    BY <1>0
  <2>4. \A u \in Tasks : pc'[u] # "idle" => pc[u] # "idle" /\ arg'[u] = arg[u]
    BY <2>2
  <2>5. \A u \in Readers :
          /\ pc'[u] \in {"idle", "read", "sleep_read", "sched", "wake_writer"}
          /\ pc'[u] # "idle" => arg'[u] \in Nat \ {0} /\ u \in rfile'[In[u]]
    BY <2>2, <2>3, <2>4 DEF Args, Tasks
  <2>6. \A u \in Writers :
          /\ pc'[u] \in {"idle", "write", "sleep_write", "sched", "wake_reader"}
          /\ pc'[u] # "idle" => arg'[u] \in Seq(Bytes) /\ Len(arg'[u]) > 0 /\ u \in wfile'[Out[u]]
    BY <2>2, <2>3, <2>4 DEF Args, Tasks
  <2>7. \A u \in Teers :
          /\ pc'[u] \in {"idle", "tee", "tee_second", "sleep_read", "sleep_write", "sched",
                         "wake_reader"}
          /\ pc'[u] # "idle" =>
               arg'[u] \in Nat \ {0} /\ u \in rfile'[In[u]] /\ u \in wfile'[Out[u]]
    BY <2>2, <2>3, <2>4 DEF Args, Tasks
  <2> QED BY <2>1, <2>5, <2>6, <2>7 DEF Args
<1>3. Waits'
  BY <1>0 DEF Waits, Tasks, TypeOK
<1>4. Ends'
  BY <1>0 DEF Ends
<1> QED BY <1>1, <1>2, <1>3, <1>4 DEF IInv, RingOK

(* The lesser of two numbers. *)
LEMMA LeastFacts ==
  ASSUME NEW a \in Nat, NEW b \in Nat
  PROVE  /\ Least(a, b) \in Nat /\ Least(a, b) <= a /\ Least(a, b) <= b
         /\ a > 0 /\ b > 0 => Least(a, b) > 0
BY DEF Least

(* One turn of __pipe_read is a read of the queue, its end, or nothing. *)
LEMMA ReadTurn ==
  ASSUME IInv, NEW t \in Readers, Read(t)
  PROVE  /\ IInv'
         /\ \/ /\ \E n \in 1 .. Len(Queue[In[t]]) :
                    /\ Queue' = [Queue EXCEPT ![In[t]] = SubSeq(@, n + 1, Len(@))]
                    /\ got' = [got EXCEPT ![t] = SubSeq(Queue[In[t]], 1, n)]
               /\ arg' = arg
            \/ Queue[In[t]] = <<>> /\ got' = [got EXCEPT ![t] = <<>>] /\ Queue' = Queue
            \/ UNCHANGED <<Queue, got>>
<1> DEFINE p == In[t]
<1>0. /\ RingOK /\ p \in Pipes /\ t \in Tasks /\ pc[t] = "read" /\ arg[t] \in Nat \ {0}
      /\ TypeOK /\ Locks /\ pc \in [Tasks -> PCs]
  BY PipeAssumption, RingOfInv DEF IInv, Read, Args, Tasks, TypeOK
<1>1. lock' = lock /\ UNCHANGED <<readers, writers, rfile, wfile, freed, read_wait, write_wait>>
  BY DEF Read, ends
<1>2. Queue[p] \in Seq(Bytes) /\ Len(Queue[p]) = count[p] /\ count[p] \in Nat
  <2>1. count[p] \in 0 .. BufSize
    BY <1>0 DEF RingOK
  <2>2. BufSize \in Nat
    BY PipeAssumption
  <2> HIDE DEF p
  <2>3. Queue[p] \in Seq(Bytes) /\ Len(Queue[p]) = count[p]
    BY <1>0, QueueType
  <2> QED BY <2>1, <2>2, <2>3
<1>3. ASSUME NEW label, pc' = [pc EXCEPT ![t] = label], label # "tee_second" PROVE Locks'
  BY <1>0, <1>1, <1>3, PipeAssumption DEF Locks
<1>4. CASE count[p] > 0 /\ Fetch(t, p, Least(arg[t], count[p])) /\ Goto(t, "wake_writer")
  <2> DEFINE n == Least(arg[t], count[p])
  <2>1. n \in 1 .. count[p] /\ n \in 0 .. count[p]
    BY <1>0, <1>2, <1>4 DEF Least
  <2>0. Fetch(t, p, n)
    BY <1>4
  <2> HIDE DEF n, p
  <2>2. /\ RingOK' /\ Queue' = [Queue EXCEPT ![p] = SubSeq(@, n + 1, Len(@))]
        /\ got' = [got EXCEPT ![t] = SubSeq(Queue[p], 1, n)]
    BY <1>0, <2>0, <2>1, FetchFacts
  <2>3. pc' = [pc EXCEPT ![t] = "wake_writer"] /\ arg' = arg
    BY <1>4 DEF Goto
  <2>4. IInv'
    BY <1>0, <1>1, <1>3, <2>2, <2>3, TurnStep, PipeAssumption DEF PCs, TypeOK
  <2> QED BY <1>2, <2>1, <2>2, <2>3, <2>4 DEF p
<1>5. CASE /\ count[p] = 0 /\ got' = [got EXCEPT ![t] = <<>>] /\ Return(t) /\ UNCHANGED ring
  <2>1. RingOK' /\ Queue' = Queue
    BY <1>0, <1>5 DEF RingOK, Heads, ring, Queue, Slice
  <2>2. pc' = [pc EXCEPT ![t] = "idle"] /\ arg' = [arg EXCEPT ![t] = <<>>]
    BY <1>5 DEF Return
  <2>3. IInv'
    BY <1>0, <1>1, <1>3, <2>1, <2>2, TurnStep, PipeAssumption DEF PCs, TypeOK
  <2>4. Queue[p] = <<>>
    BY <1>2, <1>5
  <2> QED BY <1>5, <2>1, <2>3, <2>4
<1>6. CASE Goto(t, "sleep_read") /\ UNCHANGED <<ring, got>>
  <2>1. RingOK' /\ Queue' = Queue
    BY <1>0, <1>6 DEF RingOK, Heads, ring, Queue, Slice
  <2>2. pc' = [pc EXCEPT ![t] = "sleep_read"] /\ arg' = arg
    BY <1>6 DEF Goto
  <2>3. IInv'
    BY <1>0, <1>1, <1>3, <2>1, <2>2, TurnStep, PipeAssumption DEF PCs, TypeOK
  <2> QED BY <1>6, <2>1, <2>3
<1> QED BY <1>4, <1>5, <1>6 DEF Read

(* One turn of __pipe_write appends a part of the bytes, or nothing. *)
LEMMA WriteTurn ==
  ASSUME IInv, NEW t \in Writers, Write(t)
  PROVE  /\ IInv'
         /\ \/ /\ \E n \in 1 .. Len(arg[t]) :
                    /\ Len(Queue[Out[t]]) + n <= BufSize
                    /\ Queue' = [Queue EXCEPT ![Out[t]] = @ \o SubSeq(arg[t], 1, n)]
               /\ arg' = arg /\ got' = got
            \/ UNCHANGED <<Queue, got>>
<1> DEFINE p == Out[t]
<1>0. /\ RingOK /\ p \in Pipes /\ t \in Tasks /\ pc[t] = "write"
      /\ arg[t] \in Seq(Bytes) /\ Len(arg[t]) > 0
      /\ TypeOK /\ Locks /\ pc \in [Tasks -> PCs]
  BY PipeAssumption, RingOfInv DEF IInv, Write, Args, Tasks, TypeOK
<1>1. /\ lock' = lock /\ got' = got
      /\ UNCHANGED <<readers, writers, rfile, wfile, freed, read_wait, write_wait>>
  BY DEF Write, ends
<1>2. Len(Queue[p]) = count[p] /\ count[p] \in Nat /\ BufSize \in Nat
  <2>1. count[p] \in 0 .. BufSize
    BY <1>0 DEF RingOK
  <2>2. BufSize \in Nat
    BY PipeAssumption
  <2> HIDE DEF p
  <2>3. Queue[p] \in Seq(Bytes) /\ Len(Queue[p]) = count[p]
    BY <1>0, QueueType
  <2> QED BY <2>1, <2>2, <2>3
<1>3. ASSUME NEW label, pc' = [pc EXCEPT ![t] = label], label # "tee_second" PROVE Locks'
  BY <1>0, <1>1, <1>3, PipeAssumption DEF Locks
<1>4. CASE /\ count[p] < BufSize
           /\ Store(p, SubSeq(arg[t], 1, Least(Len(arg[t]), BufSize - count[p])))
           /\ Goto(t, "wake_reader")
  <2> DEFINE n == Least(Len(arg[t]), BufSize - count[p])
             s == SubSeq(arg[t], 1, n)
  <2>1. n \in 1 .. Len(arg[t]) /\ count[p] + n <= BufSize /\ Len(arg[t]) \in Nat
    <3> DEFINE a == Len(arg[t])
               b == BufSize - count[p]
    <3>1. a \in Nat /\ a > 0
      BY <1>0
    <3>2. b \in Nat /\ b > 0
      BY <1>2, <1>4
    <3>3. n = Least(a, b)
      OBVIOUS
    <3> HIDE DEF a, b, n
    <3>4. n \in Nat /\ n <= a /\ n <= b /\ n > 0
      BY <3>1, <3>2, <3>3, LeastFacts
    <3>5. n \in 1 .. a
      BY <3>1, <3>4
    <3>6. count[p] + n <= BufSize
      BY <1>2, <3>4 DEF b
    <3> QED BY <3>1, <3>5, <3>6 DEF a
  <2> HIDE DEF n
  <2>2. s \in Seq(Bytes) /\ Len(s) = n
    BY <1>0, <2>1, SubSeqProperties
  <2>3. Store(p, s)
    BY <1>4 DEF n
  <2> HIDE DEF s
  <2>4. RingOK' /\ Queue' = [Queue EXCEPT ![p] = @ \o s]
    BY <1>0, <2>1, <2>2, <2>3, StoreFacts
  <2>5. pc' = [pc EXCEPT ![t] = "wake_reader"] /\ arg' = arg
    BY <1>4 DEF Goto
  <2>6. IInv'
    BY <1>0, <1>1, <1>3, <2>4, <2>5, TurnStep, PipeAssumption DEF PCs, TypeOK
  <2> QED BY <1>1, <1>2, <2>1, <2>4, <2>5, <2>6 DEF s
<1>5. CASE UNCHANGED ring /\ (Return(t) \/ Goto(t, "sleep_write"))
  <2>1. RingOK' /\ Queue' = Queue
    BY <1>0, <1>5 DEF RingOK, Heads, ring, Queue, Slice
  <2>2. \/ pc' = [pc EXCEPT ![t] = "idle"] /\ arg' = [arg EXCEPT ![t] = <<>>]
        \/ pc' = [pc EXCEPT ![t] = "sleep_write"] /\ arg' = arg
    BY <1>5 DEF Return, Goto
  <2>3. IInv'
    BY <1>0, <1>1, <1>3, <2>1, <2>2, TurnStep, PipeAssumption DEF PCs, TypeOK
  <2> QED BY <1>1, <2>1, <2>3
<1> QED BY <1>4, <1>5 DEF Write

(* One turn of pipe_tee appends a part of one pipe to the other, or nothing. *)
LEMMA TeeTurn ==
  ASSUME IInv, NEW t \in Teers, Tee(t)
  PROVE  /\ IInv'
         /\ \/ /\ \E n \in 1 .. Len(Queue[In[t]]) :
                    /\ Len(Queue[Out[t]]) + n <= BufSize
                    /\ Queue' = [Queue EXCEPT ![Out[t]] = @ \o SubSeq(Queue[In[t]], 1, n)]
               /\ arg' = arg /\ got' = got
            \/ UNCHANGED <<Queue, got>>
<1> DEFINE p == In[t]
           q == Out[t]
           n == Least(arg[t], Least(count[p], BufSize - count[q]))
<1>0. /\ RingOK /\ p \in Pipes /\ q \in Pipes /\ t \in Tasks /\ pc[t] = "tee_second"
      /\ arg[t] \in Nat \ {0} /\ TypeOK /\ Locks /\ pc \in [Tasks -> PCs]
  BY PipeAssumption, RingOfInv DEF IInv, Tee, Args, Tasks, TypeOK
<1>1. /\ lock' = [lock EXCEPT ![FirstLock(t)] = NoTask] /\ got' = got
      /\ UNCHANGED <<readers, writers, rfile, wfile, freed, read_wait, write_wait>>
  BY DEF Tee, ends
<1>2. /\ Queue[p] \in Seq(Bytes) /\ Len(Queue[p]) = count[p] /\ count[p] \in Nat
      /\ Len(Queue[q]) = count[q] /\ count[q] \in Nat /\ BufSize \in Nat
      /\ Queue[p] = Ring(buf[p], tail[p], count[p])
  BY <1>0, QueueType, PipeAssumption DEF TypeOK
<1>3. lock' \in [Pipes -> Tasks \cup {NoTask}]
  BY <1>0, <1>1 DEF TypeOK
<1>4. ASSUME NEW label, pc' = [pc EXCEPT ![t] = label], label # "tee_second" PROVE Locks'
  BY <1>0, <1>1, <1>4, PipeAssumption DEF Locks, TypeOK, Tasks
<1>5. CASE /\ count[p] > 0 /\ count[q] < BufSize
           /\ Store(q, Slice(p, tail[p], n)) /\ Goto(t, "wake_reader")
  <2>1. n \in 1 .. count[p] /\ n \in 0 .. count[p] /\ count[q] + n <= BufSize
    <3> DEFINE b == BufSize - count[q]
               m == Least(count[p], b)
    <3>1. b \in Nat /\ b > 0 /\ count[p] > 0
      BY <1>2, <1>5
    <3>2. n = Least(arg[t], m)
      OBVIOUS
    <3>3. m \in Nat /\ m <= count[p] /\ m <= b /\ m > 0
      <4> HIDE DEF b
      <4> QED BY <1>2, <3>1, LeastFacts
    <3> HIDE DEF m, n
    <3>4. n \in Nat /\ n <= m /\ n > 0
      BY <1>0, <3>2, <3>3, LeastFacts
    <3> QED BY <1>2, <3>3, <3>4
  <2>2. Store(q, Slice(p, tail[p], n))
    BY <1>5
  <2> HIDE DEF n
  <2> DEFINE s == SubSeq(Queue[p], 1, n)
  <2>3. s \in Seq(Bytes) /\ Len(s) = n
    BY <1>2, <2>1, SubSeqProperties
  <2>4. Slice(p, tail[p], n) = s
    <3>1. Slice(p, tail[p], n) = Ring(buf[p], tail[p], n)
      BY DEF Slice, Ring
    <3>2. buf[p] \in [Index -> Bytes] /\ tail[p] \in Index /\ count[p] \in 0 .. BufSize
      BY <1>0 DEF TypeOK
    <3> QED BY <1>2, <2>1, <3>1, <3>2, RingPrefix
  <2> HIDE DEF s
  <2>5. RingOK' /\ Queue' = [Queue EXCEPT ![q] = @ \o s]
    BY <1>0, <2>1, <2>2, <2>3, <2>4, StoreFacts
  <2>6. pc' = [pc EXCEPT ![t] = "wake_reader"] /\ arg' = arg
    BY <1>5 DEF Goto
  <2>7. IInv'
    BY <1>0, <1>1, <1>3, <1>4, <2>5, <2>6, TurnStep, PipeAssumption DEF PCs
  <2> QED BY <1>1, <1>2, <2>1, <2>5, <2>6, <2>7 DEF s
<1>6. CASE UNCHANGED ring /\ (Return(t) \/ Goto(t, "sleep_read") \/ Goto(t, "sleep_write"))
  <2>1. RingOK' /\ Queue' = Queue
    BY <1>0, <1>6 DEF RingOK, Heads, ring, Queue, Slice
  <2>2. \/ pc' = [pc EXCEPT ![t] = "idle"] /\ arg' = [arg EXCEPT ![t] = <<>>]
        \/ pc' = [pc EXCEPT ![t] = "sleep_read"] /\ arg' = arg
        \/ pc' = [pc EXCEPT ![t] = "sleep_write"] /\ arg' = arg
    BY <1>6 DEF Return, Goto
  <2>3. IInv'
    BY <1>0, <1>1, <1>3, <1>4, <2>1, <2>2, TurnStep, PipeAssumption DEF PCs
  <2> QED BY <1>1, <2>1, <2>3
<1> QED BY <1>5, <1>6 DEF Tee

-----------------------------------------------------------------------------
(* sys_pipe makes empty pipes, open at both ends. *)
LEMMA InitIInv == Init => IInv
<1> SUFFICES ASSUME Init PROVE IInv
  OBVIOUS
<1>1. BufSize \in Nat \ {0} /\ 0 \in Index /\ 0 \in 0 .. BufSize
  BY PipeAssumption DEF Index
<1>2. buf \in [Pipes -> [Index -> Bytes]]
  <2>1. (CHOOSE b \in Bytes : TRUE) \in Bytes
    BY PipeAssumption
  <2> QED BY <2>1 DEF Init
<1>3. TypeOK
  BY <1>1, <1>2 DEF Init, TypeOK, PCs
<1>4. Args /\ Waits
  BY DEF Init, Args, Waits, Tasks
<1>5. Ends /\ Locks
  BY PipeAssumption DEF Init, Ends, Locks, Tasks
<1>6. Heads
  <2>1. (0 + 0) % BufSize = 0
    BY <1>1
  <2> QED BY <2>1 DEF Init, Heads
<1> QED BY <1>3, <1>4, <1>5, <1>6 DEF IInv

(* Every step keeps the invariant. *)
LEMMA IInvStep == IInv /\ [Next]_vars => IInv'
<1> SUFFICES ASSUME IInv, [Next]_vars PROVE IInv'
  OBVIOUS
<1>1. ASSUME NEW t \in Readers, CallRead(t) \/ ReadStep(t) \/ CloseRead(t) PROVE IInv'
  <2>1. t \in Tasks
    BY DEF Tasks
  <2>2. CASE CallRead(t)
    BY <2>1, <2>2, CallStep
  <2>3. CASE ReadStep(t)
    BY <2>1, <2>3, ReadTurn, SleepReadStep, WakeWriterStep, ResumeStep DEF ReadStep
  <2> QED BY <1>1, <2>2, <2>3, CloseReadStep
<1>2. ASSUME NEW t \in Writers, CallWrite(t) \/ WriteStep(t) \/ CloseWrite(t) PROVE IInv'
  <2>1. t \in Tasks
    BY DEF Tasks
  <2>2. CASE CallWrite(t)
    BY <2>1, <2>2, CallStep
  <2>3. CASE WriteStep(t)
    BY <2>1, <2>3, WriteTurn, SleepWriteStep, WakeReaderStep, ResumeStep DEF WriteStep
  <2> QED BY <1>2, <2>2, <2>3, CloseWriteStep
<1>3. ASSUME NEW t \in Teers, CallTee(t) \/ TeeStep(t) \/ CloseRead(t) \/ CloseWrite(t)
      PROVE  IInv'
  <2>1. t \in Tasks
    BY DEF Tasks
  <2>2. CASE CallTee(t)
    BY <2>1, <2>2, CallStep
  <2>3. CASE TeeStep(t)
    BY <2>1, <2>3, LockFirstStep, TeeTurn, SleepReadStep, SleepWriteStep, WakeReaderStep,
       ResumeStep DEF TeeStep
  <2> QED BY <1>3, <2>2, <2>3, CloseReadStep, CloseWriteStep
<1>4. CASE UNCHANGED vars
  BY <1>4 DEF vars, IInv, TypeOK, Args, Waits, Ends, Locks, Heads
<1> QED BY <1>1, <1>2, <1>3, <1>4 DEF Next

(* The inductive invariant holds throughout. *)
LEMMA Invariance == Spec => []IInv
BY InitIInv, IInvStep, PTL DEF Spec

(***************************************************************************)
(* free_pipe_inode_info runs once for a pipe, when both files are gone and *)
(* no task is in a call on it, asleep on its queues or holds its lock.     *)
(***************************************************************************)
THEOREM PipesAreFreedOnce == Spec => []FreedOnce
<1>1. IInv => FreedOnce
  <2> SUFFICES ASSUME IInv PROVE FreedOnce
    OBVIOUS
  <2>0. TypeOK /\ Args /\ Waits /\ Ends /\ Locks
    BY DEF IInv
  <2>1. ASSUME NEW p \in Pipes, freed[p] = 1
        PROVE  /\ rfile[p] = {} /\ wfile[p] = {} /\ read_wait[p] = <<>> /\ write_wait[p] = <<>>
               /\ lock[p] = NoTask
    <3>1. rfile[p] = {} /\ wfile[p] = {}
      BY <2>0, <2>1 DEF Ends
    <3>2. read_wait[p] \in Seq(Tasks) /\ write_wait[p] \in Seq(Tasks)
      BY <2>0 DEF TypeOK
    <3>3. read_wait[p] = <<>>
      <4>1. 1 \notin 1 .. Len(read_wait[p])
        BY <2>0, <3>1 DEF Waits, Args
      <4> QED BY <3>2, <4>1
    <3>4. write_wait[p] = <<>>
      <4>1. 1 \notin 1 .. Len(write_wait[p])
        BY <2>0, <3>1 DEF Waits, Args
      <4> QED BY <3>2, <4>1
    <3>5. lock[p] = NoTask
      BY <2>0, <3>1 DEF Locks, Args, FirstLock, Least
    <3> QED BY <3>1, <3>3, <3>4, <3>5
  <2>2. \A p \in Pipes : freed[p] <= 1
    BY <2>0 DEF Ends
  <2> QED BY <2>0, <2>1, <2>2 DEF FreedOnce
<1> QED BY <1>1, Invariance, PTL
-----------------------------------------------------------------------------
(* A set of natural numbers has a least one. *)
LEMMA LeastNumber ==
  ASSUME NEW T \in SUBSET Nat, T # {} PROVE \E x \in T : \A y \in T : x <= y
<1> DEFINE R == {ss \in Nat \X Nat : ss[1] < ss[2]}
<1>1. R = OpToRel(<, Nat)
  BY DEF OpToRel
<1>2. IsWellFoundedOn(R, Nat)
  BY <1>1, NatLessThanWellFounded
<1>3. PICK x \in T : \A y \in T : <<y, x>> \notin R
  <2> HIDE DEF R
  <2> QED BY <1>2, WFMin
<1>4. \A y \in T : y \in Nat /\ x \in Nat /\ ~(y < x)
  BY <1>3
<1> QED BY <1>4

(* Finitely many addresses have an upper bound. *)
LEMMA AddressesEnd == \E m \in Nat : \A p \in Pipes : p <= m
<1>1. PICK n \in Nat : \E f \in [1 .. n -> Pipes] : \A p \in Pipes : \E i \in 1 .. n : f[i] = p
  BY PipeAssumption, FS_NatSurjection DEF ExistsSurjection, Surjection
<1>2. PICK f \in [1 .. n -> Pipes] : \A p \in Pipes : \E i \in 1 .. n : f[i] = p
  BY <1>1
<1> DEFINE Unbounded == {k \in 0 .. n : \A m \in Nat : \E i \in 1 .. k : f[i] > m}
<1>3. \A i \in 1 .. n : f[i] \in Nat
  BY PipeAssumption
<1>4. Unbounded = {}
  <2> SUFFICES ASSUME Unbounded # {} PROVE FALSE
    OBVIOUS
  <2>1. Unbounded \in SUBSET Nat
    OBVIOUS
  <2> HIDE DEF Unbounded
  <2>2. PICK k \in Unbounded : \A j \in Unbounded : k <= j
    BY <2>1, LeastNumber
  <2>3. k \in 0 .. n /\ \A m \in Nat : \E i \in 1 .. k : f[i] > m
    BY DEF Unbounded
  <2>4. k # 0
    BY <2>3
  <2>5. k - 1 \in 0 .. n /\ k - 1 \notin Unbounded
    BY <2>2, <2>3, <2>4
  <2>6. PICK m \in Nat : \A i \in 1 .. k - 1 : ~(f[i] > m)
    BY <2>5 DEF Unbounded
  <2>7. k \in 1 .. n /\ f[k] \in Nat
    BY <1>3, <2>3, <2>4
  <2>8. PICK b \in Nat : b >= m /\ b >= f[k]
    BY <2>7
  <2>9. ASSUME NEW i \in 1 .. k PROVE ~(f[i] > b)
    <3>1. CASE i = k
      BY <2>7, <2>8, <3>1
    <3>2. CASE i # k
      <4>1. i \in 1 .. k - 1 /\ i \in 1 .. n
        BY <2>3, <3>2
      <4> QED BY <1>3, <2>6, <2>8, <4>1
    <3> QED BY <3>1, <3>2
  <2> QED BY <2>3, <2>9
<1>5. n \notin Unbounded
  BY <1>4
<1>6. PICK m \in Nat : \A i \in 1 .. n : ~(f[i] > m)
  BY <1>5
<1>7. ASSUME NEW p \in Pipes PROVE p <= m
  <2>1. PICK i \in 1 .. n : f[i] = p
    BY <1>2
  <2>2. ~(f[i] > m) /\ f[i] \in Nat
    BY <1>3, <1>6
  <2> QED BY <2>1, <2>2
<1> QED BY <1>7

(***************************************************************************)
(* The order of pipe_lock_pair works for any number of pipes and tees: of  *)
(* the tees that hold their first lock, the one with the highest finds its *)
(* second lock free.                                                       *)
(***************************************************************************)
THEOREM TeesAreNotDeadlocked == Spec => []NoLockCycle
<1>1. IInv => NoLockCycle
  <2> SUFFICES ASSUME IInv, Halfway # {}
               PROVE  \E t \in Halfway : lock[SecondLock(t)] = NoTask
    BY DEF NoLockCycle
  <2>0. Locks
    BY DEF IInv
  <2>1. ASSUME NEW t \in Halfway
        PROVE  /\ FirstLock(t) \in Pipes /\ SecondLock(t) \in Pipes
               /\ FirstLock(t) \in Nat /\ SecondLock(t) \in Nat /\ FirstLock(t) < SecondLock(t)
    <3>1. t \in Teers /\ In[t] \in Pipes /\ Out[t] \in Pipes /\ In[t] # Out[t]
          /\ In[t] \in Nat /\ Out[t] \in Nat
      BY PipeAssumption DEF Halfway
    <3> QED BY <3>1 DEF FirstLock, SecondLock, Least
  <2>2. PICK m \in Nat : \A p \in Pipes : p <= m
    BY AddressesEnd
  <2> DEFINE D == {m - FirstLock(t) : t \in Halfway}
  <2>3. D \in SUBSET Nat /\ D # {}
    BY <2>1, <2>2
  <2>4. PICK x \in D : \A y \in D : x <= y
    <3> HIDE DEF D
    <3> QED BY <2>3, LeastNumber
  <2>5. PICK t \in Halfway : x = m - FirstLock(t)
    BY <2>4
  <2>6. \A u \in Halfway : FirstLock(u) <= FirstLock(t)
    <3> SUFFICES ASSUME NEW u \in Halfway PROVE FirstLock(u) <= FirstLock(t)
      OBVIOUS
    <3>1. m - FirstLock(t) <= m - FirstLock(u)
      BY <2>4, <2>5
    <3> QED BY <2>1, <3>1
  <2>7. ASSUME lock[SecondLock(t)] # NoTask PROVE FALSE
    <3> DEFINE u == lock[SecondLock(t)]
    <3>1. u \in Halfway /\ FirstLock(u) = SecondLock(t)
      BY <2>0, <2>1, <2>7 DEF Locks, Halfway
    <3> QED BY <2>1, <2>6, <3>1
  <2> QED BY <2>7
<1> QED BY <1>1, Invariance, PTL

-----------------------------------------------------------------------------
(* A step outside the ring and outside the results of reads. *)
LEMMA QuietStep ==
  ASSUME UNCHANGED <<buf, tail, count, got>> PROVE UNCHANGED <<Queue, got>>
BY DEF Queue, Slice

(* Every step of the pipes is a step of PipeStream on the bytes they hold. *)
LEMMA StreamStep ==
  ASSUME IInv, Next PROVE Stream!Next
<1>0. ASSUME UNCHANGED <<Queue, got>> PROVE Stream!Next
  BY <1>0 DEF Queue, Stream!Next, Stream!Call
<1>1. ASSUME NEW t \in Readers, Read(t) PROVE Stream!Next
  <2>0. In[t] \in Pipes
    BY PipeAssumption
  <2>1. CASE \E n \in 1 .. Len(Queue[In[t]]) :
               /\ Queue' = [Queue EXCEPT ![In[t]] = SubSeq(@, n + 1, Len(@))]
               /\ got' = [got EXCEPT ![t] = SubSeq(Queue[In[t]], 1, n)]
               /\ arg' = arg
    <3>1. Stream!Read(t, In[t])
      BY <2>1 DEF Stream!Read, Stream!Prefix, Stream!Rest, Queue
    <3> QED BY <2>0, <3>1 DEF Stream!Next
  <2>2. CASE Queue[In[t]] = <<>> /\ got' = [got EXCEPT ![t] = <<>>] /\ Queue' = Queue
    <3>1. Stream!EndOfFile(t, In[t])
      BY <2>2 DEF Stream!EndOfFile, Queue
    <3> QED BY <2>0, <3>1 DEF Stream!Next
  <2> QED BY <1>0, <1>1, <2>1, <2>2, ReadTurn
<1>2. ASSUME NEW t \in Writers, Write(t) PROVE Stream!Next
  <2>0. Out[t] \in Pipes
    BY PipeAssumption
  <2>1. CASE \E n \in 1 .. Len(arg[t]) :
               /\ Len(Queue[Out[t]]) + n <= BufSize
               /\ Queue' = [Queue EXCEPT ![Out[t]] = @ \o SubSeq(arg[t], 1, n)]
               /\ arg' = arg /\ got' = got
    <3>1. Stream!Write(t, Out[t])
      BY <2>1 DEF Stream!Write, Stream!Prefix, Queue
    <3> QED BY <2>0, <3>1 DEF Stream!Next
  <2> QED BY <1>0, <1>2, <2>1, WriteTurn
<1>3. ASSUME NEW t \in Teers, Tee(t) PROVE Stream!Next
  <2>0. In[t] \in Pipes /\ Out[t] \in Pipes \ {In[t]}
    BY PipeAssumption
  <2>1. CASE \E n \in 1 .. Len(Queue[In[t]]) :
               /\ Len(Queue[Out[t]]) + n <= BufSize
               /\ Queue' = [Queue EXCEPT ![Out[t]] = @ \o SubSeq(Queue[In[t]], 1, n)]
               /\ arg' = arg /\ got' = got
    <3>1. Stream!Tee(In[t], Out[t])
      BY <2>1 DEF Stream!Tee, Stream!Prefix, Queue
    <3> QED BY <2>0, <3>1 DEF Stream!Next
  <2> QED BY <1>0, <1>3, <2>1, TeeTurn
<1>4. ASSUME NEW t \in Tasks,
             \/ CallRead(t) \/ CallWrite(t) \/ CallTee(t) \/ SleepOnRead(t) \/ SleepOnWrite(t)
             \/ Resume(t) \/ WakeWriter(t) \/ WakeReader(t) \/ LockFirst(t)
             \/ CloseRead(t) \/ CloseWrite(t)
      PROVE  Stream!Next
  <2>1. UNCHANGED <<buf, tail, count, got>>
    BY <1>4 DEF CallRead, CallWrite, CallTee, Call, SleepOnRead, SleepOnWrite, Resume,
       WakeWriter, WakeReader, LockFirst, CloseRead, CloseWrite, ring
  <2> QED BY <1>0, <2>1, QuietStep
<1> QED
  BY <1>1, <1>2, <1>3, <1>4 DEF Next, ReadStep, WriteStep, TeeStep, Tasks

(***************************************************************************)
(* The ring buffer implements the queue of PipeStream: through every wrap  *)
(* of head and tail, partial write and tee, what is read is what was       *)
(* written, in order, once.                                                *)
(***************************************************************************)
THEOREM RingIsAQueue == Spec => PipesAreQueues
<1>1. Init => Stream!Init
  <2> SUFFICES ASSUME Init PROVE Stream!Init
    OBVIOUS
  <2>1. \A p \in Pipes : Slice(p, tail[p], count[p]) = <<>>
    BY DEF Init, Slice
  <2> QED BY <2>1 DEF Init, Stream!Init
<1>2. IInv /\ [Next]_vars => [Stream!Next]_<<Queue, arg, got>>
  <2> SUFFICES ASSUME IInv, [Next]_vars PROVE [Stream!Next]_<<Queue, arg, got>>
    OBVIOUS
  <2>1. CASE Next
    BY <2>1, StreamStep
  <2>2. CASE UNCHANGED vars
    BY <2>2 DEF vars, Queue, Slice
  <2> QED BY <2>1, <2>2
<1>3. PipesAreQueues <=> Stream!Init /\ [][Stream!Next]_<<Queue, arg, got>>
  BY DEF PipesAreQueues, Stream!Spec, Queue
<1> QED BY <1>1, <1>2, <1>3, Invariance, PTL DEF Spec
=============================================================================
