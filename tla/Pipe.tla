-------------------------------- MODULE Pipe --------------------------------
(***************************************************************************)
(* Pipes (kernel/pipe.c): the ring buffer, blocking read, write and tee on *)
(* the wait queues of kernel/sched/core.c, and the release of an end.      *)
(*                                                                         *)
(* A step is a critical section of pipe->lock or of a wait queue's lock;   *)
(* tee takes its two locks one after the other.  No signal is sent to a    *)
(* waiting task here (Mutex and Kthreadd show what one does to a queue),   *)
(* so a queue is a sequence of sleeping tasks.                             *)
(***************************************************************************)
EXTENDS Integers, Sequences, FiniteSets

CONSTANTS Pipes,    \* the addresses of the pipes: numbers
          Readers, Writers, Teers,  \* the tasks, by what they do
          In, Out,  \* the pipe a task reads, the pipe it writes
          Bytes,
          BufSize,  \* PIPE_BUF_SIZE
          ReadLens, WriteLens, TeeLens,  \* the lengths tried
          NoTask

Tasks == Readers \cup Writers \cup Teers

ASSUME PipeAssumption ==
  /\ Pipes \subseteq Nat /\ IsFiniteSet(Pipes) /\ Bytes # {}
  /\ Readers \cap Writers = {} /\ Readers \cap Teers = {} /\ Writers \cap Teers = {}
  /\ BufSize \in Nat \ {0} /\ ReadLens \cup WriteLens \cup TeeLens \subseteq Nat \ {0}
  /\ In \in [Readers \cup Teers -> Pipes] /\ Out \in [Writers \cup Teers -> Pipes]
  /\ \A t \in Teers : In[t] # Out[t]
  /\ NoTask \notin Tasks

VARIABLES buf, head, tail, count,
          readers, writers,  \* 1 while the file of that end is open, else 0
          rfile, wfile,      \* the tasks that share the file (f_count)
          lock,              \* the holder of pipe->lock
          read_wait, write_wait,
          pc, arg,           \* where a task is; the bytes or the length it asks for
          got,               \* what its last read returned
          freed              \* how often free_pipe_inode_info ran

vars == <<buf, head, tail, count, readers, writers, rfile, wfile, lock, read_wait,
          write_wait, pc, arg, got, freed>>

ring == <<buf, head, tail, count>>
ends == <<readers, writers, rfile, wfile, freed>>

Index == 0 .. BufSize - 1

(* sys_pipe has run, and fork has shared the two files. *)
Init ==
  /\ buf \in [Pipes -> [Index -> {CHOOSE b \in Bytes : TRUE}]]
  /\ head = [p \in Pipes |-> 0]
  /\ tail = [p \in Pipes |-> 0]
  /\ count = [p \in Pipes |-> 0]
  /\ readers = [p \in Pipes |-> 1]
  /\ writers = [p \in Pipes |-> 1]
  /\ rfile = [p \in Pipes |-> {t \in Readers \cup Teers : In[t] = p}]
  /\ wfile = [p \in Pipes |-> {t \in Writers \cup Teers : Out[t] = p}]
  /\ lock = [p \in Pipes |-> NoTask]
  /\ read_wait = [p \in Pipes |-> <<>>]
  /\ write_wait = [p \in Pipes |-> <<>>]
  /\ pc = [t \in Tasks |-> "idle"]
  /\ arg = [t \in Tasks |-> <<>>]
  /\ got = [t \in Tasks |-> <<>>]
  /\ freed = [p \in Pipes |-> 0]

-----------------------------------------------------------------------------
Goto(t, label) == pc' = [pc EXCEPT ![t] = label] /\ UNCHANGED arg

(* The system call returns. *)
Return(t) ==
  /\ pc' = [pc EXCEPT ![t] = "idle"]
  /\ arg' = [arg EXCEPT ![t] = <<>>]

Least(a, b) == IF a <= b THEN a ELSE b

(* The n bytes from position i on, round the ring. *)
Slice(p, i, n) == [k \in 1 .. n |-> buf[p][(i + k - 1) % BufSize]]

(* Mutant: the copy into the ring does not wrap. *)
StoreNoWrap(p, s) ==
  /\ buf' = [buf EXCEPT ![p] =
       [i \in Index |-> IF \E k \in 1 .. Len(s) : i = head[p] + k - 1
                        THEN s[i - head[p] + 1] ELSE @[i]]]
  /\ head' = [head EXCEPT ![p] = (@ + Len(s)) % BufSize]
  /\ count' = [count EXCEPT ![p] = @ + Len(s)]
  /\ UNCHANGED tail

(* The bytes s are copied in at head. *)
Store(p, s) ==
  /\ buf' = [buf EXCEPT ![p] =
       [i \in Index |-> IF \E k \in 1 .. Len(s) : i = (head[p] + k - 1) % BufSize
                        THEN s[CHOOSE k \in 1 .. Len(s) : i = (head[p] + k - 1) % BufSize]
                        ELSE @[i]]]
  /\ head' = [head EXCEPT ![p] = (@ + Len(s)) % BufSize]
  /\ count' = [count EXCEPT ![p] = @ + Len(s)]
  /\ UNCHANGED tail

WakeOne(q, p) == q' = [q EXCEPT ![p] = IF @ = <<>> THEN @ ELSE Tail(@)]

Asleep(t) ==
  \E p \in Pipes :
    \/ \E i \in 1 .. Len(read_wait[p]) : read_wait[p][i] = t
    \/ \E i \in 1 .. Len(write_wait[p]) : write_wait[p][i] = t

(* sleep_on, then sched() until somebody takes the task off the queue. *)
SleepOnRead(t) ==
  /\ pc[t] = "sleep_read"
  /\ read_wait' = [read_wait EXCEPT ![In[t]] = Append(@, t)]
  /\ Goto(t, "sched")
  /\ UNCHANGED <<ring, ends, lock, write_wait, got>>

SleepOnWrite(t) ==
  /\ pc[t] = "sleep_write"
  /\ write_wait' = [write_wait EXCEPT ![Out[t]] = Append(@, t)]
  /\ Goto(t, "sched")
  /\ UNCHANGED <<ring, ends, lock, read_wait, got>>

Resume(t) ==
  /\ pc[t] = "sched" /\ ~Asleep(t)
  /\ Goto(t, IF t \in Readers THEN "read" ELSE IF t \in Writers THEN "write" ELSE "tee")
  /\ UNCHANGED <<ring, ends, lock, read_wait, write_wait, got>>

(* wake_up_one, after the lock of the pipe has been let go. *)
WakeWriter(t) ==
  /\ pc[t] = "wake_writer"
  /\ WakeOne(write_wait, In[t])
  /\ Return(t)
  /\ UNCHANGED <<ring, ends, lock, read_wait, got>>

WakeReader(t) ==
  /\ pc[t] = "wake_reader"
  /\ WakeOne(read_wait, Out[t])
  /\ Return(t)
  /\ UNCHANGED <<ring, ends, lock, write_wait, got>>

-----------------------------------------------------------------------------
Call(t, label, a) ==
  /\ pc[t] = "idle"
  /\ arg' = [arg EXCEPT ![t] = a]
  /\ pc' = [pc EXCEPT ![t] = label]
  /\ UNCHANGED <<ring, ends, lock, read_wait, write_wait, got>>

(* A call with length 0 returns 0 at once and is left out. *)
CallRead(t)  == t \in rfile[In[t]] /\ \E n \in ReadLens : Call(t, "read", n)
CallWrite(t) == /\ t \in wfile[Out[t]]
                /\ \E n \in WriteLens : \E s \in [1 .. n -> Bytes] : Call(t, "write", s)
CallTee(t)   == /\ t \in rfile[In[t]] /\ t \in wfile[Out[t]]
                /\ \E n \in TeeLens : Call(t, "tee", n)

(* Mutant: __pipe_read forgets to advance tail. *)
ReadKeepsTail(t, p, n) ==
  /\ got' = [got EXCEPT ![t] = Slice(p, tail[p], n)]
  /\ count' = [count EXCEPT ![p] = @ - n]
  /\ UNCHANGED <<buf, head, tail>>

Fetch(t, p, n) ==
  /\ got' = [got EXCEPT ![t] = Slice(p, tail[p], n)]
  /\ tail' = [tail EXCEPT ![p] = (@ + n) % BufSize]
  /\ count' = [count EXCEPT ![p] = @ - n]
  /\ UNCHANGED <<buf, head>>

(* One turn of __pipe_read. *)
Read(t) ==
  LET p == In[t]
  IN  /\ pc[t] = "read" /\ lock[p] = NoTask
      /\ \/ /\ count[p] > 0
            /\ Fetch(t, p, Least(arg[t], count[p]))
            /\ Goto(t, "wake_writer")
         \/ /\ count[p] = 0 /\ writers[p] = 0
            /\ got' = [got EXCEPT ![t] = <<>>]
            /\ Return(t)
            /\ UNCHANGED ring
         \/ /\ count[p] = 0 /\ writers[p] # 0
            /\ Goto(t, "sleep_read")
            /\ UNCHANGED <<ring, got>>
      /\ UNCHANGED <<ends, lock, read_wait, write_wait>>

(* One turn of __pipe_write. *)
Write(t) ==
  LET p == Out[t]
  IN  /\ pc[t] = "write" /\ lock[p] = NoTask
      /\ \/ readers[p] = 0 /\ Return(t) /\ UNCHANGED ring
         \/ /\ readers[p] # 0 /\ count[p] < BufSize
            /\ Store(p, SubSeq(arg[t], 1, Least(Len(arg[t]), BufSize - count[p])))
            /\ Goto(t, "wake_reader")
         \/ readers[p] # 0 /\ count[p] = BufSize /\ Goto(t, "sleep_write") /\ UNCHANGED ring
      /\ UNCHANGED <<ends, lock, read_wait, write_wait, got>>

(* Mutant: pipe_lock_pair takes the locks in the order of its arguments. *)
FirstLockIn(t) == In[t]

(* pipe_lock_pair: the lock with the lower address first. *)
FirstLock(t)  == Least(In[t], Out[t])
SecondLock(t) == IF FirstLock(t) = In[t] THEN Out[t] ELSE In[t]

LockFirst(t) ==
  /\ pc[t] = "tee" /\ lock[FirstLock(t)] = NoTask
  /\ lock' = [lock EXCEPT ![FirstLock(t)] = t]
  /\ Goto(t, "tee_second")
  /\ UNCHANGED <<ring, ends, read_wait, write_wait, got>>

(* The rest of a turn of pipe_tee, blocking or not; it frees both locks. *)
Tee(t) ==
  LET p == In[t]
      q == Out[t]
      n == Least(arg[t], Least(count[p], BufSize - count[q]))
  IN  /\ pc[t] = "tee_second" /\ lock[SecondLock(t)] = NoTask
      /\ lock' = [lock EXCEPT ![FirstLock(t)] = NoTask]
      /\ \/ /\ count[p] = 0
            /\ \/ Return(t)
               \/ writers[p] # 0 /\ Goto(t, "sleep_read")
            /\ UNCHANGED ring
         \/ count[p] > 0 /\ readers[q] = 0 /\ Return(t) /\ UNCHANGED ring
         \/ /\ count[p] > 0 /\ readers[q] # 0 /\ count[q] = BufSize
            /\ Return(t) \/ Goto(t, "sleep_write")
            /\ UNCHANGED ring
         \/ /\ count[p] > 0 /\ readers[q] # 0 /\ count[q] < BufSize
            /\ Store(q, Slice(p, tail[p], n))
            /\ Goto(t, "wake_reader")
      /\ UNCHANGED <<ends, read_wait, write_wait, got>>

-----------------------------------------------------------------------------
(* Mutant: pipe_release frees the pipe when either end is gone. *)
FreeIfUnusedEither(p) ==
  freed' = [freed EXCEPT ![p] = IF readers'[p] = 0 \/ writers'[p] = 0 THEN @ + 1 ELSE @]

FreeIfUnused(p) ==
  freed' = [freed EXCEPT ![p] = IF readers'[p] = 0 /\ writers'[p] = 0 THEN @ + 1 ELSE @]

(* close: the last task that shares the file runs pipe_release. *)
CloseRead(t) ==
  LET p == In[t]
  IN  /\ pc[t] = "idle" /\ t \in rfile[p]
      /\ rfile' = [rfile EXCEPT ![p] = @ \ {t}]
      /\ IF rfile[p] = {t}
         THEN /\ lock[p] = NoTask
              /\ readers' = [readers EXCEPT ![p] = 0]
              /\ write_wait' = [write_wait EXCEPT ![p] = <<>>]
              /\ UNCHANGED writers
              /\ FreeIfUnused(p)
         ELSE UNCHANGED <<readers, writers, write_wait, freed>>
      /\ UNCHANGED <<ring, wfile, lock, read_wait, pc, arg, got>>

CloseWrite(t) ==
  LET p == Out[t]
  IN  /\ pc[t] = "idle" /\ t \in wfile[p]
      /\ wfile' = [wfile EXCEPT ![p] = @ \ {t}]
      /\ IF wfile[p] = {t}
         THEN /\ lock[p] = NoTask
              /\ writers' = [writers EXCEPT ![p] = 0]
              /\ read_wait' = [read_wait EXCEPT ![p] = <<>>]
              /\ UNCHANGED readers
              /\ FreeIfUnused(p)
         ELSE UNCHANGED <<readers, writers, read_wait, freed>>
      /\ UNCHANGED <<ring, rfile, lock, write_wait, pc, arg, got>>

-----------------------------------------------------------------------------
ReadStep(t)  == Read(t) \/ SleepOnRead(t) \/ WakeWriter(t) \/ Resume(t)
WriteStep(t) == Write(t) \/ SleepOnWrite(t) \/ WakeReader(t) \/ Resume(t)
TeeStep(t)   == \/ LockFirst(t) \/ Tee(t) \/ SleepOnRead(t) \/ SleepOnWrite(t)
                \/ WakeReader(t) \/ Resume(t)

Next ==
  \/ \E t \in Readers : CallRead(t) \/ ReadStep(t) \/ CloseRead(t)
  \/ \E t \in Writers : CallWrite(t) \/ WriteStep(t) \/ CloseWrite(t)
  \/ \E t \in Teers   : CallTee(t) \/ TeeStep(t) \/ CloseRead(t) \/ CloseWrite(t)

Spec == Init /\ [][Next]_vars

(* A task in a system call gets the CPU and goes on, unless it sleeps. *)
FairSpec ==
  /\ Spec
  /\ \A t \in Readers : WF_vars(ReadStep(t))
  /\ \A t \in Writers : WF_vars(WriteStep(t))
  /\ \A t \in Teers   : WF_vars(TeeStep(t))

-----------------------------------------------------------------------------
PCs == {"idle", "read", "write", "tee", "tee_second", "sleep_read", "sleep_write",
        "sched", "wake_reader", "wake_writer"}

TypeOK ==
  /\ buf \in [Pipes -> [Index -> Bytes]]
  /\ head \in [Pipes -> Index] /\ tail \in [Pipes -> Index]
  /\ count \in [Pipes -> 0 .. BufSize]
  /\ readers \in [Pipes -> {0, 1}] /\ writers \in [Pipes -> {0, 1}]
  /\ rfile \in [Pipes -> SUBSET (Readers \cup Teers)]
  /\ wfile \in [Pipes -> SUBSET (Writers \cup Teers)]
  /\ lock \in [Pipes -> Tasks \cup {NoTask}]
  /\ read_wait \in [Pipes -> Seq(Tasks)] /\ write_wait \in [Pipes -> Seq(Tasks)]
  /\ pc \in [Tasks -> PCs]
  /\ freed \in [Pipes -> Nat]

(***************************************************************************)
(* The ring buffer is a queue: what is read is what was written, in order, *)
(* through every wrap of head and tail, partial write and tee.             *)
(***************************************************************************)
Stream == INSTANCE PipeStream WITH
            Capacity <- BufSize, asked <- arg,
            queue <- [p \in Pipes |-> Slice(p, tail[p], count[p])]

PipesAreQueues == Stream!Spec

(***************************************************************************)
(* The pipe is freed once, when both of its files are gone, so no task is  *)
(* inside it or asleep on it then.                                         *)
(***************************************************************************)
FreedOnce ==
  /\ TypeOK
  /\ \A p \in Pipes :
       /\ freed[p] <= 1
       /\ freed[p] = 1 => /\ rfile[p] = {} /\ wfile[p] = {}
                          /\ read_wait[p] = <<>> /\ write_wait[p] = <<>>
                          /\ lock[p] = NoTask

(* The tees that hold their first lock. *)
Halfway == {t \in Teers : pc[t] = "tee_second"}

(***************************************************************************)
(* Tees between the same pipes, whatever their directions, never wait for  *)
(* each other in a circle: while some of them hold their first lock, one   *)
(* finds its second lock free.                                             *)
(***************************************************************************)
NoLockCycle == Halfway # {} => \E t \in Halfway : lock[SecondLock(t)] = NoTask

(***************************************************************************)
(* What doc/sched.md says wait queues are for, blocking I/O: a read that   *)
(* sleeps while there is something to read, or while no writer is left, is *)
(* woken.  It fails under FairSpec: README, section 6.                     *)
(***************************************************************************)
BlockedReadsReturn ==
  \A t \in Readers :
    (pc[t] = "sched" /\ (count[In[t]] > 0 \/ writers[In[t]] = 0)) ~> (pc[t] # "sched")
=============================================================================
