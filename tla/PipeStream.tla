----------------------------- MODULE PipeStream -----------------------------
(***************************************************************************)
(* What kernel/pipe.c promises of the bytes: each pipe is a queue of at    *)
(* most Capacity bytes.  A write appends some first bytes of what it was   *)
(* given, a read removes some first bytes and returns them, tee appends    *)
(* to one queue some first bytes of another, which keeps them.             *)
(***************************************************************************)
EXTENDS Naturals, Sequences

CONSTANTS Pipes, Readers, Writers, Tasks, Capacity

VARIABLES queue,  \* the bytes in each pipe
          asked,  \* the arguments of each task's call; a writer's are its bytes
          got     \* what each task's last read has returned

Init ==
  /\ queue = [p \in Pipes |-> <<>>]
  /\ asked = [t \in Tasks |-> <<>>]
  /\ got = [t \in Tasks |-> <<>>]

(* A call begins or returns. *)
Call == UNCHANGED <<queue, got>>

Prefix(s, n) == SubSeq(s, 1, n)
Rest(s, n)   == SubSeq(s, n + 1, Len(s))

Write(t, p) ==
  \E n \in 1 .. Len(asked[t]) :
    /\ Len(queue[p]) + n <= Capacity
    /\ queue' = [queue EXCEPT ![p] = @ \o Prefix(asked[t], n)]
    /\ UNCHANGED <<asked, got>>

Read(t, p) ==
  \E n \in 1 .. Len(queue[p]) :
    /\ queue' = [queue EXCEPT ![p] = Rest(@, n)]
    /\ got' = [got EXCEPT ![t] = Prefix(queue[p], n)]
    /\ UNCHANGED asked

(* A read of an empty pipe that nobody writes any more. *)
EndOfFile(t, p) ==
  /\ queue[p] = <<>>
  /\ got' = [got EXCEPT ![t] = <<>>]
  /\ UNCHANGED queue

Tee(p, q) ==
  \E n \in 1 .. Len(queue[p]) :
    /\ Len(queue[q]) + n <= Capacity
    /\ queue' = [queue EXCEPT ![q] = @ \o Prefix(queue[p], n)]
    /\ UNCHANGED <<asked, got>>

Next ==
  \/ Call
  \/ \E p \in Pipes :
       \/ \E t \in Writers : Write(t, p)
       \/ \E t \in Readers : Read(t, p) \/ EndOfFile(t, p)
       \/ \E q \in Pipes \ {p} : Tee(p, q)

Spec == Init /\ [][Next]_<<queue, asked, got>>
=============================================================================
