------------------------------- MODULE MCPipe -------------------------------
(* An instance of the pipes for TLC. *)
EXTENDS Pipe, TLC

CONSTANTS r1, w1, e1, e2

(* Two pipes, e1 tees 1 to 2 and e2 back; r1 and w1 use the first. *)
InTwo  == [t \in Readers \cup Teers |-> IF t = e2 THEN 2 ELSE 1]
OutTwo == [t \in Writers \cup Teers |-> IF t = e1 THEN 2 ELSE 1]

(* A byte is copied and compared, nothing else. *)
ByteSymmetry == Permutations(Bytes)
=============================================================================
