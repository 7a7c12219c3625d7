------------------------------ MODULE MCMmRefs ------------------------------
(* An instance of the address-space references for TLC. *)
EXTENDS MmRefs, TLC

CONSTANTS c1, c2, i1, i2, b, u1, u2, m1, m2, m3

IdleTasks == (c1 :> i1) @@ (c2 :> i2)

Symmetry == Permutations(Mms) \cup Permutations({u1, u2})
=============================================================================
