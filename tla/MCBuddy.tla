------------------------------- MODULE MCBuddy -------------------------------
(***************************************************************************)
(* The page allocator for TLC: seven frames from an odd one on, any of     *)
(* them reserved, and two CPUs whose caches are of the code's shape.       *)
(***************************************************************************)
EXTENDS Buddy, TLC

CONSTANTS c1, c2

Small       == [high |-> 2, batch |-> 1]
Both        == {Small, [high |-> 2, batch |-> 2]}
AllLayouts  == SUBSET Frames \ {{}}
CpuSymmetry == Permutations(CPUs)
=============================================================================
