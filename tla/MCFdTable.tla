----------------------------- MODULE MCFdTable -----------------------------
(* An instance of FdTable: two tasks, two tables of two descriptors and    *)
(* two files.                                                              *)
EXTENDS FdTable, TLC

Symmetric == Permutations(Files)
=============================================================================
