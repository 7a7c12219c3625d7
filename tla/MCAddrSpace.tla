---------------------------- MODULE MCAddrSpace -----------------------------
(* An instance of the address space for TLC. *)
EXTENDS AddrSpace

CONSTANTS d0, d1, d2
=============================================================================
