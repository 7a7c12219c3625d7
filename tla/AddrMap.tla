------------------------------- MODULE AddrMap ------------------------------
(***************************************************************************)
(* What an address space promises to the process that runs in it: each     *)
(* page is unmapped or has a protection and a content.  New pages read as  *)
(* zero, and a page keeps what is stored in it until it is unmapped or     *)
(* made inaccessible; no other call changes it.  (That PROT_NONE discards  *)
(* the content is what this kernel does, see Lookup in PgTable.)           *)
(***************************************************************************)
EXTENDS Naturals

CONSTANTS Pages,    \* the pages of the process
          Prots,    \* the protections a call can give
          First     \* the protections at the start, NoArea where unmapped

NoArea == "unmapped"

VARIABLES prot, content

Init == prot = First /\ content = [p \in Pages |-> 0]

Ranges == {p .. q : p, q \in Pages}

Becomes(p, a, c) == prot'[p] = a /\ content'[p] = c

Same(p) == Becomes(p, prot[p], content[p])

(* A range that was free gets one protection. *)
Extend(S, a) == \A p \in S : prot[p] = NoArea /\ Becomes(p, a, content[p])

(* The break moves: of the pages it passes, the free ones become usable. *)
Grow(S) ==
  \A p \in S : Becomes(p, IF prot[p] = NoArea THEN "rw" ELSE prot[p], content[p])

Discard(S) == \A p \in S : Becomes(p, NoArea, 0)

Protect(S, a) ==
  \A p \in S : prot[p] # NoArea /\ Becomes(p, a, IF a = "none" THEN 0 ELSE content[p])

Store(p) == prot[p] = "rw" /\ Becomes(p, "rw", 1)

Next ==
  \E S \in Ranges :
    /\ \A p \in Pages \ S : Same(p)
    /\ \/ Grow(S) \/ Discard(S)
       \/ \E a \in Prots : Extend(S, a) \/ Protect(S, a)
       \/ \E p \in S : S = {p} /\ Store(p)
    /\ DOMAIN prot' = Pages /\ DOMAIN content' = Pages

Spec == Init /\ [][Next]_<<prot, content>>
=============================================================================
