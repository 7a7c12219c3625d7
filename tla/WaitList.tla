------------------------------ MODULE WaitList ------------------------------
(***************************************************************************)
(* The intrusive, circular, doubly linked list of include/os/list.h and    *)
(* the walks over it that wake_up_one and wake_up_all make                 *)
(* (kernel/sched/core.c).                                                  *)
(*                                                                         *)
(* A list is the record of the next and prev pointers of all its nodes.    *)
(* The pointers, not a sequence, are the state: a task has ONE wait node,  *)
(* and the code may link that node while it is still linked, after which   *)
(* the pointers no longer describe a sequence.                             *)
(***************************************************************************)
EXTENDS Naturals, FiniteSets

(* INIT_LIST_HEAD: a node that is alone points to itself both ways. *)
EmptyList(N) == [next |-> [n \in N |-> n], prev |-> [n \in N |-> n]]

(* __list_add: the four assignments, in the order of the code. *)
ListAddBetween(l, node, p, n) ==
  [next |-> [l.next EXCEPT ![p] = node, ![node] = n],
   prev |-> [l.prev EXCEPT ![node] = p, ![n] = node]]

ListAddTail(l, head, node) == ListAddBetween(l, node, l.prev[head], head)

(* list_del: unlink the neighbours, then INIT_LIST_HEAD the node. *)
ListDel(l, node) ==
  LET p == l.prev[node]
      n == l.next[node]
  IN  [next |-> [l.next EXCEPT ![p] = n, ![node] = node],
       prev |-> [l.prev EXCEPT ![n] = p, ![node] = node]]

ListIsEmpty(l, head) == l.next[head] = head

(***************************************************************************)
(* The k-th node of list_for_each_entry(_safe), k = 0 being head->next,    *)
(* for a walk that stops at the head or at a node of S.                    *)
(***************************************************************************)
Visited(l, head, S, k) ==
  LET walk[i \in 0 .. k] ==
        IF i = 0 THEN l.next[head]
        ELSE IF walk[i - 1] \in S \cup {head} THEN walk[i - 1]
        ELSE l.next[walk[i - 1]]
  IN  walk[k]

(***************************************************************************)
(* Where the walk of wake_up_one for a task of S ends.  A well formed list *)
(* of n nodes leads back to its head within n steps; a walk that has then  *)
(* stopped neither there nor in S goes round for ever (~WalkEnds).         *)
(***************************************************************************)
FirstIn(l, head, S) == Visited(l, head, S, Cardinality(DOMAIN l.next))

WalkEnds(l, head, S) == FirstIn(l, head, S) \in S \cup {head}

(* The nodes list_for_each_entry visits before it is back at the head. *)
Members(l, head) ==
  {Visited(l, head, {}, k) : k \in 0 .. Cardinality(DOMAIN l.next)} \ {head}

(* Every link has its inverse: each node is on at most one list, once. *)
WellLinked(l) ==
  \A n \in DOMAIN l.next : l.prev[l.next[n]] = n /\ l.next[l.prev[n]] = n
=============================================================================
