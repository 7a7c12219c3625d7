-------------------------------- MODULE Buddy --------------------------------
(***************************************************************************)
(* The page allocator of mm/buddy.c: the free lists of blocks of 2^order   *)
(* pages, the per-CPU caches of single pages (pcp) in front of them, and   *)
(* buddy_init over the mem_map of mm/physmem.c.                            *)
(*                                                                         *)
(* A call is one step: a CPU holds its own pcp's lock throughout, and      *)
(* enters global_buddy_lock at most once.                                  *)
(***************************************************************************)
EXTENDS Naturals, FiniteSets, SequencesExt

CONSTANTS CPUs,
          FirstPfn, LastPfn,  \* the range of mem_map
          Layouts,   \* the sets of frames that memblock may leave unreserved
          MaxOrder,  \* MAX_ORDER: one more than the largest order
          Limits,    \* the (high, batch) pairs given to pcp_configure
          BootLimit, \* the pair of buddy_init
          NoPage

Frames == FirstPfn .. LastPfn - 1

ASSUME BuddyAssumption ==
  /\ FirstPfn \in Nat /\ LastPfn \in Nat /\ FirstPfn < LastPfn
  /\ Layouts \subseteq SUBSET Frames
  /\ MaxOrder \in Nat \ {0}
  /\ BootLimit \in Limits
  /\ \A x \in Limits : x.batch \in Nat \ {0} /\ x.high \in Nat /\ x.high >= x.batch
  /\ NoPage \notin Frames

Orders == 0 .. MaxOrder - 1

VARIABLES free,      \* free_area[order].free_list
          nr_free,   \* free_area[order].nr_free
          order,     \* page->order
          flag,      \* which of BUDDY, PCP and RESERVED page->flags has, if any
          pcp,       \* the pages cached by each CPU, the next to be taken first
          limit,     \* pcp->high and pcp->batch
          managed,   \* the frames buddy_init has taken over
          held       \* the blocks handed out and not freed: <<page, order>>

vars == <<free, nr_free, order, flag, pcp, limit, managed, held>>

-----------------------------------------------------------------------------
(***************************************************************************)
(* The functions called with global_buddy_lock held, on the record m of    *)
(* the free lists and the pages.                                           *)
(***************************************************************************)
BuddyOf(f, o) == IF (f \div 2^o) % 2 = 0 THEN f + 2^o ELSE f - 2^o

(* add_to_free_area, after flags = 0 and order = o. *)
AddFree(m, f, o) ==
  [m EXCEPT !.free[o] = Append(@, f), !.nr[o] = @ + 1,
            !.order[f] = o, !.flag[f] = "buddy"]

(* remove_from_free_area: list_del finds the list by itself. *)
RemoveFree(m, f, o) ==
  [m EXCEPT !.free = [l \in Orders |-> Remove(@[l], f)], !.nr[o] = @ - 1,
            !.flag[f] = "none"]

(* The page's buddy exists, is free, and is as large as it. *)
CanMerge(m, f, o) ==
  LET b == BuddyOf(f, o)
  IN  b \in Frames /\ m.flag[b] = "buddy" /\ m.order[b] = o

Lower(f, g) == IF f < g THEN f ELSE g

(* One turn of the while loop that splits: the first block of order o. *)
Split(m, o) ==
  LET f == Head(m.free[o])
      b == BuddyOf(f, o - 1)
  IN  AddFree(AddFree(RemoveFree(m, f, o), b, o - 1), f, o - 1)

(* __buddy_alloc_locked: NoPage, or a page and what is left. *)
buddy_alloc(m, o) ==
  LET enough == {k \in Orders : k >= o /\ m.nr[k] > 0}
      from   == CHOOSE k \in enough : \A j \in enough : k <= j
      split[k \in o .. from] == IF k = from THEN m ELSE Split(split[k + 1], k + 1)
      f      == Head(split[o].free[o])
  IN  IF enough = {} THEN [m |-> m, page |-> NoPage]
      ELSE [m |-> RemoveFree(split[o], f, o), page |-> f]

(* Mutant: __buddy_free_locked puts the block back without merging. *)
FreeNoMerge(m, f) == IF m.flag[f] # "none" THEN m ELSE AddFree(m, f, m.order[f])

(* __buddy_free_locked: merge upwards while the buddy is free. *)
buddy_free(m, f) ==
  LET step[k \in m.order[f] .. MaxOrder - 1] ==
        IF k = m.order[f] THEN [m |-> m, at |-> f, o |-> k]
        ELSE LET s == step[k - 1]
                 b == BuddyOf(s.at, s.o)
             IN  IF s.o = k - 1 /\ CanMerge(s.m, s.at, s.o)
                 THEN [m |-> RemoveFree(s.m, b, s.o), at |-> Lower(s.at, b), o |-> k]
                 ELSE s
      last == step[MaxOrder - 1]
  IN  IF m.flag[f] # "none" \/ m.order[f] \notin Orders THEN m
      ELSE AddFree(last.m, last.at, last.o)

-----------------------------------------------------------------------------
(***************************************************************************)
(* try_merge_order: the walk over one list; where a page merges, the next  *)
(* one in the list is skipped, whatever it is.                             *)
(***************************************************************************)
try_merge_order(m, o) ==
  LET list == m.free[o]
      walk[k \in 0 .. Len(list)] ==
        IF k = 0 THEN [m |-> m, at |-> 1]
        ELSE LET s == walk[k - 1]
                 f == list[s.at]
                 b == BuddyOf(f, o)
             IN  IF s.at > Len(list) THEN s
                 ELSE IF CanMerge(s.m, f, o)
                 THEN [m |-> AddFree(RemoveFree(RemoveFree(s.m, f, o), b, o), Lower(f, b), o + 1),
                       at |-> s.at + 2]
                 ELSE [s EXCEPT !.at = @ + 1]
  IN  walk[Len(list)].m

Unset == [free |-> [o \in Orders |-> <<>>], nr |-> [o \in Orders |-> 0],
          order |-> [f \in Frames |-> MaxOrder],
          flag |-> [f \in Frames |-> "reserved"]]

MergeAll(m) ==
  LET merged[o \in Orders] == IF o = 0 THEN m ELSE try_merge_order(merged[o - 1], o - 1)
  IN  merged[MaxOrder - 1]

(* buddy_init: the pages one by one, upwards, then every order. *)
buddy_init(S) ==
  LET added[f \in FirstPfn .. LastPfn] ==   \* the pages below f
        IF f = FirstPfn THEN Unset
        ELSE IF f - 1 \in S THEN AddFree(added[f - 1], f - 1, 0)
        ELSE added[f - 1]
  IN  MergeAll(added[LastPfn])

Init ==
  /\ managed \in Layouts
  /\ LET m == buddy_init(managed)
     IN  free = m.free /\ nr_free = m.nr /\ order = m.order /\ flag = m.flag
  /\ pcp = [c \in CPUs |-> <<>>]
  /\ limit = [c \in CPUs |-> BootLimit]
  /\ held = {}

-----------------------------------------------------------------------------
Zone == [free |-> free, nr |-> nr_free, order |-> order, flag |-> flag]

PutZone(m) == free' = m.free /\ nr_free' = m.nr /\ order' = m.order /\ flag' = m.flag

(* The lists and one CPU's cache q, as pcp_refill and pcp_drain change them. *)
Push(s, f) ==
  [m |-> [s.m EXCEPT !.flag[f] = "pcp", !.order[f] = 0], q |-> <<f>> \o s.q]

pcp_refill(s, batch) ==
  LET fill[k \in 0 .. batch] ==
        IF k = 0 THEN s
        ELSE LET a == buddy_alloc(fill[k - 1].m, 0)
             IN  IF a.page = NoPage THEN fill[k - 1]
                 ELSE Push([m |-> a.m, q |-> fill[k - 1].q], a.page)
  IN  fill[batch]

(* Mutant: pcp_drain forgets to clear PAGE_PCP, and the page is refused. *)
DrainKeepsFlag(s, n) ==
  LET drain[k \in 0 .. n] ==
        IF k = 0 THEN s
        ELSE LET d == drain[k - 1]
             IN  IF d.q = <<>> THEN d
                 ELSE [m |-> buddy_free(d.m, Head(d.q)), q |-> Tail(d.q)]
  IN  drain[n]

pcp_drain(s, n) ==
  LET drain[k \in 0 .. n] ==
        IF k = 0 THEN s
        ELSE LET d == drain[k - 1]
                 f == Head(d.q)
             IN  IF d.q = <<>> THEN d
                 ELSE [m |-> buddy_free([d.m EXCEPT !.flag[f] = "none", !.order[f] = 0], f),
                       q |-> Tail(d.q)]
  IN  drain[n]

(* alloc_pages(0) on CPU c: from its cache, which is refilled when empty. *)
AllocPage(c) ==
  LET s == [m |-> Zone, q |-> pcp[c]]
      r == IF s.q = <<>> THEN pcp_refill(s, limit[c].batch) ELSE s
      f == Head(r.q)
  IN  /\ r.q # <<>>
      /\ PutZone([r.m EXCEPT !.flag[f] = "none"])
      /\ pcp' = [pcp EXCEPT ![c] = Tail(r.q)]
      /\ held' = held \cup {<<f, 0>>}
      /\ UNCHANGED <<limit, managed>>

(* alloc_pages(o) for more than a page. *)
AllocBlock(o) ==
  LET a == buddy_alloc(Zone, o)
  IN  /\ a.page # NoPage
      /\ PutZone(a.m)
      /\ held' = held \cup {<<a.page, o>>}
      /\ UNCHANGED <<pcp, limit, managed>>

(* Mutant: free_pages never drains the cache. *)
CacheWithoutDrain(c, f) == Push([m |-> Zone, q |-> pcp[c]], f)

(* A single page goes to the cache, which sheds a batch when too full. *)
Cache(c, f) ==
  LET s == Push([m |-> Zone, q |-> pcp[c]], f)
  IN  IF Len(s.q) > limit[c].high THEN pcp_drain(s, limit[c].batch) ELSE s

(* free_pages on CPU c of a block that somebody holds. *)
FreePages(c, f) ==
  /\ \E x \in held : x[1] = f /\ held' = held \ {x}
  /\ IF order[f] # 0
     THEN PutZone(buddy_free(Zone, f)) /\ UNCHANGED pcp
     ELSE LET s == Cache(c, f)
          IN  PutZone(s.m) /\ pcp' = [pcp EXCEPT ![c] = s.q]
  /\ UNCHANGED <<limit, managed>>

(* pcp_configure, at one CPU. *)
Configure(c, x) ==
  /\ x # limit[c]
  /\ LET s == pcp_drain([m |-> Zone, q |-> pcp[c]], Len(pcp[c]))
     IN  PutZone(s.m) /\ pcp' = [pcp EXCEPT ![c] = s.q]
  /\ limit' = [limit EXCEPT ![c] = x]
  /\ UNCHANGED <<managed, held>>

Next ==
  \/ \E c \in CPUs : \/ AllocPage(c)
                     \/ \E x \in held : FreePages(c, x[1])
                     \/ \E x \in Limits : Configure(c, x)
  \/ \E o \in Orders \ {0} : AllocBlock(o)

Spec == Init /\ [][Next]_vars

-----------------------------------------------------------------------------
Block(f, o) == f .. f + 2^o - 1

(* The blocks a frame belongs to, by whoever answers for it. *)
FreeBlocks == UNION {{<<f, o>> : f \in ToSet(free[o])} : o \in Orders}
Cached     == UNION {{<<f, 0>> : f \in ToSet(pcp[c])} : c \in CPUs}

TypeOK ==
  /\ free \in [Orders -> Seq(Frames)] /\ nr_free \in [Orders -> Nat]
  /\ order \in [Frames -> 0 .. MaxOrder]
  /\ flag \in [Frames -> {"none", "buddy", "pcp", "reserved"}]
  /\ pcp \in [CPUs -> Seq(Frames)] /\ limit \in [CPUs -> Limits]
  /\ managed \subseteq Frames
  /\ held \subseteq Frames \X Orders

(***************************************************************************)
(* page->flags and page->order, on which merging and free_pages decide,    *)
(* tell the truth: BUDDY and PCP just for the pages on those lists, each   *)
(* list once; a held block still has the order it was allocated with.      *)
(***************************************************************************)
PagesTellTheTruth ==
  /\ \A f \in Frames : flag[f] = "buddy" <=> \E o \in Orders : <<f, o>> \in FreeBlocks
  /\ \A f \in Frames : flag[f] = "pcp" <=> <<f, 0>> \in Cached
  /\ \A x \in FreeBlocks \cup Cached \cup held : order[x[1]] = x[2]
  /\ \A o \in Orders : nr_free[o] = Len(free[o]) /\ IsInjective(free[o])

(***************************************************************************)
(* No page is lost and none is handed out twice: after any sequence of     *)
(* calls every managed frame is in exactly one block, which is free, in    *)
(* one CPU's cache, or held, no unmanaged frame is in any, and the struct  *)
(* page of each block says which.                                          *)
(***************************************************************************)
EveryFrameOnce ==
  /\ TypeOK
  /\ PagesTellTheTruth
  /\ \A f \in Frames :
       Cardinality({x \in FreeBlocks \cup Cached \cup held : f \in Block(x[1], x[2])})
         = IF f \in managed THEN 1 ELSE 0

(***************************************************************************)
(* Merging is complete: the lists never hold both halves of a block that   *)
(* could be one, from buddy_init on, whatever memblock has reserved.       *)
(***************************************************************************)
FullyMerged ==
  \A o \in 0 .. MaxOrder - 2 : \A f \in ToSet(free[o]) :
    BuddyOf(f, o) \notin ToSet(free[o])

(***************************************************************************)
(* A CPU's cache never exceeds its high mark, also when pcp_configure has  *)
(* changed it; what is above goes back to the free lists.                  *)
(***************************************************************************)
CacheIsBounded == \A c \in CPUs : Len(pcp[c]) <= limit[c].high
=============================================================================
