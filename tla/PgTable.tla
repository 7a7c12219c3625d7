------------------------------ MODULE PgTable -------------------------------
(***************************************************************************)
(* The multi-level page tables of mm/pgtbl.c with the RISC-V entries of    *)
(* arch/riscv64/mm/pgtbl.c, as operators on a page table                   *)
(*                                                                         *)
(*    pt.tab[t][i]   entry i of the table page t                           *)
(*    pt.used        the table pages allocated and not freed               *)
(*                                                                         *)
(* Addresses count pages.  An entry is NoPte or holds an address and a     *)
(* protection; the hardware format has no other mark of a leaf than a bit  *)
(* of R, W, X: an entry without one points to a table.                     *)
(***************************************************************************)
EXTENDS Naturals, SequencesExt

CONSTANTS Levels,   \* support_levels
          Entries,  \* the entries of a table page
          Tables,   \* the pages that page_alloc can hand out for tables
          Root,     \* pgtbl->root
          NoPte, NoTable

ASSUME PgTableAssumption ==
  /\ Levels \in Nat \ {0} /\ Entries \in Nat \ {0, 1}
  /\ Root \in Tables /\ NoTable \notin Tables

Level == 0 .. Levels - 1

(* The pages that an entry of level l maps: features->level[l].page_size. *)
Size == [l \in Level |-> Entries ^ (Levels - 1 - l)]

(* The virtual pages that the tables can map. *)
Space == 0 .. Size[0] * Entries - 1

Index == [l \in Level, va \in Space |-> (va \div Size[l]) % Entries]

IsLeaf(e)  == e # NoPte /\ e.prot # "none"

Pte(pt, t, l, va) == pt.tab[t][Index[l, va]]

SetPte(pt, t, l, va, e) == [pt EXCEPT !.tab[t][Index[l, va]] = e]

(* The table page of every level on the way to va, as far as there is one. *)
TablesTo(pt, va) ==
  LET T[l \in Level] ==
        IF l = 0 THEN Root
        ELSE LET t == T[l-1]
                 e == Pte(pt, t, l - 1, va)
             IN  IF t = NoTable \/ e = NoPte \/ IsLeaf(e) THEN NoTable ELSE e.pa
  IN  T

(* The level of the leaf above level l on the way to va, if there is one. *)
LeafAbove(pt, T, l, va) ==
  {k \in 0 .. l - 1 : T[k] # NoTable /\ IsLeaf(Pte(pt, T[k], k, va))}

(***************************************************************************)
(* look_cb: what pgtbl_lookup and pgtbl_lookup_prot return, NoPte where    *)
(* they return 0.  A last-level entry without R, W and X is no leaf either. *)
(***************************************************************************)
Lookup(pt, va) ==
  LET W[l \in Level, t \in Tables] ==
        LET e == Pte(pt, t, l, va)
        IN  IF IsLeaf(e) THEN [pa |-> e.pa + (va % Size[l]), prot |-> e.prot]
            ELSE IF e = NoPte \/ l = Levels - 1 THEN NoPte
            ELSE W[l + 1, e.pa]
  IN  W[0, Root]

-----------------------------------------------------------------------------
(* alloc_table_va: any page will do.  Its entries are cleared. *)
NewTable(pt) == CHOOSE t \in Tables \ pt.used : TRUE

AddTable(pt, c, entries) ==
  [tab |-> [pt.tab EXCEPT ![c] = entries], used |-> pt.used \cup {c}]

NoEntries == [i \in 0 .. Entries - 1 |-> NoPte]

(* Mutant: every smaller leaf gets the address of the large one. *)
SplitNoOffset(pt, t, l, va) ==
  LET e == Pte(pt, t, l, va)
      c == NewTable(pt)
  IN  SetPte(AddTable(pt, c, [i \in 0 .. Entries - 1 |-> e]),
             t, l, va, [pa |-> c, prot |-> "none"])

(* pgtbl_split: the leaf of level l becomes a table of smaller ones. *)
Split(pt, t, l, va) ==
  LET e == Pte(pt, t, l, va)
      c == NewTable(pt)
  IN  SetPte(AddTable(pt, c, [i \in 0 .. Entries - 1 |->
                                [pa |-> e.pa + i * Size[l + 1], prot |-> e.prot]]),
             t, l, va, [pa |-> c, prot |-> "none"])

(* map_cb above the target level: a missing table is created. *)
Grow(pt, t, l, va) ==
  IF Pte(pt, t, l, va) # NoPte THEN pt
  ELSE LET c == NewTable(pt)
       IN  SetPte(AddTable(pt, c, NoEntries), t, l, va, [pa |-> c, prot |-> "none"])

(* remap_cb and unmap_cb above the target level: a leaf in the way is split. *)
SplitLeaf(pt, t, l, va) ==
  IF IsLeaf(Pte(pt, t, l, va)) THEN Split(pt, t, l, va) ELSE pt

(* pgtbl_walk down to level n with Visit at each level above it. *)
Descend(pt, va, n, Visit(_, _, _, _)) ==
  LET D[l \in 0 .. n] ==
        IF l = 0 THEN pt
        ELSE LET d == D[l-1] IN Visit(d, TablesTo(d, va)[l-1], l - 1, va)
  IN  D[n]

(* pgtbl_table_need_merge: all leaves, contiguous, with the same rights. *)
NeedMerge(pt, t, l) ==
  \A i \in 0 .. Entries - 1 :
    /\ IsLeaf(pt.tab[t][i])
    /\ pt.tab[t][i].pa = pt.tab[t][0].pa + i * Size[l]
    /\ pt.tab[t][i].prot = pt.tab[t][0].prot

IsEmpty(pt, t, l) == \A i \in 0 .. Entries - 1 : pt.tab[t][i] = NoPte

(* pgtbl_merge: the table's first leaf takes the table's place above it. *)
MergedEntry(pt, t) == pt.tab[t][0]

(* Mutant: the entry above an empty table is not cleared. *)
KeptEntry(pt, t) == [pa |-> t, prot |-> "none"]

ClearedEntry(pt, t) == NoPte

(* free_table_va; the page's old content does not matter. *)
FreeTable(pt, t) == [tab |-> [pt.tab EXCEPT ![t] = NoEntries], used |-> pt.used \ {t}]

(***************************************************************************)
(* The loops at the end of map_cb, remap_cb and unmap_cb: from level n up, *)
(* a table that satisfies Full is freed and its entry above replaced.      *)
(***************************************************************************)
Climb(pt, va, n, Full(_, _, _), Entry(_, _)) ==
  LET T == TablesTo(pt, va)
      C[l \in 1 .. n + 1] ==   \* the table after level l, and whether to go on
        IF l > n THEN [pt |-> pt, go |-> TRUE]
        ELSE LET below == C[l+1]
             IN  IF below.go /\ Full(below.pt, T[l], l)
                 THEN [pt |-> FreeTable(SetPte(below.pt, T[l-1], l - 1, va,
                                               Entry(below.pt, T[l])), T[l]),
                       go |-> TRUE]
                 ELSE [pt |-> below.pt, go |-> FALSE]
  IN  IF n = 0 THEN pt ELSE C[1].pt

-----------------------------------------------------------------------------
(* map_cb's and remap_cb's work at the target level of a page. *)
SetPage(pt, va, pa, prot) ==
  LET n   == Levels - 1
      set == SetPte(pt, TablesTo(pt, va)[n], n, va, [pa |-> pa, prot |-> prot])
  IN  Climb(set, va, n, NeedMerge, MergedEntry)

(* map() of one page; it fails under an existing larger leaf. *)
CanMap(pt, va) == LeafAbove(pt, TablesTo(pt, va), Levels - 1, va) = {}

Map(pt, va, pa, prot) == SetPage(Descend(pt, va, Levels - 1, Grow), va, pa, prot)

(* remap() of one page that pgtbl_lookup finds. *)
Remap(pt, va, prot) ==
  SetPage(Descend(pt, va, Levels - 1, SplitLeaf), va, Lookup(pt, va).pa, prot)

(* highest_possible_level with pa = 0. *)
HighestLevel(va, n) ==
  CHOOSE l \in Level :
    /\ va % Size[l] = 0 /\ n >= Size[l]
    /\ \A k \in 0 .. l - 1 : ~(va % Size[k] = 0 /\ n >= Size[k])

(***************************************************************************)
(* pgtbl_unmap at level n.  A missing table ends the walk.  The entry that *)
(* is cleared may point to a table, which then stays allocated.            *)
(***************************************************************************)
UnmapAt(pt, va, n) ==
  LET T == TablesTo(pt, va)
  IN  IF T[n] = NoTable /\ LeafAbove(pt, T, n, va) = {} THEN pt
      ELSE LET d == Descend(pt, va, n, SplitLeaf)
           IN  Climb(SetPte(d, TablesTo(d, va)[n], n, va, NoPte), va, n,
                     IsEmpty, ClearedEntry)

(* unmap() of the pages lo .. hi - 1, in the steps of its while loop. *)
Unmap(pt, lo, hi) ==
  LET step(v)  == Size[HighestLevel(v, hi - v)]
      start[v \in lo .. hi - 1] == v = lo \/ \E u \in lo .. v - 1 : start[u] /\ u + step(u) = v
      todo == SetToSortSeq({v \in lo .. hi - 1 : start[v]}, <)
  IN  FoldLeft(LAMBDA p, v : UnmapAt(p, v, HighestLevel(v, hi - v)), pt, todo)

(* The leaves above the last level on the way to some page. *)
LargeLeaves(pt) ==
  {x \in pt.used \X (0 .. Entries - 1) :
     \E va \in Space : \E l \in 0 .. Levels - 2 :
       LET t == TablesTo(pt, va)[l]
       IN  x[1] = t /\ x[2] = Index[l, va] /\ IsLeaf(Pte(pt, t, l, va))}

(* The tables that a walk can reach, and the entries that lead to them. *)
Links(pt) == {x \in pt.used \X (0 .. Entries - 1) :
                LET e == pt.tab[x[1]][x[2]]
                IN  e # NoPte /\ e.prot = "none" /\ e.pa \in Tables}
=============================================================================
