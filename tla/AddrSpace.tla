----------------------------- MODULE AddrSpace ------------------------------
(***************************************************************************)
(* One address space: the list of areas of mm/vma.c, the calls of          *)
(* mm/mmap.c and mm/brk.c, the page fault of mm/page_fault.c, on the page  *)
(* tables of PgTable.                                                      *)
(*                                                                         *)
(* Every call holds mm->lock from its first look at the list to its last   *)
(* change, so a call is one step.  Addresses count pages, except the       *)
(* program break, which counts bytes; the arguments of the calls are taken *)
(* after their ALIGN_UP and ALIGN_DOWN.  kmalloc may fail where vma_split  *)
(* calls it.  Allocation of table pages does not fail (map_cb would go on  *)
(* with an entry that leads nowhere), nor that of an area in vma_add       *)
(* (which would use the error pointer): both are outside the model.        *)
(***************************************************************************)
EXTENDS PgTable, FiniteSets

CONSTANTS Frames,     \* the frames page_alloc can hand out, by number
          Top,        \* USER_SIGTRAMP_ADDR: the end of what can be mapped
          PageBytes,  \* PAGE_SIZE, the unit of the break
          StartBrk,   \* mm->start_brk, in bytes
          Breaks,     \* the breaks that the process asks for, in bytes
          Hints,      \* the addresses that mmap is called with, 0 for none
          Prots,      \* among "none", "r" and "rw"
          DataFrame   \* the frame that exec mapped for the data page

ASSUME AddrSpaceAssumption ==
  /\ Frames \subseteq Nat /\ DataFrame \in Frames
  /\ Top \in Nat /\ Top <= Size[0] * Entries /\ 1 < Top
  /\ PageBytes \in Nat \ {0} /\ StartBrk \in PageBytes + 1 .. 2 * PageBytes
  /\ Prots \subseteq {"none", "r", "rw"} /\ Breaks \cup Hints \subseteq Nat

Pages == 1 .. Top - 1

VARIABLES areas,   \* mm->vma_list
          brk,     \* mm->brk
          pt,      \* mm->pgdir
          busy,    \* the frames allocated
          mem,     \* the content of each frame: 0, 1 once stored to, 2 while free
          half     \* a munmap has failed after it freed the pages

vars == <<areas, brk, pt, busy, mem, half>>

(* What exec leaves: one page of data, mapped, with the break inside it. *)
Init ==
  /\ areas = <<[start |-> 1, end |-> 2, prot |-> "rw"]>>
  /\ brk = StartBrk
  /\ pt = Map([tab |-> [t \in Tables |-> NoEntries], used |-> {Root}], 1, DataFrame, "rw")
  /\ busy = {DataFrame}
  /\ mem = [f \in Frames |-> IF f = DataFrame THEN 0 ELSE 2]
  /\ half = FALSE

-----------------------------------------------------------------------------
(* The list of areas: sequences s of [start, end, prot]. *)
Holds(a, p) == a.start <= p /\ p < a.end

InArea(s, p) == \E i \in DOMAIN s : Holds(s[i], p)

AreaOf(s, p) == s[CHOOSE i \in DOMAIN s : Holds(s[i], p)]   \* vma_find

(* vma_merge of the areas at i and i + 1, if both are there and fit. *)
Merges(s, i) ==
  i \in 1 .. Len(s) - 1 /\ s[i].end = s[i+1].start /\ s[i].prot = s[i+1].prot

Merge(s, i) ==
  IF Merges(s, i) THEN RemoveAt([s EXCEPT ![i].end = s[i+1].end], i + 1) ELSE s

(* vma_insert: -EFAULT on an overlap; else merge with prev, then with next. *)
Below(s, a) == Cardinality({i \in DOMAIN s : s[i].end <= a.start})

CanInsert(s, a) ==
  Below(s, a) = Len(s) \/ a.end <= s[Below(s, a) + 1].start

Insert(s, a) ==
  LET k  == Below(s, a)
      s1 == InsertAt(s, k + 1, a)
  IN  Merge(Merge(s1, k), IF Merges(s1, k) THEN k ELSE k + 1)

(* vma_add: it looks at the first page only, vma_insert at the rest. *)
Add(s, a) == IF InArea(s, a.start) \/ ~CanInsert(s, a) THEN s ELSE Insert(s, a)

(* vma_split at va of the area that has va inside it, if there is one. *)
NeedSplit(s, va) == \E i \in DOMAIN s : s[i].start < va /\ va < s[i].end

SplitArea(s, va) ==
  IF ~NeedSplit(s, va) THEN s
  ELSE LET i == CHOOSE i \in DOMAIN s : s[i].start < va /\ va < s[i].end
       IN  InsertAt([s EXCEPT ![i].end = va], i + 1, [s[i] EXCEPT !.start = va])

(***************************************************************************)
(* The two splits at the start of vma_delete and vma_protect: the lists    *)
(* that a failure of the first or of the second leaves, and the list after *)
(* both.                                                                   *)
(***************************************************************************)
SplitFailures(s, lo, hi) ==
  {t \in {s, SplitArea(s, lo)} :
     (t = s /\ NeedSplit(s, lo)) \/ (t = SplitArea(s, lo) /\ NeedSplit(t, hi))}

SplitBoth(s, lo, hi) == SplitArea(SplitArea(s, lo), hi)

Inside(a, lo, hi) == lo < a.end /\ a.start < hi

(* vma_merge_all. *)
MergeAll(s) ==
  FoldLeft(LAMBDA t, a : Merge(Append(t, a), Len(t)), <<>>, s)

-----------------------------------------------------------------------------
(* mmap_range_valid and vma_range_is_free, of the pages lo .. hi - 1. *)
RangeValid(lo, hi) == 1 <= lo /\ lo < hi /\ hi <= Top

RangeFree(lo, hi) ==
  RangeValid(lo, hi) /\ \A i \in DOMAIN areas : ~Inside(areas[i], lo, hi)

(* find_free_range_from: the first fit at from or at the end of an area. *)
FirstFit(from, n) ==
  LET C == {c \in {from} \cup {areas[i].end : i \in DOMAIN areas} :
              c >= from /\ RangeFree(c, c + n)}
  IN  IF C = {} THEN 0 ELSE CHOOSE c \in C : \A d \in C : c <= d

PageUp(b) == (b + PageBytes - 1) \div PageBytes   \* ALIGN_UP, in pages

(* find_free_range: above the hint, else above the break and one page. *)
FindFree(hint, n) ==
  LET base == PageUp(brk + PageBytes)
      near == IF hint >= base THEN FirstFit(hint, n) ELSE 0
  IN  IF near # 0 THEN near ELSE FirstFit(base, n)

(* sys_mmap; hint = 0 is no hint.  do_mmap ignores what vma_add returns. *)
sys_mmap(hint, n, fixed, a) ==
  LET target == IF fixed THEN (IF RangeFree(hint, hint + n) THEN hint ELSE 0)
                ELSE IF hint # 0 /\ RangeFree(hint, hint + n) THEN hint
                ELSE FindFree(hint, n)
  IN  /\ ~half
      /\ target # 0
      /\ areas' = Add(areas, [start |-> target, end |-> target + n, prot |-> a])
      /\ UNCHANGED <<brk, pt, busy, mem, half>>

(* The pages of lo .. hi - 1 that pgtbl_lookup finds. *)
Mapped(lo, hi) == {p \in lo .. hi - 1 : Lookup(pt, p) # NoPte}

(* free_mapped_pages, before anything is taken off the list or unmapped. *)
FreeMapped(lo, hi) == busy \ {Lookup(pt, p).pa : p \in Mapped(lo, hi)}

(* A free frame holds what anybody left there, which is nobody else's to read. *)
Stale(b) == [f \in Frames |-> IF f \in b THEN mem[f] ELSE 2]

(* The bound on table pages: enough are left to split every large leaf. *)
RoomToSplit ==
  Cardinality(Tables \ pt.used) >= (Levels - 1) * Cardinality(LargeLeaves(pt))

(* sys_munmap. *)
sys_munmap(lo, hi) ==
  /\ ~half
  /\ RangeValid(lo, hi)
  /\ RoomToSplit
  /\ busy' = FreeMapped(lo, hi)
  /\ areas' = SelectSeq(SplitBoth(areas, lo, hi), LAMBDA a : ~Inside(a, lo, hi))
  /\ pt' = Unmap(pt, lo, hi)
  /\ mem' = Stale(busy')
  /\ UNCHANGED <<brk, half>>

(* A split fails: do_unmap returns before unmap, the pages have been freed. *)
MunmapFails(lo, hi) ==
  /\ ~half
  /\ RangeValid(lo, hi)
  /\ areas' \in SplitFailures(areas, lo, hi)
  /\ busy' = FreeMapped(lo, hi)
  /\ half' = (Mapped(lo, hi) # {})
  /\ UNCHANGED <<brk, pt, mem>>

(* Mutant: only the first page is remapped. *)
RemapFirst(lo, hi, a) == IF Lookup(pt, lo) = NoPte THEN pt ELSE Remap(pt, lo, a)

(* The loop at the end of sys_mprotect over the pages that are there. *)
RemapPages(lo, hi, a) ==
  FoldLeft(LAMBDA p, v : IF Lookup(p, v) = NoPte THEN p ELSE Remap(p, v, a),
           pt, [i \in 1 .. hi - lo |-> lo + i - 1])

(* sys_mprotect: vma_protect, then the pages. *)
sys_mprotect(lo, hi, a) ==
  /\ ~half
  /\ RangeValid(lo, hi)
  /\ \A p \in lo .. hi - 1 : InArea(areas, p)      \* vma_range_is_mapped
  /\ RoomToSplit
  /\ LET s == SplitBoth(areas, lo, hi)
     IN  areas' = MergeAll([i \in DOMAIN s |->
                     IF Inside(s[i], lo, hi) THEN [s[i] EXCEPT !.prot = a] ELSE s[i]])
  /\ pt' = RemapPages(lo, hi, a)
  /\ UNCHANGED <<brk, busy, mem, half>>

MprotectFails(lo, hi) ==
  /\ ~half
  /\ RangeValid(lo, hi)
  /\ \A p \in lo .. hi - 1 : InArea(areas, p)
  /\ areas' \in SplitFailures(areas, lo, hi)
  /\ UNCHANGED <<brk, pt, busy, mem, half>>

(* sys_brk: growing adds page by page, shrinking only moves the break. *)
sys_brk(new) ==
  /\ ~half
  /\ StartBrk <= new /\ new < Top * PageBytes
  /\ areas' = FoldLeft(LAMBDA s, p : Add(s, [start |-> p, end |-> p + 1, prot |-> "rw"]),
                       areas, [i \in 1 .. PageUp(new) - PageUp(brk) |-> PageUp(brk) + i - 1])
  /\ brk' = new
  /\ UNCHANGED <<pt, busy, mem, half>>

(* Mutant: a new page shows what the frame held before. *)
FillNothing(f) == mem

(* The memset of a new page. *)
FillZero(f) == [mem EXCEPT ![f] = 0]

(* do_page_fault for an access of a kind the area allows. *)
do_page_fault(p, write) ==
  /\ ~half
  /\ InArea(areas, p)
  /\ AreaOf(areas, p).prot \in (IF write THEN {"rw"} ELSE {"r", "rw"})
  /\ Lookup(pt, p) = NoPte
  /\ Cardinality(Tables \ pt.used) >= Levels - 1
  /\ CanMap(pt, p)
  /\ \E f \in Frames \ busy :
       /\ pt' = Map(pt, p, f, AreaOf(areas, p).prot)
       /\ busy' = busy \cup {f}
       /\ mem' = FillZero(f)
  /\ UNCHANGED <<areas, brk, half>>

(* The process stores to a page that the tables let it write. *)
Store(p) ==
  /\ ~half
  /\ Lookup(pt, p) # NoPte /\ Lookup(pt, p).prot = "rw"
  /\ mem' = [mem EXCEPT ![Lookup(pt, p).pa] = 1]
  /\ UNCHANGED <<areas, brk, pt, busy, half>>

Next ==
  \/ \E lo \in Pages, hi \in Pages \cup {Top} :
       \/ sys_munmap(lo, hi) \/ MunmapFails(lo, hi) \/ MprotectFails(lo, hi)
       \/ \E a \in Prots : sys_mprotect(lo, hi, a)
  \/ \E n \in 1 .. Top - 2, a \in Prots :
       \/ \E hint \in Hints : sys_mmap(hint, n, FALSE, a)
       \/ \E hint \in Pages : sys_mmap(hint, n, TRUE, a)
  \/ \E new \in Breaks : sys_brk(new)
  \/ \E p \in Pages : Store(p) \/ \E w \in BOOLEAN : do_page_fault(p, w)

Spec == Init /\ [][Next]_vars

-----------------------------------------------------------------------------
(* The page tables have room for the splits of every call: see the header. *)
TypeOK ==
  /\ areas \in Seq([start : Pages, end : Pages \cup {Top}, prot : {"none", "r", "rw"}])
  /\ brk \in {StartBrk} \cup Breaks
  /\ pt.used \subseteq Tables /\ Root \in pt.used
  /\ busy \subseteq Frames
  /\ mem \in [Frames -> 0 .. 2]
  /\ half \in BOOLEAN

(***************************************************************************)
(* The list of areas stays sorted, its areas are not empty and do not      *)
(* overlap, whatever is split, merged, removed or left by a failed call.   *)
(***************************************************************************)
AreasInOrder ==
  \A i \in DOMAIN areas :
    /\ areas[i].start < areas[i].end
    /\ i < Len(areas) => areas[i].end <= areas[i+1].start

(***************************************************************************)
(* The areas are in order, and a page that the hardware can reach lies in  *)
(* one, with the rights of that area: munmap and mprotect leave no page    *)
(* behind.                                                                 *)
(***************************************************************************)
PagesHaveAreas ==
  /\ TypeOK
  /\ AreasInOrder
  /\ \A p \in Space :
       Lookup(pt, p) # NoPte =>
         InArea(areas, p) /\ AreaOf(areas, p).prot = Lookup(pt, p).prot

(***************************************************************************)
(* A reachable page has an allocated frame, and no other page has it; only *)
(* a munmap that failed half-way breaks this.                              *)
(***************************************************************************)
FramesOwnedOnce ==
  ~half =>
    LET pte == [p \in Pages |-> Lookup(pt, p)]
    IN  \A p \in Pages : pte[p] # NoPte =>
          /\ pte[p].pa \in busy
          /\ \A q \in Pages \ {p} : pte[q] # NoPte => pte[q].pa # pte[p].pa

(***************************************************************************)
(* A table page that an entry points to is allocated and has no other such *)
(* entry: splitting, merging and the freeing of empty tables leave neither *)
(* a dangling table nor a shared one.                                      *)
(***************************************************************************)
TablesLinkedOnce ==
  \A x \in Links(pt) :
    /\ pt.tab[x[1]][x[2]].pa \in pt.used
    /\ \A y \in Links(pt) \ {x} : pt.tab[x[1]][x[2]].pa # pt.tab[y[1]][y[2]].pa

(***************************************************************************)
(* The whole construction does what AddrMap says: a page reads as the      *)
(* content of its frame, and as zero before it has one.                    *)
(***************************************************************************)
ProtOf(p)    == IF InArea(areas, p) THEN AreaOf(areas, p).prot ELSE "unmapped"
ContentOf(p) == LET e == Lookup(pt, p) IN IF e = NoPte THEN 0 ELSE mem[e.pa]

View == INSTANCE AddrMap WITH
          Pages <- Pages, Prots <- Prots,
          First <- [p \in Pages |-> IF p = 1 THEN "rw" ELSE "unmapped"],
          prot <- [p \in Pages |-> ProtOf(p)],
          content <- [p \in Pages |-> ContentOf(p)]

MemoryIsKept == View!Spec
=============================================================================
