----------------------------- MODULE PageCache -----------------------------
(***************************************************************************)
(* The page cache (fs/pagecache.c over lib/lru.c) as ext2 uses it: file    *)
(* reads with read-ahead, write-through file writes, the read-modify-write *)
(* of directory pages, the freeing of a file's blocks by unlink and the    *)
(* eviction of an inode, over a block device whose requests may fail.      *)
(*                                                                         *)
(* One CPU: nothing on these paths sleeps (the block driver polls), so a   *)
(* call runs to its end; it is split into steps so that the states in the  *)
(* middle of it are checked as well.  Data are kept per file system block: *)
(* a block holds a value of Values, Junk is what a freshly allocated block *)
(* held before, Hole an unallocated block.  The inode itself (size and     *)
(* block map) is kept: its own write-back is not modelled.                 *)
(***************************************************************************)
EXTENDS Integers, Sequences, FiniteSets, FiniteSetsExt

CONSTANTS
  Files,        \* inodes with pages
  Dirs,         \* the ones that are directories
  Span,         \* Span[f]: blocks f may grow to (bound)
  PerPage,      \* blocks per page
  MaxPages,     \* PAGECACHE_MAX_PAGES
  ReadAhead,    \* PAGECACHE_RA_MAX_PAGES
  Values,       \* contents of a block; 0 is a block of zeros
  Hole, Junk,
  MaxWrite,     \* blocks of one write call (bound)
  MaxFaults,    \* failing device requests (bound)
  MaxPins       \* references lost by the callers (bound)

ASSUME PageCacheAssumption ==
  /\ Dirs \subseteq Files /\ IsFiniteSet(Files)
  /\ Span \in [Files -> Nat \ {0}]
  /\ \A d \in Dirs : Span[d] <= PerPage      \* bound: one page per directory
  /\ {PerPage, MaxPages, ReadAhead} \subseteq Nat \ {0}
  /\ {MaxWrite, MaxFaults, MaxPins} \subseteq Nat
  /\ {0, 1} \subseteq Values /\ {Hole, Junk} \cap Values = {} /\ Hole # Junk

VARIABLES
  lru,      \* g_pagecache: the cached pages, most recently used first
  nrpages,  \* mapping->nrpages
  disk,     \* disk[f][n]: block n of f on the device, or Hole
  size,     \* i_size, in blocks
  op,       \* the call in progress
  may,      \* history: what a read of block n of f may return
  pins,     \* history: references to the page that nobody will put
  faults    \* history: failed requests so far

vars == <<lru, nrpages, disk, size, op, may, pins, faults>>

Slots == 0 .. PerPage - 1
LastPage(f) == (Span[f] - 1) \div PerPage
Keys == UNION {{f} \X (0 .. LastPage(f)) : f \in Files}
Block(k, i) == k[2] * PerPage + i
BlocksOf(f) == 0 .. PerPage * (LastPage(f) + 1) - 1

Idle == [call |-> "none", at |-> "idle", key |-> <<>>, held |-> <<>>,
         from |-> 0, to |-> 0, done |-> FALSE, ra |-> FALSE]

Page == [key : Keys, ref : Nat, upt : BOOLEAN, dirty : BOOLEAN,
         mask : SUBSET Slots, data : [Slots -> Values \cup {Junk}]]

(* Files are empty, a directory has the block mkdir gave it. *)
Init ==
  /\ lru = <<>> /\ nrpages = [f \in Files |-> 0]
  /\ disk = [f \in Files |-> [n \in BlocksOf(f) |->
                IF f \in Dirs /\ n = 0 THEN 1 ELSE Hole]]
  /\ size = [f \in Files |-> IF f \in Dirs THEN 1 ELSE 0]
  /\ op = Idle
  /\ may = [f \in Files |-> [n \in BlocksOf(f) |->
                IF f \in Dirs /\ n = 0 THEN {1} ELSE {0}]]
  /\ pins = [k \in Keys |-> 0] /\ faults = 0
-----------------------------------------------------------------------------
(* The cache itself. *)

Cached(s, k) == \E j \in DOMAIN s : s[j].key = k
PageAt(s, k) == s[CHOOSE j \in DOMAIN s : s[j].key = k]

(* The list s without the pages of K, which lru_cache_release_node takes   *)
(* out of it.                                                              *)
Without(s, K) ==
  LET kept[j \in 0 .. Len(s)] ==
        IF j = 0 THEN <<>>
        ELSE IF s[j].key \in K THEN kept[j - 1] ELSE Append(kept[j - 1], s[j])
  IN kept[Len(s)]

(* lru_cache_touch: page k becomes the most recently used, in its form p. *)
Touch(s, p) == <<p>> \o Without(s, {p.key})

(* A page changed where it stands. *)
Changed(s, p) == [j \in DOMAIN s |-> IF s[j].key = p.key THEN p ELSE s[j]]

(* What readpage finds for slot i of page k: zeros past the end of the     *)
(* file and for a block that is not allocated.                             *)
Content(k, i) ==
  LET n == Block(k, i)
  IN IF n >= size[k[1]] \/ disk[k[1]][n] = Hole THEN 0 ELSE disk[k[1]][n]

(* Mutant: the end of the file is taken one block too early. *)
ReadPageShort(p) ==
  [p EXCEPT !.upt = TRUE,
            !.data = [i \in Slots |-> IF Block(p.key, i) + 1 >= size[p.key[1]]
                                      THEN 0 ELSE Content(p.key, i)]]

ReadPage(p) ==
  [p EXCEPT !.upt = TRUE, !.data = [i \in Slots |-> Content(p.key, i)]]

(* ext2_writepage: the blocks of a dirty page that go to the device.  A    *)
(* page without a mask is written whole, its holes left out.               *)
ToWrite(p) ==
  {i \in Slots : /\ p.mask = {} \/ i \in p.mask
                 /\ disk[p.key[1]][Block(p.key, i)] # Hole}

(* A masked block must be allocated. *)
Writable(p) ==
  p.mask = {} \/ \A i \in p.mask : disk[p.key[1]][Block(p.key, i)] # Hole

DirtyIn(s, K) == {k \in K : PageAt(s, k).dirty}

(* What reaches the device when the dirty pages of K are written: every    *)
(* block of a page whose request succeeds, some of the others.             *)
Landings(s, K) ==
  {g \in [DirtyIn(s, K) -> SUBSET Slots] :
     \A k \in DOMAIN g : g[k] \subseteq ToWrite(PageAt(s, k))}

Failed(s, g) == {k \in DOMAIN g : g[k] # ToWrite(PageAt(s, k)) \/ ~Writable(PageAt(s, k))}

(* The device after the pages of g were written as far as g says. *)
Stored(s, g) ==
  [f \in Files |-> [n \in BlocksOf(f) |->
     LET k == <<f, n \div PerPage>>
     IN IF k \in DOMAIN g /\ (n % PerPage) \in g[k]
        THEN PageAt(s, k).data[n % PerPage] ELSE disk[f][n]]]

Faulty(n) == faults + n <= MaxFaults /\ faults' = faults + n

(* lru_cache_release_node for the pages of K of the list s: each is        *)
(* unhashed, unlinked, synced with the result ignored, and freed.  nr are  *)
(* the counts before, g is what reaches the device.                        *)
Released(s, nr, K, g) ==
  /\ lru' = Without(s, K)
  /\ nrpages' = [f \in Files |-> nr[f] - Cardinality({k \in K : k[1] = f})]
  /\ disk' = Stored(s, g)
  /\ Faulty(Cardinality(Failed(s, g)))

(* Mutant: reclaim does not look at the reference count. *)
VictimsAny(s) ==
  {s[j].key : j \in {j \in DOMAIN s : j > MaxPages}}

(* pagecache_reclaim_pages: the pages over the limit, taken from the tail, *)
(* the referenced ones passed over.                                        *)
Victims(s) ==
  LET free == {j \in DOMAIN s : s[j].ref = 0}
  IN {s[j].key : j \in {j \in free :
        Cardinality({i \in free : i >= j}) <= Len(s) - MaxPages}}

NewPage(k) == [key |-> k, ref |-> 1, upt |-> FALSE, dirty |-> FALSE,
               mask |-> {}, data |-> [i \in Slots |-> 0]]

(* Mutant: the cache is never reclaimed. *)
GetPageNoReclaim(k) ==
  IF Cached(lru, k)
  THEN /\ lru' = Touch(lru, [PageAt(lru, k) EXCEPT !.ref = @ + 1])
       /\ UNCHANGED <<nrpages, disk, faults>>
  ELSE Released(<<NewPage(k)>> \o lru, [nrpages EXCEPT ![k[1]] = @ + 1], {}, <<>>)

(* pagecache_get_page: one more reference to page k, found or added.       *)
GetPage(k) ==
  \/ /\ Cached(lru, k)
     /\ lru' = Touch(lru, [PageAt(lru, k) EXCEPT !.ref = @ + 1])
     /\ UNCHANGED <<nrpages, disk, faults>>
  \/ /\ ~Cached(lru, k)
     /\ LET s == <<NewPage(k)>> \o lru
        IN \E g \in Landings(s, Victims(s)) :
             Released(s, [nrpages EXCEPT ![k[1]] = @ + 1], Victims(s), g)

(* pagecache_put_page *)
PutPage(s, k) ==
  Touch(s, [PageAt(s, k) EXCEPT !.ref = IF @ > 0 THEN @ - 1 ELSE @])

(* The pages of held behind the first are put, one after the other. *)
PutExtra(s, held) ==
  LET put[j \in 0 .. Len(held) - 1] ==
        IF j = 0 THEN s ELSE PutPage(put[j - 1], held[j + 1])
  IN put[Len(held) - 1]

(* pagecache_sync_page of the dirty page k, with ok telling whether the    *)
(* write succeeded; a failed page stays dirty.                             *)
SyncPage(s, k, ok) ==
  IF ok THEN Changed(s, [PageAt(s, k) EXCEPT !.dirty = FALSE, !.mask = {},
                                             !.upt = TRUE])
  ELSE s
-----------------------------------------------------------------------------
(* Calls.  A call starts, gets the page it needs, has it filled, changes   *)
(* it and writes it, or leaves it.                                         *)

Main == op.key
File == op.key[1]
CacheSame == UNCHANGED <<lru, nrpages, disk, faults>>

Call(call, k, from, to, ra, at) ==
  [call |-> call, at |-> at, key |-> k, held |-> <<>>,
   from |-> from, to |-> to, done |-> FALSE, ra |-> ra]

(* pagecache_read_page for ext2_file_read; ra says whether read-ahead is   *)
(* allowed (a sequential reader).                                          *)
ReadCalls(f) ==
  {Call("read", <<f, p>>, 0, 0, ra, "grab") :
     p \in {p \in 0 .. LastPage(f) : p * PerPage < size[f]}, ra \in BOOLEAN}

(* ext2_file_write of blocks from .. to - 1. *)
WriteCalls(f) ==
  {Call("write", <<f, r[1] \div PerPage>>, r[1], r[2], FALSE, "prepare") :
     r \in {r \in (0 .. Span[f] - 1) \X (1 .. Span[f]) :
              r[1] < r[2] /\ r[2] <= r[1] + MaxWrite}}

(* The directory calls: ext2_add_entry (which looks for a slot first),     *)
(* ext2_delete_entry and ext2_find.                                        *)
DirCalls(d) ==
  {Call(r[1], <<d, 0>>, r[2], r[2] + 1, FALSE, "grab") :
     r \in {"scan", "delete"} \X (0 .. size[d] - 1)}
  \cup {Call("lookup", <<d, 0>>, 0, 0, FALSE, "grab")}

Calls ==
  (UNION {ReadCalls(f) \cup WriteCalls(f) : f \in Files \ Dirs})
    \cup (UNION {DirCalls(d) : d \in Dirs})

(* The call in progress or, between calls, every call a task may make. *)
Pending == IF op.at # "idle" THEN {op} ELSE Calls

(* The blocks of the range that lie in the page being worked on. *)
Chunk(c) == {n \in c.from .. c.to - 1 : n \div PerPage = c.key[2]}

(* The end of call c; a file write extends the file to what it has written *)
(* of its range, at its end only.                                          *)
Finish(c, pos) ==
  /\ op' = Idle
  /\ size' = IF c.call = "write" /\ c.done
             THEN [size EXCEPT ![c.key[1]] = Max({@, pos})] ELSE size

(* ext2_prepare_write, ext2_block_set_mapping: the holes of the range are  *)
(* allocated and zeroed on the device.                                     *)
Prepare(c) ==
  /\ c.at = "prepare"
  /\ disk' = [disk EXCEPT ![c.key[1]] = [n \in DOMAIN @ |->
                IF n \in Chunk(c) /\ @[n] = Hole THEN 0 ELSE @[n]]]
  /\ op' = [c EXCEPT !.at = "grab"]
  /\ UNCHANGED <<lru, nrpages, size, may, pins, faults>>

(* No block, or the zeroing fails: then the block stays mapped with what   *)
(* it held, and the call fails.                                            *)
PrepareFails(c) ==
  /\ c.at = "prepare"
  /\ \E n \in Chunk(c), zeroing \in BOOLEAN :
       LET f == c.key[1]
       IN /\ disk[f][n] = Hole
          /\ Faulty(IF zeroing THEN 1 ELSE 0)
          /\ disk' = [disk EXCEPT ![f] = [m \in DOMAIN @ |->
                        IF m \in Chunk(c) /\ @[m] = Hole /\ m < n THEN 0
                        ELSE IF m = n /\ zeroing THEN Junk ELSE @[m]]]
          /\ may' = IF zeroing THEN [may EXCEPT ![f][n] = @ \cup {Junk}] ELSE may
  /\ Finish(c, c.from)
  /\ UNCHANGED <<lru, nrpages, pins>>

(* The page of the call is taken. *)
Grab(c) ==
  /\ c.at = "grab"
  /\ GetPage(c.key)
  /\ op' = [c EXCEPT !.held = <<c.key>>,
                     !.at = IF c.call # "read" THEN "fill"
                            ELSE IF Cached(lru, c.key) /\ PageAt(lru, c.key).upt
                                 THEN "leave" ELSE "ahead"]
  /\ UNCHANGED <<size, may, pins>>

(* alloc_pages or the hash insertion fails. *)
GrabFails(c) ==
  /\ c.at = "grab" /\ ~Cached(lru, c.key)
  /\ Finish(c, c.from)
  /\ CacheSame /\ UNCHANGED <<may, pins>>

(* Read-ahead takes references to the following pages of the file before   *)
(* any page is locked.                                                     *)
NextAhead == <<File, Main[2] + Len(op.held)>>

Ahead ==
  /\ op.at = "ahead"
  /\ op.ra /\ Len(op.held) < ReadAhead
  /\ NextAhead[2] * PerPage < size[File]
  /\ GetPage(NextAhead)
  /\ op' = [op EXCEPT !.held = Append(@, NextAhead)]
  /\ UNCHANGED <<size, may, pins>>

(* No more pages: the window is full, the file ends, there is no memory    *)
(* for another page, or the reader is not sequential.                      *)
AheadEnds ==
  /\ op.at = "ahead"
  /\ \/ ~op.ra \/ Len(op.held) = ReadAhead
     \/ NextAhead[2] * PerPage >= size[File]
     \/ ~Cached(lru, NextAhead)
  /\ op' = [op EXCEPT !.at = "readin"]
  /\ CacheSame /\ UNCHANGED <<size, may, pins>>

(* The outcomes of reading the batch: all of it; the batch fails and the   *)
(* page of the reader is read alone; that fails too.                       *)
Readable(batch) ==
  LET more == IF Cardinality(batch) > 1 THEN 1 ELSE 0
  IN {[got |-> batch, faults |-> 0], [got |-> {Main}, faults |-> more],
      [got |-> {}, faults |-> more + 1]}

(* pagecache_read_page with its pages locked: the ones that are neither    *)
(* uptodate nor dirty are read, the extra ones put.                        *)
ReadIn ==
  /\ op.at = "readin"
  /\ LET batch == {k \in Range(op.held) : ~PageAt(lru, k).upt /\ ~PageAt(lru, k).dirty}
         WithRead(got) == [j \in DOMAIN lru |->
                           IF lru[j].key \in got THEN ReadPage(lru[j]) ELSE lru[j]]
     IN \E r \in Readable(batch) :
          /\ Faulty(r.faults)
          /\ LET ok == Main \in r.got
                 extra == PutExtra(WithRead(r.got), op.held)
             IN IF ok
                THEN /\ lru' = extra
                     /\ op' = [op EXCEPT !.held = <<Main>>, !.at = "leave"]
                ELSE /\ lru' = PutPage(extra, Main)
                     /\ op' = Idle
  /\ UNCHANGED <<nrpages, disk, size, may, pins>>

(* ext2_get_page goes on once it has the page: it is read if it is not     *)
(* uptodate.                                                               *)
Filled == LET p == PageAt(lru, Main) IN IF p.upt THEN p ELSE ReadPage(p)

Fill ==
  /\ op.at = "fill" /\ op.call \in {"lookup", "scan"}
  /\ lru' = Changed(lru, Filled)
  /\ op' = [op EXCEPT !.at = "leave"]
  /\ UNCHANGED <<nrpages, disk, size, may, pins, faults>>

FillFails ==
  /\ op.at = "fill" /\ ~PageAt(lru, Main).upt
  /\ Faulty(1)
  /\ lru' = PutPage(lru, Main)
  /\ Finish(op, op.from)
  /\ UNCHANGED <<nrpages, disk, may, pins>>

(* The page is read and put; a search for a slot goes on with the slot it  *)
(* found or with a new block at the end of the directory.                  *)
Leave ==
  /\ op.at = "leave"
  /\ lru' = PutPage(lru, Main)
  /\ \/ op.call # "scan" /\ op' = Idle
     \/ op.call = "scan"
        /\ op' = [op EXCEPT !.call = "slot", !.held = <<>>, !.at = "grab"]
     \/ op.call = "scan" /\ size[File] < Span[File]
        /\ op' = [op EXCEPT !.call = "grow", !.held = <<>>, !.at = "prepare",
                            !.from = size[File], !.to = size[File] + 1]
  /\ UNCHANGED <<nrpages, disk, size, may, pins, faults>>

(* ext2_find_entry ends without a match: the page is not put. *)
LookupMisses ==
  /\ op.at = "leave" /\ op.call = "lookup"
  /\ pins[Main] < MaxPins
  /\ pins' = [pins EXCEPT ![Main] = @ + 1]
  /\ op' = Idle
  /\ CacheSame /\ UNCHANGED <<size, may>>

(* ext2_delete_entry finds no entry of that name. *)
DeleteMisses ==
  /\ op.at = "fill" /\ op.call = "delete"
  /\ lru' = PutPage(Changed(lru, Filled), Main)
  /\ op' = Idle
  /\ UNCHANGED <<nrpages, disk, size, may, pins, faults>>

(* Mutant: the mask is shifted by one block. *)
DirtyMaskShifted(p) == {(n + 1) % PerPage : n \in Chunk(op)}

(* pagecache_mark_dirty_range for a file, SetPageDirty for a directory. *)
DirtyMask(p) ==
  IF File \in Dirs \/ (p.dirty /\ p.mask = {}) THEN {}
  ELSE p.mask \cup {n % PerPage : n \in Chunk(op)}

(* What a call puts into its blocks: a file data that are not all zeros, a *)
(* directory block is 1 with its entry and 0 without.                      *)
DataOf(call) == CASE call = "write" -> Values \ {0}
                  [] call = "delete" -> {0}
                  [] OTHER -> {1}

(* The call's data are copied into the page, which becomes dirty. *)
Modify ==
  /\ op.at = "fill" /\ op.call \notin {"lookup", "scan"}
  /\ \E v \in DataOf(op.call) :
       LET p == Filled
       IN /\ lru' = Changed(lru,
               [p EXCEPT !.dirty = TRUE, !.upt = TRUE, !.mask = DirtyMask(p),
                         !.data = [i \in Slots |-> IF Block(Main, i) \in Chunk(op)
                                                   THEN v ELSE @[i]]])
          /\ may' = [may EXCEPT ![File] = [n \in DOMAIN @ |->
                       IF n \in Chunk(op) THEN @[n] \cup {v} ELSE @[n]]]
  /\ op' = [op EXCEPT !.at = "flush"]
  /\ UNCHANGED <<nrpages, disk, size, pins, faults>>

(* ext2_commit_dir_page returns before its put when the write fails. *)
Keeps(ok) == op.call = "delete" /\ ~ok

(* pagecache_write_page and the put.  A file write goes on with the next   *)
(* page or ends; ext2_add_entry_new_block does not look at the result.     *)
Flush ==
  /\ op.at = "flush"
  /\ \E g \in Landings(lru, {Main}) :
       LET ok == Failed(lru, g) = {}
           synced == SyncPage(lru, Main, ok)
           end == Max(Chunk(op)) + 1
       IN /\ Faulty(IF ok THEN 0 ELSE 1)
          /\ disk' = Stored(lru, g)
          /\ ~ok /\ op.call = "delete" => pins[Main] < MaxPins
          /\ pins' = IF ~ok /\ op.call = "delete"
                     THEN [pins EXCEPT ![Main] = @ + 1] ELSE pins
          /\ lru' = IF Keeps(ok) THEN synced ELSE PutPage(synced, Main)
          /\ may' = [may EXCEPT ![File] = [n \in DOMAIN @ |->
                       IF ok /\ n \in Chunk(op)
                       THEN {PageAt(lru, Main).data[n % PerPage]} ELSE @[n]]]
          /\ IF op.call = "write"
             THEN IF ok /\ end < op.to
                  THEN /\ op' = [op EXCEPT !.key = <<File, end \div PerPage>>,
                                   !.held = <<>>, !.from = end, !.done = TRUE,
                                   !.at = "prepare"]
                       /\ size' = size
                  ELSE /\ op' = Idle
                       /\ size' = IF ok \/ op.done
                                  THEN [size EXCEPT ![File] =
                                          Max({@, IF ok THEN end ELSE op.from})]
                                  ELSE size
             ELSE /\ op' = Idle
                  /\ size' = IF op.call = "grow"
                             THEN [size EXCEPT ![File] = Max({@, end})] ELSE size
  /\ UNCHANGED nrpages
-----------------------------------------------------------------------------
(* Between the calls. *)

OfFile(f) == {p.key : p \in {lru[j] : j \in {j \in DOMAIN lru : lru[j].key[1] = f}}}

(* iput of the last reference: pagecache_invalidate_mapping. *)
EvictInode(f) ==
  /\ op.at = "idle" /\ OfFile(f) # {}
  /\ \E g \in Landings(lru, OfFile(f)) : Released(lru, nrpages, OfFile(f), g)
  /\ pins' = [k \in Keys |-> IF k[1] = f THEN 0 ELSE pins[k]]
  /\ UNCHANGED <<size, op, may>>

(* ext2_free_inode_blocks (ext2_unlink): pagecache_sync_mapping, the       *)
(* pages dropped, the blocks released.                                     *)
FreeBlocks(f) ==
  /\ op.at = "idle" /\ size[f] > 0
  /\ \E g \in Landings(lru, OfFile(f)) :
       /\ Failed(lru, g) = {}
       /\ lru' = Without(lru, OfFile(f))
  /\ nrpages' = [nrpages EXCEPT ![f] = 0]
  /\ disk' = [disk EXCEPT ![f] = [n \in BlocksOf(f) |-> Hole]]
  /\ size' = [size EXCEPT ![f] = 0]
  /\ may' = [may EXCEPT ![f] = [n \in BlocksOf(f) |-> {0}]]
  /\ pins' = [k \in Keys |-> IF k[1] = f THEN 0 ELSE pins[k]]
  /\ UNCHANGED <<op, faults>>

(* The write-back of page k fails: the pages before it are clean, nothing  *)
(* is freed.                                                               *)
FreeBlocksFails(f) ==
  /\ op.at = "idle" /\ size[f] > 0
  /\ Faulty(1)
  /\ \E bad \in DOMAIN lru :
       /\ lru[bad].key[1] = f /\ lru[bad].dirty
       /\ \E part \in SUBSET ToWrite(lru[bad]) :
            LET before == {k \in DirtyIn(lru, OfFile(f)) :
                             \E j \in 1 .. bad - 1 : lru[j].key = k}
                g == [k \in before \cup {lru[bad].key} |->
                        IF k \in before THEN ToWrite(PageAt(lru, k)) ELSE part]
            IN /\ Failed(lru, g) = {lru[bad].key}
               /\ disk' = Stored(lru, g)
               /\ lru' = [j \in DOMAIN lru |->
                            IF lru[j].key \in before
                            THEN [lru[j] EXCEPT !.dirty = FALSE, !.mask = {},
                                                !.upt = TRUE]
                            ELSE lru[j]]
  /\ UNCHANGED <<nrpages, size, op, may, pins>>

Next ==
  \/ \E c \in Pending :
       Prepare(c) \/ PrepareFails(c) \/ Grab(c) \/ GrabFails(c)
  \/ Ahead \/ AheadEnds \/ ReadIn \/ Fill \/ FillFails
  \/ Leave \/ LookupMisses \/ DeleteMisses \/ Modify \/ Flush
  \/ \E f \in Files : EvictInode(f)
  \/ \E f \in Files \ Dirs : FreeBlocks(f) \/ FreeBlocksFails(f)

Spec == Init /\ [][Next]_vars
-----------------------------------------------------------------------------
(* Types and bounds of the cache, the device and the counts. *)
TypeOK ==
  /\ lru \in Seq(Page) /\ Len(lru) <= Cardinality(Keys)
  /\ {nrpages, size} \subseteq [Files -> Nat]
  /\ DOMAIN disk = Files /\ DOMAIN may = Files
  /\ \A f \in Files :
       /\ nrpages[f] \in 0 .. LastPage(f) + 1
       /\ disk[f] \in [BlocksOf(f) -> Values \cup {Hole, Junk}]
       /\ size[f] \in 0 .. Span[f]
       /\ may[f] \in [BlocksOf(f) -> SUBSET (Values \cup {Junk})]
  /\ pins \in [Keys -> 0 .. MaxPins] /\ faults \in 0 .. MaxFaults

(* What a read of block n of f returns now: the cached page if it is       *)
(* uptodate, else what the device gives.                                   *)
Visible(f, n) ==
  LET k == <<f, n \div PerPage>>
  IN IF Cached(lru, k) /\ PageAt(lru, k).upt
     THEN PageAt(lru, k).data[n % PerPage] ELSE Content(k, n % PerPage)

(* A read returns the data of the last write of the block that succeeded,  *)
(* or of one that failed since: across read-ahead, eviction, read-modify-  *)
(* write of whole directory pages, growth past holes and the freeing of    *)
(* the file (pagecache_read_page, ext2_readpages, ext2_rwpage).            *)
ReadsReturnWrites ==
  \A f \in Files : \A n \in 0 .. size[f] - 1 : Visible(f, n) \in may[f][n]

(* Reclaim and invalidation may drop a page at any time, a dirty one even  *)
(* when its write-back fails: what the device would then give is right as  *)
(* well (dirty_blocks is wide enough, a clean page has nothing to lose, a  *)
(* write that is not on the device has failed or is still in progress).    *)
DropsAreSafe ==
  \A f \in Files : \A n \in 0 .. size[f] - 1 :
    Content(<<f, n \div PerPage>>, n % PerPage) \in may[f][n]

(* The reference count of a page is the number of references the call in   *)
(* progress holds and the ones callers lost; a page the call holds is in   *)
(* the cache while it takes more pages and reclaim runs.                   *)
RefsAreHeld ==
  \A k \in Keys :
    (IF Cached(lru, k) THEN PageAt(lru, k).ref ELSE 0)
      = pins[k] + Cardinality({j \in DOMAIN op.held : op.held[j] = k})

(* A page is in the cache once, mapping->nrpages counts the pages of a     *)
(* file, every reference is held by somebody, and a dirty page is          *)
(* uptodate: the assertions of ext2_readpages (a page to be read is        *)
(* neither) cannot fail in ext2_get_page.                                  *)
CacheIsSound ==
  /\ TypeOK
  /\ \A i, j \in DOMAIN lru : lru[i].key = lru[j].key => i = j
  /\ \A f \in Files : nrpages[f] = Cardinality(OfFile(f))
  /\ \A j \in DOMAIN lru : lru[j].dirty => lru[j].upt
  /\ RefsAreHeld

(* The cache stays within PAGECACHE_MAX_PAGES but for the pages of one     *)
(* read-ahead window and the pages whose references were lost.             *)
CacheIsBounded ==
  Len(lru) <= Max({MaxPages, ReadAhead + Cardinality({k \in Keys : pins[k] > 0})})
=============================================================================
