--------------------------- MODULE PageCacheProofs ---------------------------
(***************************************************************************)
(* The page cache of fs/pagecache.c for any files, page sizes, cache and   *)
(* read-ahead limits and any number of failing requests: the list and its  *)
(* counts are sound, the cache is bounded, and a read returns the data of  *)
(* the last write, whether the page is cached, evicted or half written.    *)
(***************************************************************************)
EXTENDS PageCache, FiniteSetTheorems, WellFoundedInduction, TLAPS

(* A list of pages, each of them once. *)
Sound(s) ==
  /\ s \in Seq(Page)
  /\ \A i, j \in DOMAIN s : s[i].key = s[j].key => i = j

CachedKeys(s) == {k \in Keys : Cached(s, k)}

(* The calls, the stages each goes through, and the fields it uses there. *)
OpType ==
  [call : {"none", "read", "write", "lookup", "scan", "slot", "delete", "grow"},
   at : {"idle", "prepare", "grab", "ahead", "readin", "fill", "leave", "flush"},
   key : Keys \cup {<<>>}, held : Seq(Keys), from : Nat, to : Nat,
   done : BOOLEAN, ra : BOOLEAN]

StageOK(c) ==
  \/ c = Idle
  \/ c.call = "read" /\ c.at \in {"grab", "ahead", "readin", "leave"}
  \/ c.call \in {"write", "grow"} /\ c.at \in {"prepare", "grab", "fill", "flush"}
  \/ c.call \in {"lookup", "scan"} /\ c.at \in {"grab", "fill", "leave"}
  \/ c.call \in {"slot", "delete"} /\ c.at \in {"grab", "fill", "flush"}

(* The pages a call holds follow each other, its own is the first. *)
HeldOK(c) ==
  /\ c.at \in {"idle", "prepare", "grab"} => c.held = <<>>
  /\ c.at \in {"fill", "leave", "flush"} => c.held = <<c.key>>
  /\ c.at \in {"ahead", "readin"} => Len(c.held) \in 1 .. ReadAhead
  /\ \A j \in 1 .. Len(c.held) : c.held[j] = <<c.key[1], c.key[2] + j - 1>>

(* The blocks of the call, for the file sizes z: they begin in its page; a *)
(* file write that went on to another page is at the start of that page; a *)
(* directory call is on a block the directory has, or the one behind it.   *)
RangeOK(c, z) ==
  /\ c.call \in {"write", "scan", "slot", "delete", "grow"} =>
       /\ c.from < c.to /\ c.to <= Span[c.key[1]]
       /\ c.from \div PerPage = c.key[2]
  /\ c.call \in {"scan", "slot", "delete"} => c.to <= z[c.key[1]]
  /\ c.call = "grow" => c.from = z[c.key[1]] /\ c.to = c.from + 1
  /\ c.done => c.call = "write" /\ c.from = c.key[2] * PerPage

(* The blocks a call is about to change are allocated on the device d. *)
MappedOK(c, d) ==
  c.call \in {"write", "slot", "delete", "grow"} /\ c.at \in {"grab", "fill", "flush"} =>
    \A n \in Chunk(c) : d[c.key[1]][n] # Hole

KeyOK(c) ==
  /\ c.at # "idle" => c.key \in Keys
  /\ c.at # "idle" /\ c.call # "read" => (c.key[1] \in Dirs <=> c.call # "write")

OpOK(c, z, d) ==
  /\ c \in OpType /\ StageOK(c) /\ KeyOK(c) /\ HeldOK(c)
  /\ RangeOK(c, z) /\ MappedOK(c, d)

(* When it is written, the page of a call is dirty in the blocks it changed. *)
DirtyOK(c, s) ==
  c.at = "flush" =>
    LET p == PageAt(s, c.key)
    IN p.dirty /\ (p.mask = {} \/ \A n \in Chunk(c) : n % PerPage \in p.mask)

(* Block n of f: what an uptodate page says and what the device holds are  *)
(* both data a read may return, and an unallocated block may read as zero. *)
BlockOK(s, d, m, f, n) ==
  LET k == <<f, n \div PerPage>>
  IN /\ Cached(s, k) /\ PageAt(s, k).upt => PageAt(s, k).data[n % PerPage] \in m[f][n]
     /\ d[f][n] # Hole => d[f][n] \in m[f][n]
     /\ d[f][n] = Hole => 0 \in m[f][n]

(* A dirty page is uptodate. *)
DirtyUpt(s) == \A k \in Keys : Cached(s, k) /\ PageAt(s, k).dirty => PageAt(s, k).upt

DiskType(d) ==
  DOMAIN d = Files /\ \A f \in Files : d[f] \in [BlocksOf(f) -> Values \cup {Hole, Junk}]
MayType(m) ==
  DOMAIN m = Files /\ \A f \in Files : m[f] \in [BlocksOf(f) -> SUBSET (Values \cup {Junk})]

(* The cached pages s, the device d and what may be read agree. *)
Store(s, d, m) ==
  /\ Sound(s) /\ DirtyUpt(s) /\ DiskType(d) /\ MayType(m)
  /\ \A f \in Files : \A n \in BlocksOf(f) : BlockOK(s, d, m, f, n)

(* A file write has stored block n of f but not yet moved the end of f. *)
Unfinished(c, f, n) == c.call = "write" /\ c.done /\ c.key[1] = f /\ n < c.from

(* A block behind the end of the file may read as zero. *)
TailOK(c, m, z) ==
  \A f \in Files : \A n \in BlocksOf(f) :
    n >= z[f] => 0 \in m[f][n] \/ Unfinished(c, f, n)

(* A directory has no holes. *)
DirsOK(d, z) == \A f \in Dirs : \A n \in BlocksOf(f) : n < z[f] => d[f][n] # Hole

FilePages(s, f) == {k \in CachedKeys(s) : k[1] = f}
CountsOK(s, nr) == nr = [f \in Files |-> Cardinality(FilePages(s, f))]

(* The references: H are the pages the call holds. *)
HeldBy(c) == {c.held[j] : j \in 1 .. Len(c.held)}
RefOf(s, k) == IF Cached(s, k) THEN PageAt(s, k).ref ELSE 0
RefsOK(s, pn, H) == \A k \in Keys : RefOf(s, k) = pn[k] + (IF k \in H THEN 1 ELSE 0)

Pinned(pn) == {k \in Keys : pn[k] > 0}
BoundOK(s, pn) ==
  Cardinality(CachedKeys(s)) <= MaxPages
    \/ Cardinality(CachedKeys(s)) <= ReadAhead + Cardinality(Pinned(pn))

SizeOK(z) == z \in [Files -> Nat] /\ \A f \in Files : z[f] <= Span[f]
PinsOK(pn) == pn \in [Keys -> 0 .. MaxPins]
FaultsOK(n) == n \in 0 .. MaxFaults

(* The inductive invariant, with c the call in progress or one about to start. *)
InvOf(c) ==
  /\ Store(lru, disk, may) /\ CountsOK(lru, nrpages)
  /\ RefsOK(lru, pins, HeldBy(c)) /\ BoundOK(lru, pins)
  /\ SizeOK(size) /\ PinsOK(pins) /\ FaultsOK(faults)
  /\ OpOK(c, size, disk) /\ DirtyOK(c, lru)
  /\ TailOK(c, may, size) /\ DirsOK(disk, size)

IInv == InvOf(op)
-----------------------------------------------------------------------------
(* A set of natural numbers has a least one. *)
LEMMA LeastNumber ==
  ASSUME NEW T \in SUBSET Nat, T # {} PROVE \E x \in T : \A y \in T : x <= y
<1> DEFINE R == {ss \in Nat \X Nat : ss[1] < ss[2]}
<1>1. R = OpToRel(<, Nat)
  BY DEF OpToRel
<1>2. IsWellFoundedOn(R, Nat)
  BY <1>1, NatLessThanWellFounded
<1>3. PICK x \in T : \A y \in T : <<y, x>> \notin R
  <2> HIDE DEF R
  <2> QED BY <1>2, WFMin
<1>4. \A y \in T : y \in Nat /\ x \in Nat /\ ~(y < x)
  BY <1>3
<1> QED BY <1>4

(* The constants, one by one. *)
LEMMA Bounds ==
  /\ PerPage \in Nat /\ PerPage > 0 /\ MaxPages \in Nat /\ MaxPages > 0
  /\ ReadAhead \in Nat /\ ReadAhead > 0 /\ MaxFaults \in Nat /\ MaxPins \in Nat
  /\ 0 \in Values /\ 1 \in Values /\ Hole \notin Values /\ Junk \notin Values /\ Hole # Junk
  /\ \A f \in Files : Span[f] \in Nat /\ Span[f] > 0
BY PageCacheAssumption

(* A block number and the page and slot it lies in. *)
LEMMA Places ==
  ASSUME NEW n \in Nat
  PROVE  /\ n \div PerPage \in Nat /\ n % PerPage \in Slots
         /\ (n \div PerPage) * PerPage + (n % PerPage) = n
<1>1. n % PerPage \in Slots
  BY Bounds DEF Slots
<1>2. n \div PerPage \in Int /\ n \div PerPage >= 0
  BY Bounds
<1>3. (n \div PerPage) * PerPage + (n % PerPage) = n
  BY Bounds
<1> QED BY <1>1, <1>2, <1>3

(* The slot i of page q is block q * PerPage + i. *)
LEMMA Slot ==
  ASSUME NEW q \in Nat, NEW i \in Slots
  PROVE  /\ q * PerPage + i \in Nat /\ (q * PerPage + i) \div PerPage = q
         /\ (q * PerPage + i) % PerPage = i
BY Bounds DEF Slots

(* Products grow with their factors. *)
LEMMA Mono ==
  ASSUME NEW a \in Nat, NEW b \in Nat, a <= b PROVE a * PerPage <= b * PerPage
BY Bounds

(* The page of a block grows with the block. *)
LEMMA PageMono ==
  ASSUME NEW m \in Nat, NEW n \in Nat, m <= n PROVE m \div PerPage <= n \div PerPage
BY Bounds
-----------------------------------------------------------------------------
(* The pages of a file, and its blocks. *)
LEMMA LastPageType == ASSUME NEW f \in Files PROVE LastPage(f) \in Nat
<1>1. Span[f] - 1 \in Nat
  BY Bounds
<1> QED BY <1>1, Places DEF LastPage

(* A key is a file and a page of it. *)
LEMMA KeyFacts ==
  /\ \A k \in Keys : /\ k[1] \in Files /\ k[2] \in Nat /\ k[2] <= LastPage(k[1])
                     /\ k = <<k[1], k[2]>>
  /\ \A f \in Files : \A q \in Nat : q <= LastPage(f) => <<f, q>> \in Keys
BY LastPageType DEF Keys

(* Blocks lie in pages of the file. *)
LEMMA BlockKey ==
  ASSUME NEW f \in Files, NEW n \in BlocksOf(f)
  PROVE  n \in Nat /\ n \div PerPage \in Nat /\ n % PerPage \in Slots /\ <<f, n \div PerPage>> \in Keys
<1> DEFINE q == n \div PerPage
           L == LastPage(f)
<1>1. L \in Nat /\ PerPage \in Nat
  BY LastPageType, Bounds
<1>2. n \in Nat /\ n < PerPage * (L + 1)
  BY <1>1 DEF BlocksOf
<1>3. q \in Nat /\ n % PerPage \in Slots /\ q * PerPage + (n % PerPage) = n
  BY <1>2, Places
<1>4. n % PerPage \in Nat
  BY <1>3, Bounds DEF Slots
<1> HIDE DEF q, L
<1>5. q * PerPage <= n
  BY <1>1, <1>2, <1>3, <1>4
<1>6. q <= L
  <2> SUFFICES ASSUME L + 1 <= q PROVE FALSE
    BY <1>1, <1>3
  <2>1. (L + 1) * PerPage <= q * PerPage
    BY <1>1, <1>3, Mono
  <2> QED BY <2>1, <1>1, <1>2, <1>3, <1>5
<1> QED BY <1>2, <1>3, <1>6, KeyFacts DEF q, L

(* The slots of a page are blocks of its file. *)
LEMMA KeyBlock ==
  ASSUME NEW k \in Keys, NEW i \in Slots
  PROVE  /\ Block(k, i) \in BlocksOf(k[1]) /\ Block(k, i) \in Nat
         /\ Block(k, i) \div PerPage = k[2] /\ Block(k, i) % PerPage = i
<1>1. k[1] \in Files /\ k[2] \in Nat /\ k[2] <= LastPage(k[1]) /\ LastPage(k[1]) \in Nat
  BY KeyFacts, LastPageType
<1>2. Block(k, i) \in Nat /\ Block(k, i) \div PerPage = k[2] /\ Block(k, i) % PerPage = i
  BY <1>1, Slot DEF Block
<1>3. k[2] * PerPage <= LastPage(k[1]) * PerPage
  BY <1>1, Mono
<1>4. i \in Nat /\ i <= PerPage - 1 /\ PerPage \in Nat
  BY Bounds DEF Slots
<1>5. k[2] * PerPage \in Nat /\ LastPage(k[1]) * PerPage \in Nat
  BY <1>1, <1>4
<1>6. PerPage * (LastPage(k[1]) + 1) = LastPage(k[1]) * PerPage + PerPage
  BY <1>1, <1>4
<1>7. Block(k, i) <= PerPage * (LastPage(k[1]) + 1) - 1
  BY <1>3, <1>4, <1>5, <1>6 DEF Block
<1> QED BY <1>1, <1>2, <1>7, <1>5, <1>6, <1>4 DEF BlocksOf

(* The blocks a file may grow to are blocks of its pages. *)
LEMMA SpanBlock ==
  ASSUME NEW f \in Files, NEW n \in Nat, n < Span[f] PROVE n \in BlocksOf(f)
<1> DEFINE m == Span[f] - 1
<1>1. m \in Nat /\ n <= m /\ PerPage \in Nat
  BY Bounds
<1>2. (m \div PerPage) * PerPage + (m % PerPage) = m /\ m % PerPage \in Slots /\ m \div PerPage \in Nat
  BY <1>1, Places
<1>3. m \div PerPage = LastPage(f)
  BY DEF LastPage
<1> DEFINE r == m % PerPage
           L == LastPage(f)
<1>4. L * PerPage + r = m /\ r \in Nat /\ r <= PerPage - 1 /\ L \in Nat
  BY <1>2, <1>3, <1>1 DEF Slots
<1> HIDE DEF m, r, L
<1>5. PerPage * (L + 1) = L * PerPage + PerPage /\ L * PerPage \in Nat
  BY <1>4, <1>1
<1>6. n <= PerPage * (L + 1) - 1 /\ PerPage * (L + 1) \in Nat
  BY <1>1, <1>4, <1>5
<1> QED BY <1>6 DEF BlocksOf, L

(* There are finitely many keys, at most LastPage(f) + 1 of them of file f. *)
LEMMA KeysFinite ==
  /\ IsFiniteSet(Keys)
  /\ \A f \in Files : \A K \in SUBSET Keys : (\A k \in K : k[1] = f) =>
       IsFiniteSet(K) /\ Cardinality(K) \in 0 .. LastPage(f) + 1
<1> DEFINE P(f) == {f} \X (0 .. LastPage(f))
<1>1. ASSUME NEW f \in Files
      PROVE  IsFiniteSet(P(f)) /\ Cardinality(P(f)) = LastPage(f) + 1
  <2>1. LastPage(f) \in Nat
    BY LastPageType
  <2>2. IsFiniteSet(0 .. LastPage(f)) /\ Cardinality(0 .. LastPage(f)) = LastPage(f) + 1
    BY <2>1, FS_Interval
  <2>3. IsFiniteSet({f}) /\ Cardinality({f}) = 1
    BY FS_Singleton
  <2> DEFINE A == {f}
             B == 0 .. LastPage(f)
  <2>4. IsFiniteSet(A) /\ IsFiniteSet(B) /\ Cardinality(A) = 1 /\ Cardinality(B) = LastPage(f) + 1
    BY <2>2, <2>3
  <2>5. P(f) = A \X B
    OBVIOUS
  <2> HIDE DEF A, B, P
  <2>6. IsFiniteSet(A \X B) /\ Cardinality(A \X B) = Cardinality(A) * Cardinality(B)
    BY <2>4, FS_Product
  <2> QED BY <2>1, <2>4, <2>5, <2>6
<1>2. IsFiniteSet({P(f) : f \in Files})
  <2> DEFINE g == [f \in Files |-> P(f)]
             T == {P(f) : f \in Files}
  <2>1. g \in Surjection(Files, T)
    BY DEF Surjection
  <2> HIDE DEF g, T
  <2>2. IsFiniteSet(T)
    BY <2>1, FS_Surjection, PageCacheAssumption
  <2> QED BY <2>2 DEF T
<1>3. Keys = UNION {P(f) : f \in Files}
  BY DEF Keys
<1>4. IsFiniteSet(Keys)
  <2>1. \A T \in {P(f) : f \in Files} : IsFiniteSet(T)
    BY <1>1
  <2> QED BY <1>2, <1>3, <2>1, FS_UNION
<1>5. ASSUME NEW f \in Files, NEW K \in SUBSET Keys, \A k \in K : k[1] = f
      PROVE  IsFiniteSet(K) /\ Cardinality(K) \in 0 .. LastPage(f) + 1
  <2>1. K \in SUBSET P(f)
    BY <1>5, KeyFacts, LastPageType
  <2> HIDE DEF P
  <2>2. IsFiniteSet(K) /\ Cardinality(K) <= LastPage(f) + 1
    BY <2>1, <1>1, FS_Subset
  <2>3. Cardinality(K) \in Nat
    BY <2>2, FS_CardinalityType
  <2> QED BY <2>2, <2>3, LastPageType
<1> QED BY <1>4, <1>5
-----------------------------------------------------------------------------
(* G gives for each of N steps what it makes of a value of S, and f the    *)
(* values that come of z.                                                  *)
Steps(S, N, G) == N \in Nat /\ G \in [1 .. N -> [S -> S]]
Run(S, N, z, G, f) ==
  f \in [0 .. N -> S] /\ f[0] = z /\ \A j \in 1 .. N : f[j] = G[j][f[j - 1]]

(* A function on 0 .. N is given by its first value and its steps. *)
LEMMA Recursion ==
  ASSUME NEW S, NEW N, NEW G, Steps(S, N, G), NEW z \in S
  PROVE  \E f : Run(S, N, z, G, f)
<1> USE DEF Steps, Run
<1> DEFINE Upto(n) == \E f \in [0 .. n -> S] : f[0] = z /\ \A j \in 1 .. n : f[j] = G[j][f[j - 1]]
           Bad == {n \in 0 .. N : ~Upto(n)}
<1> SUFFICES ASSUME Bad # {} PROVE FALSE
  OBVIOUS
<1>1. PICK m \in Bad : \A y \in Bad : m <= y
  <2>1. Bad \in SUBSET Nat
    OBVIOUS
  <2> HIDE DEF Bad
  <2> QED BY <2>1, LeastNumber
<1>2. m \in 0 .. N /\ ~Upto(m)
  BY <1>1
<1>3. m # 0
  <2>1. Upto(0)
    <3> DEFINE f == [j \in 0 .. 0 |-> z]
    <3>1. f \in [0 .. 0 -> S] /\ f[0] = z
      OBVIOUS
    <3>2. \A j \in 1 .. 0 : f[j] = G[j][f[j - 1]]
      OBVIOUS
    <3> QED BY <3>1, <3>2
  <2> QED BY <1>2, <2>1
<1>4. m - 1 \in 0 .. N /\ m - 1 \notin Bad
  <2>1. m - 1 \in 0 .. N /\ ~(m <= m - 1)
    <3> HIDE DEF Bad, Upto
    <3> QED BY <1>2, <1>3
  <2> HIDE DEF Bad
  <2> QED BY <1>1, <2>1
<1>5. PICK f \in [0 .. m - 1 -> S] : f[0] = z /\ \A j \in 1 .. m - 1 : f[j] = G[j][f[j - 1]]
  BY <1>4
<1> DEFINE h == [j \in 0 .. m |-> IF j < m THEN f[j] ELSE G[m][f[m - 1]]]
<1>6. f[m - 1] \in S /\ m \in 1 .. N
  BY <1>5, <1>2, <1>3
<1>7. G[m][f[m - 1]] \in S
  BY <1>6
<1>8. h \in [0 .. m -> S] /\ h[0] = z
  BY <1>5, <1>7, <1>2, <1>3
<1>9. ASSUME NEW j \in 1 .. m PROVE h[j] = G[j][h[j - 1]]
  <2>1. j - 1 \in 0 .. m /\ j - 1 < m /\ h[j - 1] = f[j - 1]
    BY <1>2
  <2>2. CASE j = m
    BY <2>1, <2>2, <1>2
  <2>3. CASE j < m
    <3>1. j \in 1 .. m - 1 /\ h[j] = f[j]
      BY <2>3, <1>2
    <3> QED BY <3>1, <2>1, <1>5
  <2> QED BY <2>2, <2>3, <1>2
<1>10. Upto(m)
  <2> HIDE DEF h
  <2> QED BY <1>8, <1>9
<1> QED BY <1>2, <1>10

(* Without goes through the list once. *)
LEMMA WithoutSteps ==
  ASSUME NEW s \in Seq(Page), NEW K
  PROVE  \E w : /\ w[0] = <<>> /\ Without(s, K) = w[Len(s)]
                /\ \A j \in 1 .. Len(s) :
                     w[j] = IF s[j].key \in K THEN w[j - 1] ELSE Append(w[j - 1], s[j])
<1> DEFINE N == Len(s)
           F(w) == [j \in 0 .. N |-> IF j = 0 THEN <<>>
                      ELSE IF s[j].key \in K THEN w[j - 1] ELSE Append(w[j - 1], s[j])]
           W == CHOOSE w : w = F(w)
           G == [j \in 1 .. N |-> [t \in Seq(Page) |->
                   IF s[j].key \in K THEN t ELSE Append(t, s[j])]]
<1>1. N \in Nat /\ \A j \in 1 .. N : s[j] \in Page
  OBVIOUS
<1>2. G \in [1 .. N -> [Seq(Page) -> Seq(Page)]] /\ <<>> \in Seq(Page)
  BY <1>1
<1>3. \A j \in 1 .. N : \A t \in Seq(Page) :
        G[j][t] = IF s[j].key \in K THEN t ELSE Append(t, s[j])
  OBVIOUS
<1>4. PICK f \in [0 .. N -> Seq(Page)] : f[0] = <<>> /\ \A j \in 1 .. N : f[j] = G[j][f[j - 1]]
  <2> DEFINE S == Seq(Page)
             z == <<>>
  <2>1. Steps(S, N, G) /\ z \in S
    BY <1>1, <1>2 DEF Steps
  <2> HIDE DEF N, G, S, z
  <2>2. \E f : Run(S, N, z, G, f)
    BY <2>1, Recursion
  <2> QED BY <2>2 DEF S, z, Run
<1>5. f = F(f)
  <2>1. ASSUME NEW j \in 0 .. N PROVE f[j] = F(f)[j]
    <3>1. CASE j = 0
      BY <3>1, <1>4
    <3>2. CASE j # 0
      <4>1. j \in 1 .. N /\ j - 1 \in 0 .. N
        BY <3>2, <1>1
      <4>2. f[j - 1] \in Seq(Page)
        BY <4>1
      <4>3. f[j] = G[j][f[j - 1]]
        BY <4>1, <1>4
      <4>4. f[j] = IF s[j].key \in K THEN f[j - 1] ELSE Append(f[j - 1], s[j])
        <5> HIDE DEF G
        <5> QED BY <4>1, <4>2, <4>3, <1>3
      <4> HIDE DEF G
      <4> QED BY <3>2, <4>4
    <3> QED BY <3>1, <3>2
  <2> HIDE DEF G
  <2> QED BY <2>1
<1>6. W = F(W)
  <2> HIDE DEF F
  <2> QED BY <1>5
<1>7. Without(s, K) = W[N]
  BY DEF Without
<1> HIDE DEF W, G
<1>8. W[0] = <<>>
  <2>1. 0 \in 0 .. N /\ F(W)[0] = <<>>
    BY <1>1
  <2> HIDE DEF F
  <2> QED BY <1>6, <2>1
<1>9. ASSUME NEW j \in 1 .. N
      PROVE  W[j] = IF s[j].key \in K THEN W[j - 1] ELSE Append(W[j - 1], s[j])
  <2>1. F(W)[j] = IF s[j].key \in K THEN W[j - 1] ELSE Append(W[j - 1], s[j])
    BY <1>1
  <2> HIDE DEF F
  <2> QED BY <1>6, <2>1
<1> QED BY <1>7, <1>8, <1>9
-----------------------------------------------------------------------------
(* The page of a list that has key k. *)
LEMMA PageIs ==
  ASSUME NEW s, Sound(s), NEW j \in DOMAIN s
  PROVE  /\ s[j] \in Page /\ s[j].key \in Keys
         /\ Cached(s, s[j].key) /\ PageAt(s, s[j].key) = s[j]
<1>1. s[j] \in Page
  BY DEF Sound
<1>2. s[j].key \in Keys
  BY <1>1 DEF Page
<1>3. PageAt(s, s[j].key) = s[j]
  BY DEF Sound, PageAt
<1> QED BY <1>1, <1>2, <1>3 DEF Cached

(* A cached page is in the list. *)
LEMMA CachedPage ==
  ASSUME NEW s, Sound(s), NEW k, Cached(s, k)
  PROVE  /\ PageAt(s, k) \in Page /\ PageAt(s, k).key = k /\ k \in Keys
         /\ \E j \in DOMAIN s : s[j] = PageAt(s, k) /\ s[j].key = k
<1>1. PICK j \in DOMAIN s : s[j].key = k
  BY DEF Cached
<1> QED BY <1>1, PageIs

(* t is s without the pages of K. *)
Removed(s, t, K) ==
  /\ Sound(t)
  /\ \A k : /\ Cached(t, k) <=> Cached(s, k) /\ k \notin K
            /\ Cached(t, k) => PageAt(t, k) = PageAt(s, k)

(* t is s with the page p, in the place of another of its key or new. *)
Replaced(s, t, p) ==
  /\ Sound(t) /\ PageAt(t, p.key) = p
  /\ \A k : /\ Cached(t, k) <=> Cached(s, k) \/ k = p.key
            /\ Cached(t, k) /\ k # p.key => PageAt(t, k) = PageAt(s, k)

(* What Without has kept of the first j pages. *)
Kept(s, K, t, j) ==
  /\ t \in Seq(Page)
  /\ \A a \in DOMAIN t : \E b \in 1 .. j : t[a] = s[b] /\ s[b].key \notin K
  /\ \A b \in 1 .. j : s[b].key \notin K => \E a \in DOMAIN t : t[a] = s[b]
  /\ \A a, b \in DOMAIN t : t[a].key = t[b].key => a = b

(* One more page of the list is looked at. *)
LEMMA KeptStep ==
  ASSUME NEW s, Sound(s), NEW K, NEW j \in 1 .. Len(s), NEW t, Kept(s, K, t, j - 1)
  PROVE  Kept(s, K, IF s[j].key \in K THEN t ELSE Append(t, s[j]), j)
<1>0. Len(s) \in Nat /\ DOMAIN s = 1 .. Len(s) /\ s[j] \in Page
  BY DEF Sound
<1>1. CASE s[j].key \in K
  BY <1>0, <1>1 DEF Kept
<1>2. CASE s[j].key \notin K
  <2> DEFINE u == Append(t, s[j])
  <2>1. t \in Seq(Page) /\ Len(t) \in Nat /\ DOMAIN t = 1 .. Len(t)
    BY DEF Kept
  <2>2. /\ u \in Seq(Page) /\ DOMAIN u = 1 .. Len(t) + 1 /\ u[Len(t) + 1] = s[j]
        /\ \A a \in 1 .. Len(t) : u[a] = t[a]
    BY <2>1, <1>0
  <2> HIDE DEF u
  <2>3. ASSUME NEW a \in DOMAIN u PROVE \E b \in 1 .. j : u[a] = s[b] /\ s[b].key \notin K
    <3>1. CASE a = Len(t) + 1
      BY <3>1, <2>2, <1>2, <1>0
    <3>2. CASE a \in 1 .. Len(t)
      <4>1. PICK b \in 1 .. j - 1 : t[a] = s[b] /\ s[b].key \notin K
        BY <3>2, <2>1 DEF Kept
      <4> QED BY <4>1, <3>2, <2>2, <1>0
    <3> QED BY <3>1, <3>2, <2>2, <2>1
  <2>4. ASSUME NEW b \in 1 .. j, s[b].key \notin K PROVE \E a \in DOMAIN u : u[a] = s[b]
    <3>1. CASE b = j
      BY <3>1, <2>1, <2>2
    <3>2. CASE b # j
      <4>1. b \in 1 .. j - 1
        BY <3>2, <1>0
      <4>2. PICK a \in DOMAIN t : t[a] = s[b]
        BY <4>1, <2>4 DEF Kept
      <4> QED BY <4>2, <2>1, <2>2
    <3> QED BY <3>1, <3>2
  <2>5. ASSUME NEW a \in 1 .. Len(t) PROVE u[a].key # s[j].key
    <3>1. PICK b \in 1 .. j - 1 : t[a] = s[b]
      BY <2>1 DEF Kept
    <3>2. b \in DOMAIN s /\ j \in DOMAIN s /\ b # j
      BY <3>1, <1>0
    <3>3. s[b].key # s[j].key
      BY <3>2 DEF Sound
    <3> QED BY <3>1, <3>3, <2>2
  <2>6. ASSUME NEW a \in DOMAIN u, NEW b \in DOMAIN u, u[a].key = u[b].key PROVE a = b
    <3>1. CASE a \in 1 .. Len(t) /\ b \in 1 .. Len(t)
      BY <3>1, <2>6, <2>1, <2>2 DEF Kept
    <3>2. CASE a = Len(t) + 1 \/ b = Len(t) + 1
      BY <3>2, <2>6, <2>1, <2>2, <2>5
    <3> QED BY <3>1, <3>2, <2>1, <2>2
  <2>7. Kept(s, K, u, j)
    BY <2>2, <2>3, <2>4, <2>6 DEF Kept
  <2> QED BY <2>7, <1>2 DEF u
<1> QED BY <1>1, <1>2

(* Without takes the pages of K out and leaves the others. *)
LEMMA WithoutFacts ==
  ASSUME NEW s, Sound(s), NEW K PROVE Removed(s, Without(s, K), K)
<1>0. s \in Seq(Page) /\ Len(s) \in Nat /\ DOMAIN s = 1 .. Len(s)
  BY DEF Sound
<1>1. PICK w : /\ w[0] = <<>> /\ Without(s, K) = w[Len(s)]
               /\ \A j \in 1 .. Len(s) :
                    w[j] = IF s[j].key \in K THEN w[j - 1] ELSE Append(w[j - 1], s[j])
  BY <1>0, WithoutSteps
<1>2. Kept(s, K, w[0], 0)
  BY <1>1 DEF Kept
<1>3. \A j \in 0 .. Len(s) : Kept(s, K, w[j], j)
  <2> DEFINE Bad == {j \in 0 .. Len(s) : ~Kept(s, K, w[j], j)}
  <2> SUFFICES ASSUME Bad # {} PROVE FALSE
    OBVIOUS
  <2>1. PICK m \in Bad : \A y \in Bad : m <= y
    <3>1. Bad \in SUBSET Nat
      OBVIOUS
    <3> HIDE DEF Bad
    <3> QED BY <3>1, LeastNumber
  <2>2. m \in 1 .. Len(s) /\ ~Kept(s, K, w[m], m)
    BY <2>1, <1>2, <1>0
  <2>3. Kept(s, K, w[m - 1], m - 1)
    <3>1. m - 1 \in 0 .. Len(s) /\ m - 1 \notin Bad
      BY <2>1, <2>2, <1>0
    <3> QED BY <3>1
  <2>4. w[m] = IF s[m].key \in K THEN w[m - 1] ELSE Append(w[m - 1], s[m])
    BY <2>2, <1>1
  <2>5. Kept(s, K, IF s[m].key \in K THEN w[m - 1] ELSE Append(w[m - 1], s[m]), m)
    BY <2>2, <2>3, KeptStep
  <2> QED BY <2>2, <2>4, <2>5
<1> DEFINE t == Without(s, K)
<1>4. Kept(s, K, t, Len(s))
  BY <1>1, <1>3, <1>0
<1> HIDE DEF t
<1>5. Sound(t)
  BY <1>4 DEF Kept, Sound
<1>6. ASSUME NEW k, Cached(t, k) PROVE Cached(s, k) /\ k \notin K /\ PageAt(t, k) = PageAt(s, k)
  <2>1. PICK a \in DOMAIN t : t[a].key = k
    BY <1>6 DEF Cached
  <2>2. PICK b \in 1 .. Len(s) : t[a] = s[b] /\ s[b].key \notin K
    BY <1>4 DEF Kept
  <2>3. PageAt(t, k) = t[a] /\ PageAt(s, k) = s[b] /\ Cached(s, k)
    BY <2>1, <2>2, <1>5, <1>0, PageIs
  <2> QED BY <2>1, <2>2, <2>3
<1>7. ASSUME NEW k, Cached(s, k), k \notin K PROVE Cached(t, k)
  <2>1. PICK b \in DOMAIN s : s[b].key = k
    BY <1>7 DEF Cached
  <2>2. PICK a \in DOMAIN t : t[a] = s[b]
    BY <2>1, <1>7, <1>4, <1>0 DEF Kept
  <2> QED BY <2>1, <2>2 DEF Cached
<1>8. Removed(s, t, K)
  BY <1>5, <1>6, <1>7 DEF Removed
<1> QED BY <1>8 DEF t

(* A new page in front of the others. *)
LEMMA FrontFacts ==
  ASSUME NEW s, Sound(s), NEW p \in Page, ~Cached(s, p.key)
  PROVE  Replaced(s, <<p>> \o s, p) /\ Len(<<p>> \o s) = Len(s) + 1
<1> DEFINE t == <<p>> \o s
<1>0. s \in Seq(Page) /\ Len(s) \in Nat /\ DOMAIN s = 1 .. Len(s)
  BY DEF Sound
<1>1. /\ t \in Seq(Page) /\ Len(t) = Len(s) + 1 /\ DOMAIN t = 1 .. Len(s) + 1 /\ t[1] = p
      /\ \A j \in 1 .. Len(s) : t[j + 1] = s[j]
  BY <1>0
<1> HIDE DEF t
<1>2. ASSUME NEW j \in DOMAIN t, j # 1 PROVE j - 1 \in DOMAIN s /\ t[j] = s[j - 1]
  <2>1. j - 1 \in 1 .. Len(s) /\ (j - 1) + 1 = j
    BY <1>0, <1>1, <1>2
  <2> QED BY <2>1, <1>0, <1>1
<1>3. \A j \in DOMAIN s : s[j].key # p.key
  BY DEF Cached
<1>4. ASSUME NEW i \in DOMAIN t, NEW j \in DOMAIN t, t[i].key = t[j].key PROVE i = j
  <2>1. CASE i = 1 \/ j = 1
    BY <2>1, <1>1, <1>2, <1>3, <1>4
  <2>2. CASE i # 1 /\ j # 1
    <3>1. i - 1 \in DOMAIN s /\ j - 1 \in DOMAIN s /\ s[i - 1].key = s[j - 1].key
      BY <2>2, <1>2, <1>4
    <3>2. i - 1 = j - 1
      BY <3>1 DEF Sound
    <3> QED BY <3>1, <3>2, <1>0, <1>1
  <2> QED BY <2>1, <2>2
<1>5. Sound(t)
  BY <1>1, <1>4 DEF Sound
<1>6. PageAt(t, p.key) = p /\ Cached(t, p.key)
  <2>1. 1 \in DOMAIN t
    BY <1>0, <1>1
  <2> QED BY <2>1, <1>1, <1>5, PageIs
<1>7. ASSUME NEW k, Cached(t, k), k # p.key PROVE Cached(s, k) /\ PageAt(t, k) = PageAt(s, k)
  <2>1. PICK j \in DOMAIN t : t[j].key = k
    BY <1>7 DEF Cached
  <2>2. j - 1 \in DOMAIN s /\ t[j] = s[j - 1]
    BY <2>1, <1>1, <1>2, <1>7
  <2> QED BY <2>1, <2>2, <1>5, PageIs
<1>8. ASSUME NEW k, Cached(s, k) PROVE Cached(t, k)
  <2>1. PICK j \in DOMAIN s : s[j].key = k
    BY <1>8 DEF Cached
  <2>2. j + 1 \in DOMAIN t /\ t[j + 1] = s[j]
    BY <2>1, <1>0, <1>1
  <2> QED BY <2>1, <2>2 DEF Cached
<1>9. Replaced(s, t, p)
  BY <1>5, <1>6, <1>7, <1>8 DEF Replaced
<1> QED BY <1>1, <1>9 DEF t

(* lru_cache_touch moves or adds one page. *)
LEMMA TouchFacts ==
  ASSUME NEW s, Sound(s), NEW p \in Page PROVE Replaced(s, Touch(s, p), p)
<1> DEFINE w == Without(s, {p.key})
           t == <<p>> \o w
<1>1. Removed(s, w, {p.key})
  BY WithoutFacts
<1> HIDE DEF w
<1>2. Sound(w) /\ ~Cached(w, p.key)
  BY <1>1 DEF Removed
<1>3. Replaced(w, t, p)
  BY <1>2, FrontFacts
<1>4. t = Touch(s, p)
  BY DEF Touch, w
<1> HIDE DEF t
<1>5. Replaced(s, t, p)
  BY <1>1, <1>3 DEF Removed, Replaced
<1> QED BY <1>4, <1>5

(* Pages changed where they stand keep their places. *)
LEMMA InPlace ==
  ASSUME NEW s, Sound(s), NEW t \in Seq(Page), DOMAIN t = DOMAIN s,
         \A j \in DOMAIN s : t[j].key = s[j].key
  PROVE  /\ Sound(t) /\ \A k : Cached(t, k) <=> Cached(s, k)
         /\ \A j \in DOMAIN s : PageAt(t, s[j].key) = t[j]
<1>1. Sound(t)
  BY DEF Sound
<1>2. \A k : Cached(t, k) <=> Cached(s, k)
  BY DEF Cached
<1> QED BY <1>1, <1>2, PageIs

(* A cached page changed where it stands. *)
LEMMA ChangedFacts ==
  ASSUME NEW s, Sound(s), NEW p \in Page, Cached(s, p.key)
  PROVE  Replaced(s, Changed(s, p), p)
<1> DEFINE t == Changed(s, p)
<1>0. s \in Seq(Page) /\ Len(s) \in Nat /\ DOMAIN s = 1 .. Len(s)
  BY DEF Sound
<1>1. t \in Seq(Page) /\ DOMAIN t = DOMAIN s
  BY <1>0 DEF Changed
<1>2. \A j \in DOMAIN s : t[j] = IF s[j].key = p.key THEN p ELSE s[j]
  BY DEF Changed
<1> HIDE DEF t
<1>3. /\ Sound(t) /\ \A k : Cached(t, k) <=> Cached(s, k)
      /\ \A j \in DOMAIN s : PageAt(t, s[j].key) = t[j]
  BY <1>1, <1>2, InPlace
<1>4. PageAt(t, p.key) = p
  BY <1>2, <1>3 DEF Cached
<1>5. ASSUME NEW k, Cached(t, k), k # p.key PROVE PageAt(t, k) = PageAt(s, k)
  <2>1. PICK j \in DOMAIN s : s[j].key = k
    BY <1>3, <1>5 DEF Cached
  <2> QED BY <2>1, <1>2, <1>3, <1>5, PageIs
<1>6. Replaced(s, t, p)
  BY <1>3, <1>4, <1>5 DEF Replaced
<1> QED BY <1>6 DEF t

(* The page p with one reference less. *)
PutOf(p) == [p EXCEPT !.ref = IF @ > 0 THEN @ - 1 ELSE @]

(* pagecache_put_page changes the count of the page and moves it. *)
LEMMA PutFacts ==
  ASSUME NEW s, Sound(s), NEW k, Cached(s, k)
  PROVE  /\ Replaced(s, PutPage(s, k), PutOf(PageAt(s, k)))
         /\ PutOf(PageAt(s, k)) \in Page /\ PutOf(PageAt(s, k)).key = k
<1>1. PageAt(s, k) \in Page /\ PageAt(s, k).key = k
  BY CachedPage
<1>2. PutOf(PageAt(s, k)) \in Page /\ PutOf(PageAt(s, k)).key = k
  BY <1>1 DEF PutOf, Page
<1>3. PutPage(s, k) = Touch(s, PutOf(PageAt(s, k)))
  BY DEF PutPage, PutOf
<1> QED BY <1>2, <1>3, TouchFacts

(* The length of the list is the number of cached keys. *)
LEMMA LenIs ==
  ASSUME NEW s, Sound(s)
  PROVE  /\ Len(s) \in Nat /\ IsFiniteSet(CachedKeys(s))
         /\ Len(s) = Cardinality(CachedKeys(s)) /\ Len(s) <= Cardinality(Keys)
<1>0. s \in Seq(Page) /\ Len(s) \in Nat /\ DOMAIN s = 1 .. Len(s)
  BY DEF Sound
<1> DEFINE f == [j \in 1 .. Len(s) |-> s[j].key]
           C == CachedKeys(s)
<1>1. \A j \in 1 .. Len(s) : s[j].key \in C
  BY <1>0, PageIs DEF CachedKeys
<1>2. \A k \in C : \E j \in 1 .. Len(s) : s[j].key = k
  BY <1>0 DEF CachedKeys, Cached
<1>3. \A i, j \in 1 .. Len(s) : s[i].key = s[j].key => i = j
  BY <1>0 DEF Sound
<1>4. f \in [1 .. Len(s) -> C] /\ \A j \in 1 .. Len(s) : f[j] = s[j].key
  BY <1>1
<1> HIDE DEF f, C
<1>5. f \in Bijection(1 .. Len(s), C)
  BY <1>2, <1>3, <1>4 DEF Bijection, Injection, Surjection, IsInjective
<1>6. ExistsBijection(1 .. Len(s), C)
  BY <1>5 DEF ExistsBijection
<1>7. Cardinality(C) = Len(s)
  BY <1>0, <1>6, FS_CountingElements
<1>8. C \in SUBSET Keys
  BY DEF C, CachedKeys
<1>9. IsFiniteSet(C) /\ Cardinality(C) <= Cardinality(Keys)
  BY <1>8, KeysFinite, FS_Subset
<1> QED BY <1>0, <1>7, <1>9 DEF C

(* The cached pages of a file. *)
LEMMA OfFileIs ==
  ASSUME Sound(lru), NEW f PROVE OfFile(f) = {k \in CachedKeys(lru) : k[1] = f}
<1>1. ASSUME NEW k \in OfFile(f) PROVE k \in CachedKeys(lru) /\ k[1] = f
  <2>1. PICK j \in DOMAIN lru : lru[j].key[1] = f /\ lru[j].key = k
    BY DEF OfFile
  <2> QED BY <2>1, PageIs DEF CachedKeys
<1>2. ASSUME NEW k \in CachedKeys(lru), k[1] = f PROVE k \in OfFile(f)
  <2>1. PICK j \in DOMAIN lru : lru[j].key = k
    BY DEF CachedKeys, Cached
  <2> QED BY <2>1, <1>2 DEF OfFile
<1> QED BY <1>1, <1>2
-----------------------------------------------------------------------------
(* Page q may stand for page p as far as its data go. *)
SameData(p, q) == p.upt = q.upt /\ p.dirty = q.dirty /\ p.data = q.data

(* The list t has data of s, or pages without data. *)
Weaker(s, t) ==
  \A k : Cached(t, k) =>
    \/ ~PageAt(t, k).upt /\ ~PageAt(t, k).dirty
    \/ Cached(s, k) /\ SameData(PageAt(s, k), PageAt(t, k))

(* The device e has the holes of d, and elsewhere data that may be read. *)
Lands(d, e, m) ==
  /\ DiskType(e)
  /\ \A f \in Files : \A n \in BlocksOf(f) :
       (e[f][n] = Hole <=> d[f][n] = Hole) /\ (e[f][n] # Hole => e[f][n] \in m[f][n])

(* The data stay right when pages are dropped or moved and others written. *)
LEMMA StoreStep ==
  ASSUME NEW s, NEW d, NEW m, Store(s, d, m), NEW t, Sound(t), Weaker(s, t),
         NEW e, Lands(d, e, m)
  PROVE  Store(t, e, m)
<1>1. DirtyUpt(t)
  BY DEF Store, DirtyUpt, Weaker, SameData
<1>2. ASSUME NEW f \in Files, NEW n \in BlocksOf(f) PROVE BlockOK(t, e, m, f, n)
  <2>1. BlockOK(s, d, m, f, n)
    BY DEF Store
  <2> DEFINE k == <<f, n \div PerPage>>
             i == n % PerPage
  <2>2. Cached(t, k) /\ PageAt(t, k).upt => Cached(s, k) /\ PageAt(s, k).upt /\ PageAt(s, k).data = PageAt(t, k).data
    BY DEF Weaker, SameData
  <2>3. Cached(t, k) /\ PageAt(t, k).upt => PageAt(t, k).data[i] \in m[f][n]
    BY <2>1, <2>2 DEF BlockOK
  <2> QED BY <2>1, <2>3 DEF BlockOK, Lands
<1> QED BY <1>1, <1>2 DEF Store, Lands

(* A device that is left alone. *)
LEMMA SameLands == ASSUME NEW s, NEW d, NEW m, Store(s, d, m) PROVE Lands(d, d, m)
BY DEF Store, Lands, BlockOK

(* The pages of g are dirty pages of s, and g gives blocks ext2_writepage writes. *)
Landing(s, g) ==
  \A k \in DOMAIN g : /\ Cached(s, k) /\ PageAt(s, k).dirty
                      /\ g[k] \subseteq ToWrite(PageAt(s, k))

(* What the write-back of dirty pages puts on the device may be read. *)
LEMMA StoredFacts ==
  ASSUME NEW s, NEW m, Store(s, disk, m), NEW g, Landing(s, g)
  PROVE  /\ Lands(disk, Stored(s, g), m)
         /\ \A f \in Files : \A n \in BlocksOf(f) :
              <<f, n \div PerPage>> \in DOMAIN g /\ (n % PerPage) \in g[<<f, n \div PerPage>>] =>
                Stored(s, g)[f][n] = PageAt(s, <<f, n \div PerPage>>).data[n % PerPage]
<1> DEFINE e == Stored(s, g)
<1>1. DOMAIN e = Files /\ \A f \in Files : DOMAIN e[f] = BlocksOf(f)
  BY DEF Stored
<1>2. ASSUME NEW f \in Files, NEW n \in BlocksOf(f)
      PROVE  /\ e[f][n] \in Values \cup {Hole, Junk}
             /\ e[f][n] = Hole <=> disk[f][n] = Hole
             /\ e[f][n] # Hole => e[f][n] \in m[f][n]
             /\ <<f, n \div PerPage>> \in DOMAIN g /\ (n % PerPage) \in g[<<f, n \div PerPage>>] =>
                  e[f][n] = PageAt(s, <<f, n \div PerPage>>).data[n % PerPage]
  <2> DEFINE k == <<f, n \div PerPage>>
             i == n % PerPage
  <2>1. e[f][n] = IF k \in DOMAIN g /\ i \in g[k] THEN PageAt(s, k).data[i] ELSE disk[f][n]
    BY DEF Stored
  <2>2. BlockOK(s, disk, m, f, n) /\ disk[f][n] \in Values \cup {Hole, Junk}
    BY DEF Store, DiskType
  <2>3. n \in Nat /\ n \div PerPage \in Nat /\ i \in Slots /\ k \in Keys /\ k[1] = f /\ k[2] = n \div PerPage
    BY BlockKey
  <2>4. Block(k, i) = n
    BY <2>3, Places DEF Block
  <2> HIDE DEF e
  <2>5. CASE k \in DOMAIN g /\ i \in g[k]
    <3>1. Cached(s, k) /\ PageAt(s, k).dirty /\ i \in ToWrite(PageAt(s, k))
      BY <2>5 DEF Landing
    <3>2. PageAt(s, k) \in Page /\ PageAt(s, k).key = k
      BY <3>1, CachedPage DEF Store
    <3>3. PageAt(s, k).data[i] \in Values \cup {Junk}
      BY <2>3, <3>2 DEF Page
    <3>4. PageAt(s, k).data[i] \in m[f][n]
      BY <2>2, <2>3, <3>1 DEF Store, DirtyUpt, BlockOK
    <3>5. disk[f][n] # Hole
      BY <2>3, <2>4, <3>1, <3>2 DEF ToWrite
    <3> HIDE DEF k, i
    <3>6. e[f][n] = PageAt(s, k).data[i]
      BY <2>1, <2>5
    <3>7. e[f][n] # Hole
      BY <3>3, <3>6, Bounds
    <3> QED BY <3>3, <3>4, <3>5, <3>6, <3>7 DEF k, i
  <2>6. CASE ~(k \in DOMAIN g /\ i \in g[k])
    <3>1. e[f][n] = disk[f][n]
      BY <2>1, <2>6
    <3> QED BY <2>2, <2>6, <3>1 DEF BlockOK
  <2> QED BY <2>5, <2>6
<1> HIDE DEF e
<1>3. \A f \in Files : e[f] \in [BlocksOf(f) -> Values \cup {Hole, Junk}]
  <2> TAKE f \in Files
  <2>1. e = [x \in Files |-> e[x]] /\ e[f] = [n \in BlocksOf(f) |-> e[f][n]]
    BY DEF e, Stored
  <2> QED BY <2>1, <1>2
<1>4. Lands(disk, e, m)
  BY <1>1, <1>2, <1>3 DEF Lands, DiskType
<1>5. \A f \in Files : \A n \in BlocksOf(f) :
        <<f, n \div PerPage>> \in DOMAIN g /\ (n % PerPage) \in g[<<f, n \div PerPage>>] =>
          e[f][n] = PageAt(s, <<f, n \div PerPage>>).data[n % PerPage]
  BY <1>2
<1> QED BY <1>4, <1>5 DEF e

(* Landings are such. *)
LEMMA LandingIs ==
  ASSUME NEW s, NEW K, \A k \in K : Cached(s, k), NEW g \in Landings(s, K)
  PROVE  Landing(s, g) /\ DOMAIN g = DirtyIn(s, K)
<1>1. DOMAIN g = DirtyIn(s, K) /\ \A k \in DOMAIN g : g[k] \subseteq ToWrite(PageAt(s, k))
  BY DEF Landings
<1> QED BY <1>1 DEF Landing, DirtyIn

(* The keys of a list in which one page was exchanged. *)
LEMMA ReplacedKeys ==
  ASSUME NEW s, NEW t, NEW p \in Page, Replaced(s, t, p)
  PROVE  /\ CachedKeys(t) = CachedKeys(s) \cup {p.key}
         /\ Cached(s, p.key) => CachedKeys(t) = CachedKeys(s)
<1>1. p.key \in Keys
  BY DEF Page
<1> QED BY <1>1 DEF Replaced, CachedKeys

(* What depends on the keys alone. *)
LEMMA SameKeys ==
  ASSUME NEW s, NEW t, CachedKeys(t) = CachedKeys(s), NEW nr, NEW pn
  PROVE  (CountsOK(s, nr) => CountsOK(t, nr)) /\ (BoundOK(s, pn) => BoundOK(t, pn))
BY DEF CountsOK, FilePages, BoundOK

(* One exchanged page. *)
LEMMA ReplacedData ==
  ASSUME NEW s, NEW t, NEW p, Replaced(s, t, p), Cached(s, p.key), SameData(PageAt(s, p.key), p)
  PROVE  Weaker(s, t)
<1>1. ASSUME NEW k, Cached(t, k) PROVE Cached(s, k) /\ SameData(PageAt(s, k), PageAt(t, k))
  <2>1. CASE k = p.key
    BY <2>1 DEF Replaced
  <2>2. CASE k # p.key
    <3>1. Cached(s, k) /\ PageAt(t, k) = PageAt(s, k)
      BY <2>2, <1>1 DEF Replaced
    <3> QED BY <3>1 DEF SameData
  <2> QED BY <2>1, <2>2
<1> QED BY <1>1 DEF Weaker

(* pagecache_put_page of a page the call holds. *)
LEMMA PutStep ==
  ASSUME NEW s, NEW d, NEW m, Store(s, d, m), NEW pn, PinsOK(pn), NEW H, RefsOK(s, pn, H),
         NEW k \in Keys, k \in H, NEW t, t = PutPage(s, k)
  PROVE  /\ Store(t, d, m) /\ RefsOK(t, pn, H \ {k}) /\ CachedKeys(t) = CachedKeys(s)
         /\ \A x : Cached(t, x) <=> Cached(s, x)
         /\ \A x : Cached(s, x) => SameData(PageAt(s, x), PageAt(t, x))
<1> DEFINE p == PutOf(PageAt(s, k))
<1>0. Sound(s)
  BY DEF Store
<1>1. RefOf(s, k) = pn[k] + 1 /\ pn[k] \in Nat
  BY Bounds DEF RefsOK, PinsOK
<1>2. Cached(s, k) /\ PageAt(s, k).ref = pn[k] + 1
  BY <1>1 DEF RefOf
<1>3. Replaced(s, t, p) /\ p \in Page /\ p.key = k
  BY <1>0, <1>2, PutFacts
<1>4. PageAt(s, k) \in Page
  BY <1>0, <1>2, CachedPage
<1>5. SameData(PageAt(s, k), p) /\ p.ref = pn[k]
  BY <1>1, <1>2, <1>4 DEF PutOf, SameData, Page
<1> HIDE DEF p
<1>6. Weaker(s, t)
  BY <1>2, <1>3, <1>5, ReplacedData
<1>7. Store(t, d, m)
  <2>1. Sound(t)
    BY <1>3 DEF Replaced
  <2> QED BY <2>1, <1>6, StoreStep, SameLands
<1>8. ASSUME NEW x \in Keys PROVE RefOf(t, x) = pn[x] + (IF x \in H \ {k} THEN 1 ELSE 0)
  <2>1. RefOf(s, x) = pn[x] + (IF x \in H THEN 1 ELSE 0) /\ pn[x] \in Nat
    BY Bounds DEF RefsOK, PinsOK
  <2>2. CASE x = k
    BY <2>2, <1>1, <1>3, <1>5 DEF RefOf, Replaced
  <2>3. CASE x # k
    BY <2>1, <2>3, <1>3 DEF RefOf, Replaced
  <2> QED BY <2>2, <2>3
<1>9. CachedKeys(t) = CachedKeys(s)
  BY <1>2, <1>3, ReplacedKeys
<1>10. \A x : Cached(t, x) <=> Cached(s, x)
  BY <1>2, <1>3 DEF Replaced
<1>11. ASSUME NEW x, Cached(s, x) PROVE SameData(PageAt(s, x), PageAt(t, x))
  BY <1>2, <1>3, <1>5, <1>10, <1>11 DEF Replaced, SameData
<1> QED BY <1>7, <1>8, <1>9, <1>10, <1>11 DEF RefsOK
-----------------------------------------------------------------------------
(* mapping->nrpages less the pages of K. *)
Dropped(nr, K) == [f \in Files |-> nr[f] - Cardinality({k \in K : k[1] = f})]

(* Pages that are released: unhashed, unlinked and written back. *)
LEMMA ReleaseStep ==
  ASSUME NEW s, NEW m, Store(s, disk, m), NEW K \in SUBSET CachedKeys(s),
         NEW g \in Landings(s, K), NEW nr, CountsOK(s, nr),
         NEW t, t = Without(s, K)
  PROVE  /\ Store(t, Stored(s, g), m) /\ Removed(s, t, K) /\ CachedKeys(t) = CachedKeys(s) \ K
         /\ Lands(disk, Stored(s, g), m) /\ Landing(s, g)
         /\ CountsOK(t, Dropped(nr, K))
         /\ Cardinality(Failed(s, g)) \in Nat
<1>1. Sound(s) /\ \A k \in K : Cached(s, k) /\ k \in Keys
  BY DEF Store, CachedKeys
<1>2. Landing(s, g) /\ DOMAIN g = DirtyIn(s, K)
  BY <1>1, LandingIs
<1>3. Removed(s, t, K)
  BY <1>1, WithoutFacts
<1>4. Sound(t) /\ Weaker(s, t)
  BY <1>3 DEF Removed, Weaker, SameData
<1>5. Lands(disk, Stored(s, g), m)
  BY <1>2, StoredFacts
<1>6. Store(t, Stored(s, g), m)
  BY <1>4, <1>5, StoreStep
<1>7. CachedKeys(t) = CachedKeys(s) \ K
  BY <1>3 DEF Removed, CachedKeys
<1>8. CountsOK(t, Dropped(nr, K))
  <2>1. ASSUME NEW f \in Files
        PROVE  Cardinality(FilePages(t, f)) = nr[f] - Cardinality({k \in K : k[1] = f})
    <3>1. nr[f] = Cardinality(FilePages(s, f))
      BY DEF CountsOK
    <3>2. IsFiniteSet(FilePages(s, f))
      <4>1. FilePages(s, f) \in SUBSET Keys /\ \A k \in FilePages(s, f) : k[1] = f
        BY DEF FilePages, CachedKeys
      <4> QED BY <4>1, KeysFinite
    <3> DEFINE X == {k \in K : k[1] = f}
    <3>3. FilePages(t, f) = FilePages(s, f) \ K /\ FilePages(s, f) \cap K = X
      BY <1>7 DEF FilePages
    <3>4. Cardinality(FilePages(s, f) \ K)
            = Cardinality(FilePages(s, f)) - Cardinality(FilePages(s, f) \cap K)
      BY <3>2, FS_Difference
    <3> HIDE DEF X
    <3>5. Cardinality(FilePages(t, f)) = nr[f] - Cardinality(X)
      BY <3>1, <3>3, <3>4
    <3> QED BY <3>5 DEF X
  <2> QED BY <2>1 DEF CountsOK, Dropped
<1>9. Cardinality(Failed(s, g)) \in Nat
  <2>1. Failed(s, g) \in SUBSET Keys
    BY <1>1, <1>2 DEF Failed, DirtyIn
  <2> QED BY <2>1, KeysFinite, FS_Subset, FS_CardinalityType
<1> QED BY <1>2, <1>3, <1>5, <1>6, <1>7, <1>8, <1>9

(* Of a set of positions, the last m are taken, or all. *)
LEMMA TakenFromTail ==
  ASSUME NEW N \in Nat, NEW F \in SUBSET (1 .. N), NEW m \in Int,
         NEW V, V = {j \in F : Cardinality({i \in F : i >= j}) <= m}
  PROVE  IsFiniteSet(V) /\ (V = F \/ Cardinality(V) >= m)
<1>1. IsFiniteSet(F) /\ V \in SUBSET F
  <2>1. IsFiniteSet(1 .. N)
    BY FS_Interval
  <2> QED BY <2>1, FS_Subset
<1>2. IsFiniteSet(V)
  BY <1>1, FS_Subset
<1>3. CASE V # F
  <2> DEFINE B == {N - j : j \in F \ V}
  <2>1. PICK b \in B : \A y \in B : b <= y
    <3>0. \A j \in F \ V : N - j \in Nat
      OBVIOUS
    <3>1. B \in SUBSET Nat /\ B # {}
      BY <1>1, <1>3, <3>0
    <3> HIDE DEF B
    <3> QED BY <3>1, LeastNumber
  <2>2. PICK j \in F \ V : b = N - j
    BY <2>1
  <2> DEFINE T == {i \in F : i >= j}
  <2>3. T \in SUBSET F /\ j \in T /\ ~(Cardinality(T) <= m)
    BY <2>2
  <2>4. IsFiniteSet(T) /\ Cardinality(T) \in Nat
    BY <1>1, <2>3, FS_Subset, FS_CardinalityType
  <2>5. T \ {j} \in SUBSET V
    <3> SUFFICES ASSUME NEW i \in F, i >= j, i # j, i \notin V PROVE FALSE
      OBVIOUS
    <3>1. N - i \in B
      OBVIOUS
    <3>2. N - j <= N - i
      BY <3>1, <2>1, <2>2
    <3> QED BY <3>2, <2>2
  <2> HIDE DEF T
  <2>6. Cardinality(T \ {j}) = Cardinality(T) - 1
    BY <2>3, <2>4, FS_RemoveElement
  <2>7. Cardinality(T \ {j}) <= Cardinality(V)
    BY <2>5, <1>2, FS_Subset
  <2>8. Cardinality(V) \in Nat
    BY <1>2, FS_CardinalityType
  <2> QED BY <2>3, <2>4, <2>6, <2>7, <2>8, <1>2
<1> QED BY <1>2, <1>3

(* Reclaim takes unreferenced pages, down to the limit or to the last one. *)
LEMMA VictimsFacts ==
  ASSUME NEW s, Sound(s)
  PROVE  /\ Victims(s) \in SUBSET CachedKeys(s)
         /\ \A k \in Victims(s) : PageAt(s, k).ref = 0
         /\ \/ Cardinality(CachedKeys(s) \ Victims(s)) <= MaxPages
            \/ \A k \in CachedKeys(s) \ Victims(s) : PageAt(s, k).ref # 0
<1> DEFINE F == {j \in DOMAIN s : s[j].ref = 0}
           m == Len(s) - MaxPages
           V == {j \in F : Cardinality({i \in F : i >= j}) <= m}
<1>0. Len(s) \in Nat /\ DOMAIN s = 1 .. Len(s)
  BY DEF Sound
<1>1. Victims(s) = {s[j].key : j \in V}
  BY DEF Victims
<1>2. F \in SUBSET (1 .. Len(s)) /\ m \in Int /\ V \in SUBSET F
  BY <1>0, Bounds
<1>3. IsFiniteSet(V) /\ (V = F \/ Cardinality(V) >= m)
  <2> HIDE DEF F, m
  <2> QED BY <1>0, <1>2, TakenFromTail
<1>4. \A j \in V : j \in DOMAIN s /\ s[j].ref = 0
  OBVIOUS
<1> HIDE DEF V
<1>5. \A k \in Victims(s) : k \in CachedKeys(s) /\ PageAt(s, k).ref = 0
  <2> TAKE k \in Victims(s)
  <2>1. PICK j \in V : k = s[j].key
    BY <1>1
  <2> QED BY <2>1, <1>4, PageIs DEF CachedKeys
<1>6. CASE V = F
  <2>1. ASSUME NEW k \in CachedKeys(s) \ Victims(s) PROVE PageAt(s, k).ref # 0
    <3>1. PICK j \in DOMAIN s : s[j].key = k
      BY DEF CachedKeys, Cached
    <3>2. PageAt(s, k) = s[j] /\ j \notin V
      BY <3>1, <1>1, PageIs
    <3> QED BY <3>1, <3>2, <1>6
  <2> QED BY <2>1, <1>5
<1>7. CASE Cardinality(V) >= m
  <2> DEFINE f == [j \in V |-> s[j].key]
             K == Victims(s)
  <2>1. \A i, j \in V : s[i].key = s[j].key => i = j
    BY <1>4 DEF Sound
  <2>2. f \in [V -> K] /\ \A j \in V : f[j] = s[j].key
    BY <1>1
  <2> HIDE DEF f
  <2>3. f \in Bijection(V, K)
    BY <2>1, <2>2, <1>1 DEF Bijection, Injection, Surjection, IsInjective
  <2>4. Cardinality(K) = Cardinality(V)
    <3>1. ExistsBijection(V, K)
      BY <2>3 DEF ExistsBijection
    <3> QED BY <3>1, <1>3, FS_Bijection
  <2>5. K \in SUBSET CachedKeys(s)
    BY <1>5
  <2>6. Cardinality(CachedKeys(s)) = Len(s) /\ IsFiniteSet(CachedKeys(s))
    BY LenIs
  <2> HIDE DEF K
  <2>7. Cardinality(CachedKeys(s) \ K) = Len(s) - Cardinality(K)
    <3>1. Cardinality(CachedKeys(s) \ K) = Len(s) - Cardinality(CachedKeys(s) \cap K)
      BY <2>6, FS_Difference
    <3>2. CachedKeys(s) \cap K = K
      BY <2>5
    <3> QED BY <3>1, <3>2
  <2>8. Cardinality(V) \in Nat
    BY <1>3, FS_CardinalityType
  <2>9. Cardinality(CachedKeys(s) \ K) <= MaxPages
    BY <2>4, <2>7, <2>8, <1>7, <1>0, Bounds
  <2> QED BY <2>9, <1>5 DEF K
<1> QED BY <1>3, <1>6, <1>7

(* What holds of the cache before and after a page is taken. *)
CacheOK(s, d, m, nr, pn, H) ==
  Store(s, d, m) /\ CountsOK(s, nr) /\ RefsOK(s, pn, H) /\ BoundOK(s, pn)

(* pagecache_get_page finds the page. *)
LEMMA GetHit ==
  ASSUME NEW d, NEW m, NEW nr, NEW pn, NEW H, CacheOK(lru, d, m, nr, pn, H), PinsOK(pn),
         NEW k \in Keys, k \notin H, Cached(lru, k),
         NEW t, t = Touch(lru, [PageAt(lru, k) EXCEPT !.ref = @ + 1])
  PROVE  CacheOK(t, d, m, nr, pn, H \cup {k})
<1> DEFINE p == [PageAt(lru, k) EXCEPT !.ref = @ + 1]
<1>1. Sound(lru) /\ Store(lru, d, m)
  BY DEF CacheOK, Store
<1>2. PageAt(lru, k) \in Page /\ PageAt(lru, k).key = k
  BY <1>1, CachedPage
<1>3. p \in Page /\ p.key = k /\ SameData(PageAt(lru, k), p) /\ p.ref = PageAt(lru, k).ref + 1
  BY <1>2 DEF Page, SameData
<1> HIDE DEF p
<1>4. Replaced(lru, t, p)
  BY <1>1, <1>3, TouchFacts DEF p
<1>5. Sound(t) /\ Weaker(lru, t)
  BY <1>3, <1>4, ReplacedData DEF Replaced
<1>6. Store(t, d, m)
  BY <1>1, <1>5, StoreStep, SameLands
<1>7. CachedKeys(t) = CachedKeys(lru)
  BY <1>3, <1>4, ReplacedKeys
<1>8. CountsOK(t, nr) /\ BoundOK(t, pn)
  BY <1>7, SameKeys DEF CacheOK
<1>9. ASSUME NEW x \in Keys PROVE RefOf(t, x) = pn[x] + (IF x \in H \cup {k} THEN 1 ELSE 0)
  <2>1. RefOf(lru, x) = pn[x] + (IF x \in H THEN 1 ELSE 0) /\ pn[x] \in Nat
    BY Bounds DEF CacheOK, RefsOK, PinsOK
  <2>2. CASE x = k
    BY <2>1, <2>2, <1>3, <1>4 DEF RefOf, Replaced
  <2>3. CASE x # k
    BY <2>1, <2>3, <1>3, <1>4 DEF RefOf, Replaced
  <2> QED BY <2>2, <2>3
<1> QED BY <1>6, <1>8, <1>9 DEF CacheOK, RefsOK

(* The list with a new page of key k in front. *)
LEMMA NewStep ==
  ASSUME NEW d, NEW m, NEW nr, NEW pn, NEW H, CacheOK(lru, d, m, nr, pn, H), PinsOK(pn),
         NEW k \in Keys, ~Cached(lru, k), NEW s, s = <<NewPage(k)>> \o lru
  PROVE  /\ Store(s, d, m) /\ CountsOK(s, [nr EXCEPT ![k[1]] = @ + 1])
         /\ RefsOK(s, pn, H \cup {k})
<1> DEFINE p == NewPage(k)
<1>1. Sound(lru) /\ Store(lru, d, m)
  BY DEF CacheOK, Store
<1>2. p \in Page /\ p.key = k /\ ~p.upt /\ ~p.dirty /\ p.ref = 1
  BY Bounds DEF NewPage, Page
<1> HIDE DEF p
<1>3. Replaced(lru, s, p)
  BY <1>1, <1>2, FrontFacts DEF p
<1>4. Sound(s) /\ Weaker(lru, s)
  BY <1>2, <1>3 DEF Replaced, Weaker, SameData
<1>5. Store(s, d, m)
  BY <1>1, <1>4, StoreStep, SameLands
<1>6. CachedKeys(s) = CachedKeys(lru) \cup {k} /\ k \notin CachedKeys(lru)
  BY <1>2, <1>3, ReplacedKeys DEF CachedKeys
<1>7. CountsOK(s, [nr EXCEPT ![k[1]] = @ + 1])
  <2>1. k[1] \in Files
    BY KeyFacts
  <2>2. ASSUME NEW f \in Files
        PROVE  [nr EXCEPT ![k[1]] = @ + 1][f] = Cardinality(FilePages(s, f))
    <3>1. nr[f] = Cardinality(FilePages(lru, f)) /\ DOMAIN nr = Files
      BY DEF CacheOK, CountsOK
    <3>2. IsFiniteSet(FilePages(lru, f))
      <4>1. FilePages(lru, f) \in SUBSET Keys /\ \A x \in FilePages(lru, f) : x[1] = f
        BY DEF FilePages, CachedKeys
      <4> QED BY <4>1, KeysFinite
    <3>3. CASE f = k[1]
      <4>1. FilePages(s, f) = FilePages(lru, f) \cup {k} /\ k \notin FilePages(lru, f)
        BY <3>3, <1>6 DEF FilePages
      <4>2. Cardinality(FilePages(lru, f) \cup {k}) = Cardinality(FilePages(lru, f)) + 1
        BY <4>1, <3>2, FS_AddElement
      <4> QED BY <4>1, <4>2, <3>1, <3>3
    <3>4. CASE f # k[1]
      <4>1. FilePages(s, f) = FilePages(lru, f)
        BY <3>4, <1>6 DEF FilePages
      <4> QED BY <4>1, <3>1, <3>4
    <3> QED BY <3>3, <3>4
  <2>3. nr = [f \in Files |-> nr[f]]
    BY DEF CacheOK, CountsOK
  <2>4. [nr EXCEPT ![k[1]] = @ + 1] = [f \in Files |-> [nr EXCEPT ![k[1]] = @ + 1][f]]
    BY <2>3
  <2> QED BY <2>2, <2>4 DEF CountsOK
<1>8. ASSUME NEW x \in Keys PROVE RefOf(s, x) = pn[x] + (IF x \in H \cup {k} THEN 1 ELSE 0)
  <2>1. RefOf(lru, x) = pn[x] + (IF x \in H THEN 1 ELSE 0) /\ pn[x] \in Nat
    BY Bounds DEF CacheOK, RefsOK, PinsOK
  <2>2. CASE x = k
    <3>1. pn[x] = 0
      BY <2>1, <2>2 DEF RefOf
    <3> QED BY <3>1, <2>2, <1>2, <1>3 DEF RefOf, Replaced
  <2>3. CASE x # k
    BY <2>1, <2>3, <1>2, <1>3 DEF RefOf, Replaced
  <2> QED BY <2>2, <2>3
<1> QED BY <1>5, <1>7, <1>8 DEF RefsOK

(* pagecache_get_page adds the page and reclaims others. *)
LEMMA GetMiss ==
  ASSUME NEW m, NEW nr, NEW pn, NEW H, CacheOK(lru, disk, m, nr, pn, H), PinsOK(pn),
         NEW k \in Keys, ~Cached(lru, k),
         IsFiniteSet(H), Cardinality(H \cup {k}) <= ReadAhead,
         NEW s, s = <<NewPage(k)>> \o lru, NEW g \in Landings(s, Victims(s)),
         NEW nr1, nr1 = [nr EXCEPT ![k[1]] = @ + 1]
  PROVE  /\ Lands(disk, Stored(s, g), m) /\ Cardinality(Failed(s, g)) \in Nat
         /\ CacheOK(Without(s, Victims(s)), Stored(s, g), m, Dropped(nr1, Victims(s)), pn, H \cup {k})
<1> DEFINE V == Victims(s)
           t == Without(s, V)
           H1 == H \cup {k}
<1>1. Store(s, disk, m) /\ CountsOK(s, nr1) /\ RefsOK(s, pn, H1)
  BY NewStep
<1>2. Sound(s)
  BY <1>1 DEF Store
<1>3. /\ V \in SUBSET CachedKeys(s) /\ \A x \in V : PageAt(s, x).ref = 0
      /\ Cardinality(CachedKeys(s) \ V) <= MaxPages
         \/ \A x \in CachedKeys(s) \ V : PageAt(s, x).ref # 0
  BY <1>2, VictimsFacts
<1> HIDE DEF V, H1
<1>4. /\ Store(t, Stored(s, g), m) /\ Removed(s, t, V) /\ CachedKeys(t) = CachedKeys(s) \ V
      /\ Lands(disk, Stored(s, g), m) /\ Cardinality(Failed(s, g)) \in Nat
      /\ CountsOK(t, Dropped(nr1, V))
  BY <1>1, <1>3, ReleaseStep DEF V
<1> HIDE DEF t
<1>5. \A x \in Keys : pn[x] \in Nat
  BY Bounds DEF PinsOK
<1>6. ASSUME NEW x \in Keys PROVE RefOf(t, x) = pn[x] + (IF x \in H1 THEN 1 ELSE 0)
  <2>1. RefOf(s, x) = pn[x] + (IF x \in H1 THEN 1 ELSE 0)
    BY <1>1 DEF RefsOK
  <2>2. CASE x \in V
    <3>1. RefOf(s, x) = 0 /\ ~Cached(t, x)
      BY <2>2, <1>3, <1>4 DEF RefOf, Removed
    <3> QED BY <2>1, <3>1 DEF RefOf
  <2>3. CASE x \notin V
    BY <2>1, <2>3, <1>4 DEF RefOf, Removed
  <2> QED BY <2>2, <2>3
<1>7. BoundOK(t, pn)
  <2>1. CASE Cardinality(CachedKeys(s) \ V) <= MaxPages
    BY <2>1, <1>4 DEF BoundOK
  <2>2. CASE \A x \in CachedKeys(s) \ V : PageAt(s, x).ref # 0
    <3>1. CachedKeys(t) \in SUBSET (Pinned(pn) \cup H1)
      <4> SUFFICES ASSUME NEW x \in CachedKeys(t), x \notin H1 PROVE x \in Pinned(pn)
        OBVIOUS
      <4>1. x \in CachedKeys(s) \ V /\ x \in Keys /\ Cached(s, x)
        BY <1>4 DEF CachedKeys
      <4>2. RefOf(s, x) # 0
        BY <4>1, <2>2 DEF RefOf
      <4>3. RefOf(s, x) = pn[x]
        BY <4>1, <1>1, <1>5 DEF RefsOK
      <4> QED BY <4>1, <4>2, <4>3, <1>5 DEF Pinned
    <3>2. IsFiniteSet(Pinned(pn)) /\ IsFiniteSet(H1) /\ Cardinality(H1) <= ReadAhead
      <4>1. Pinned(pn) \in SUBSET Keys
        BY DEF Pinned
      <4>2. IsFiniteSet(Pinned(pn))
        BY <4>1, KeysFinite, FS_Subset
      <4> QED BY <4>2, FS_AddElement DEF H1
    <3>3. /\ IsFiniteSet(Pinned(pn) \cup H1)
          /\ Cardinality(Pinned(pn) \cup H1) =
               Cardinality(Pinned(pn)) + Cardinality(H1) - Cardinality(Pinned(pn) \cap H1)
      BY <3>2, FS_Union
    <3>4. /\ Cardinality(Pinned(pn)) \in Nat /\ Cardinality(H1) \in Nat
          /\ Cardinality(Pinned(pn) \cap H1) \in Nat
      BY <3>2, FS_CardinalityType, FS_Intersection
    <3>5. Cardinality(CachedKeys(t)) <= Cardinality(Pinned(pn) \cup H1)
      BY <3>1, <3>3, FS_Subset
    <3>6. Cardinality(CachedKeys(t)) \in Nat
      BY <3>1, <3>3, FS_Subset, FS_CardinalityType
    <3>7. Cardinality(CachedKeys(t)) <= ReadAhead + Cardinality(Pinned(pn))
      BY <3>2, <3>3, <3>4, <3>5, <3>6, Bounds
    <3> QED BY <3>7 DEF BoundOK
  <2> QED BY <2>1, <2>2, <1>3
<1>8. CacheOK(t, Stored(s, g), m, Dropped(nr1, V), pn, H1)
  BY <1>4, <1>6, <1>7 DEF CacheOK, RefsOK
<1> QED BY <1>4, <1>8 DEF V, t, H1

(* pagecache_get_page. *)
LEMMA GetStep ==
  ASSUME NEW H, CacheOK(lru, disk, may, nrpages, pins, H), PinsOK(pins), FaultsOK(faults),
         NEW k \in Keys, k \notin H, IsFiniteSet(H), Cardinality(H \cup {k}) <= ReadAhead,
         GetPage(k)
  PROVE  /\ CacheOK(lru', disk', may, nrpages', pins, H \cup {k})
         /\ Lands(disk, disk', may) /\ FaultsOK(faults')
<1>1. CASE Cached(lru, k)
  <2>1. lru' = Touch(lru, [PageAt(lru, k) EXCEPT !.ref = @ + 1]) /\ UNCHANGED <<nrpages, disk, faults>>
    BY <1>1 DEF GetPage
  <2>2. CacheOK(lru', disk, may, nrpages, pins, H \cup {k})
    BY <2>1, <1>1, GetHit
  <2>3. Lands(disk, disk, may)
    BY SameLands DEF CacheOK
  <2> QED BY <2>1, <2>2, <2>3
<1>2. CASE ~Cached(lru, k)
  <2> DEFINE s == <<NewPage(k)>> \o lru
             nr1 == [nrpages EXCEPT ![k[1]] = @ + 1]
  <2>1. PICK g \in Landings(s, Victims(s)) : Released(s, nr1, Victims(s), g)
    BY <1>2 DEF GetPage
  <2>2. /\ lru' = Without(s, Victims(s)) /\ disk' = Stored(s, g)
        /\ nrpages' = Dropped(nr1, Victims(s)) /\ Faulty(Cardinality(Failed(s, g)))
    BY <2>1 DEF Released, Dropped
  <2>3. /\ Lands(disk, Stored(s, g), may) /\ Cardinality(Failed(s, g)) \in Nat
        /\ CacheOK(Without(s, Victims(s)), Stored(s, g), may, Dropped(nr1, Victims(s)),
                   pins, H \cup {k})
    BY <1>2, <2>1, GetMiss
  <2> HIDE DEF s, nr1
  <2>4. FaultsOK(faults')
    BY <2>2, <2>3, Bounds DEF Faulty, FaultsOK
  <2> QED BY <2>2, <2>3, <2>4
<1> QED BY <1>1, <1>2
-----------------------------------------------------------------------------
(* The data of a page may be read; so may what the device has of a block. *)
GoodPage(p, m) == \A i \in Slots : p.data[i] \in m[p.key[1]][Block(p.key, i)]
GoodBlock(d, m, f, n) ==
  (d[f][n] # Hole => d[f][n] \in m[f][n]) /\ (d[f][n] = Hole => 0 \in m[f][n])
GoodDisk(d, m) == \A f \in Files : \A n \in BlocksOf(f) : GoodBlock(d, m, f, n)
GoodList(s, m) ==
  \A k \in Keys : Cached(s, k) => /\ PageAt(s, k).dirty => PageAt(s, k).upt
                                  /\ PageAt(s, k).upt => GoodPage(PageAt(s, k), m)

(* Store, page by page and block by block. *)
LEMMA StoreIs ==
  ASSUME NEW s, NEW d, NEW m
  PROVE  Store(s, d, m) <=> /\ Sound(s) /\ DiskType(d) /\ MayType(m)
                            /\ GoodDisk(d, m) /\ GoodList(s, m)
<1>1. ASSUME Store(s, d, m)
      PROVE  Sound(s) /\ DiskType(d) /\ MayType(m) /\ GoodDisk(d, m) /\ GoodList(s, m)
  <2>1. Sound(s) /\ DiskType(d) /\ MayType(m) /\ DirtyUpt(s)
    BY <1>1 DEF Store
  <2>2. GoodDisk(d, m)
    BY <1>1 DEF Store, BlockOK, GoodDisk, GoodBlock
  <2>3. ASSUME NEW k \in Keys, Cached(s, k), PageAt(s, k).upt, NEW i \in Slots
        PROVE  PageAt(s, k).data[i] \in m[k[1]][Block(k, i)]
    <3> DEFINE n == Block(k, i)
               f == k[1]
    <3>1. f \in Files /\ n \in BlocksOf(f) /\ n \div PerPage = k[2] /\ n % PerPage = i /\ k = <<f, k[2]>>
      BY KeyFacts, KeyBlock
    <3>2. BlockOK(s, d, m, f, n)
      BY <1>1, <3>1 DEF Store
    <3>3. <<f, n \div PerPage>> = k
      BY <3>1
    <3> QED BY <3>1, <3>2, <3>3, <2>3 DEF BlockOK
  <2>4. GoodList(s, m)
    BY <2>1, <2>3, CachedPage DEF GoodList, GoodPage, DirtyUpt
  <2> QED BY <2>1, <2>2, <2>4
<1>2. ASSUME Sound(s), DiskType(d), MayType(m), GoodDisk(d, m), GoodList(s, m)
      PROVE  Store(s, d, m)
  <2>1. DirtyUpt(s)
    BY <1>2 DEF GoodList, DirtyUpt
  <2>2. ASSUME NEW f \in Files, NEW n \in BlocksOf(f) PROVE BlockOK(s, d, m, f, n)
    <3> DEFINE k == <<f, n \div PerPage>>
               i == n % PerPage
    <3>1. n \in Nat /\ i \in Slots /\ k \in Keys
      BY BlockKey
    <3>2. Block(k, i) = n
      BY <3>1, Places DEF Block
    <3>3. GoodBlock(d, m, f, n)
      BY <1>2 DEF GoodDisk
    <3>4. ASSUME Cached(s, k), PageAt(s, k).upt PROVE PageAt(s, k).data[i] \in m[f][n]
      <4>1. GoodPage(PageAt(s, k), m) /\ PageAt(s, k).key = k
        BY <1>2, <3>1, <3>4, CachedPage DEF GoodList
      <4> QED BY <4>1, <3>1, <3>2 DEF GoodPage
    <3> QED BY <3>3, <3>4 DEF BlockOK, GoodBlock
  <2> QED BY <1>2, <2>1, <2>2 DEF Store
<1> QED BY <1>1, <1>2

(* A page read now has data that may be read, unless a write in progress has *)
(* gone past it without moving the end of the file.                         *)
LEMMA ReadPageFacts ==
  ASSUME NEW c, NEW s, Store(s, disk, may), TailOK(c, may, size), SizeOK(size), NEW p \in Page,
         \A i \in Slots : ~Unfinished(c, p.key[1], Block(p.key, i))
  PROVE  /\ ReadPage(p) \in Page /\ GoodPage(ReadPage(p), may)
         /\ ReadPage(p).key = p.key /\ ReadPage(p).ref = p.ref /\ ReadPage(p).upt
         /\ ReadPage(p).dirty = p.dirty /\ ReadPage(p).mask = p.mask
<1> DEFINE k == p.key
           f == p.key[1]
<1>1. k \in Keys /\ f \in Files
  BY KeyFacts DEF Page
<1>2. ASSUME NEW i \in Slots
      PROVE  Content(k, i) \in may[f][Block(k, i)] /\ Content(k, i) \in Values \cup {Junk}
  <2> DEFINE n == Block(k, i)
  <2>1. n \in BlocksOf(f)
    BY <1>1, KeyBlock
  <2>2. GoodBlock(disk, may, f, n) /\ disk[f][n] \in Values \cup {Hole, Junk}
    BY <1>1, <2>1, StoreIs DEF GoodDisk, DiskType
  <2>3. n >= size[f] => 0 \in may[f][n]
    BY <1>1, <2>1 DEF TailOK
  <2>4. Content(k, i) = IF n >= size[f] \/ disk[f][n] = Hole THEN 0 ELSE disk[f][n]
    BY DEF Content
  <2> HIDE DEF n
  <2>5. Content(k, i) \in may[f][n] /\ Content(k, i) \in Values \cup {Junk}
    BY <2>2, <2>3, <2>4, Bounds DEF GoodBlock
  <2> QED BY <2>5 DEF n
<1>3. /\ ReadPage(p).key = k /\ ReadPage(p).ref = p.ref /\ ReadPage(p).upt
      /\ ReadPage(p).dirty = p.dirty /\ ReadPage(p).mask = p.mask
      /\ ReadPage(p).data = [i \in Slots |-> Content(k, i)]
  BY DEF ReadPage, Page
<1>4. ReadPage(p) \in Page
  <2>1. [i \in Slots |-> Content(k, i)] \in [Slots -> Values \cup {Junk}]
    BY <1>2
  <2> QED BY <2>1 DEF ReadPage, Page
<1>5. GoodPage(ReadPage(p), may)
  BY <1>2, <1>3 DEF GoodPage
<1> QED BY <1>3, <1>4, <1>5

(* A cached page changed where it stands, its references kept. *)
LEMMA ChangeStep ==
  ASSUME NEW s, Sound(s), NEW k, Cached(s, k), NEW p \in Page, p.key = k,
         p.ref = PageAt(s, k).ref, NEW t, t = Changed(s, p)
  PROVE  /\ Replaced(s, t, p) /\ Sound(t) /\ CachedKeys(t) = CachedKeys(s)
         /\ \A x : Cached(t, x) <=> Cached(s, x)
         /\ \A pn, H : RefsOK(s, pn, H) => RefsOK(t, pn, H)
<1>1. Replaced(s, t, p)
  BY ChangedFacts
<1>2. CachedKeys(t) = CachedKeys(s)
  BY <1>1, ReplacedKeys
<1>3. \A x : RefOf(t, x) = RefOf(s, x) /\ (Cached(t, x) <=> Cached(s, x))
  BY <1>1 DEF Replaced, RefOf
<1> QED BY <1>1, <1>2, <1>3 DEF Replaced, RefsOK

(* The larger of two numbers. *)
LEMMA MaxPair ==
  ASSUME NEW a \in Nat, NEW b \in Nat
  PROVE  /\ Max({a, b}) \in Nat /\ Max({a, b}) \in {a, b} /\ Max({a, b}) >= a /\ Max({a, b}) >= b
<1>1. \E x \in {a, b} : \A y \in {a, b} : x >= y
  OBVIOUS
<1>2. Max({a, b}) \in {a, b} /\ \A y \in {a, b} : Max({a, b}) >= y
  BY <1>1 DEF Max
<1> QED BY <1>2

(* The blocks of a call lie in its page. *)
LEMMA ChunkFacts ==
  ASSUME NEW c \in OpType, NEW n \in Chunk(c)
  PROVE  n \in Nat /\ n >= c.from /\ n < c.to /\ n \div PerPage = c.key[2]
BY DEF Chunk, OpType

(* They are blocks of its file. *)
LEMMA ChunkBlocks ==
  ASSUME NEW z, NEW d, NEW c, OpOK(c, z, d), c.at # "idle",
         c.call \in {"write", "scan", "slot", "delete", "grow"}, NEW n \in Chunk(c)
  PROVE  /\ n \in BlocksOf(c.key[1]) /\ n \in Nat /\ n \div PerPage = c.key[2]
         /\ c.key \in Keys /\ c.key = <<c.key[1], n \div PerPage>> /\ n % PerPage \in Slots
         /\ Block(c.key, n % PerPage) = n
<1>1. c \in OpType /\ c.key \in Keys /\ c.to <= Span[c.key[1]] /\ c.from \in Nat /\ c.to \in Nat
  BY DEF OpOK, KeyOK, RangeOK, OpType
<1>2. c.key[1] \in Files /\ c.key = <<c.key[1], c.key[2]>>
  BY <1>1, KeyFacts
<1>3. n \in Nat /\ n < c.to /\ n \div PerPage = c.key[2]
  BY <1>1, ChunkFacts
<1>4. n < Span[c.key[1]]
  BY <1>1, <1>2, <1>3, Bounds
<1>5. n \in BlocksOf(c.key[1])
  BY <1>2, <1>3, <1>4, SpanBlock
<1>6. n % PerPage \in Slots /\ Block(c.key, n % PerPage) = n
  BY <1>3, Places DEF Block
<1> QED BY <1>1, <1>2, <1>3, <1>5, <1>6

(* No call. *)
LEMMA IdleFacts ==
  /\ Idle.at = "idle" /\ HeldBy(Idle) = {}
  /\ \A z, d : OpOK(Idle, z, d)
  /\ \A s : DirtyOK(Idle, s)
  /\ \A f, n : ~Unfinished(Idle, f, n)
<1>1. Idle \in OpType
  BY DEF Idle, OpType
<1>2. /\ Idle.at = "idle" /\ Idle.call = "none" /\ Idle.held = <<>> /\ ~Idle.done
  BY DEF Idle
<1>3. HeldBy(Idle) = {} /\ HeldOK(Idle)
  BY <1>2 DEF HeldBy, HeldOK
<1>4. \A z, d : RangeOK(Idle, z) /\ MappedOK(Idle, d)
  BY <1>2 DEF RangeOK, MappedOK
<1>5. KeyOK(Idle) /\ StageOK(Idle)
  BY <1>2 DEF KeyOK, StageOK
<1>6. \A s : DirtyOK(Idle, s)
  BY <1>2 DEF DirtyOK
<1>7. \A f, n : ~Unfinished(Idle, f, n)
  BY <1>2 DEF Unfinished
<1> QED BY <1>1, <1>2, <1>3, <1>4, <1>5, <1>6, <1>7 DEF OpOK

(* A call that is nowhere is no call. *)
LEMMA NotCalled ==
  ASSUME NEW c, NEW z, NEW d, OpOK(c, z, d), c.at = "idle" PROVE c = Idle
BY DEF OpOK, StageOK

(* A write has not gone past its own page. *)
LEMMA OwnPage ==
  ASSUME NEW z, NEW d, NEW c, OpOK(c, z, d), c.at # "idle", NEW i \in Slots
  PROVE  ~Unfinished(c, c.key[1], Block(c.key, i))
<1>1. c.key \in Keys /\ (c.done => c.from = c.key[2] * PerPage)
  BY DEF OpOK, KeyOK, RangeOK
<1>2. c.key[2] \in Nat /\ i \in Nat /\ PerPage \in Nat
  BY <1>1, KeyFacts, Bounds DEF Slots
<1>3. c.key[2] * PerPage \in Nat
  BY <1>2
<1>4. c.done => ~(Block(c.key, i) < c.from)
  BY <1>1, <1>2, <1>3 DEF Block
<1> QED BY <1>4 DEF Unfinished

(* The page ext2_get_page goes on with. *)
LEMMA FilledFacts ==
  ASSUME InvOf(op), op.at # "idle", Cached(lru, Main)
  PROVE  /\ Filled \in Page /\ Filled.key = Main /\ Filled.ref = PageAt(lru, Main).ref
         /\ Filled.upt /\ GoodPage(Filled, may)
         /\ Filled.dirty = PageAt(lru, Main).dirty /\ Filled.mask = PageAt(lru, Main).mask
<1> DEFINE p == PageAt(lru, Main)
<1>1. Store(lru, disk, may) /\ Sound(lru) /\ GoodList(lru, may) /\ OpOK(op, size, disk)
      /\ TailOK(op, may, size) /\ SizeOK(size)
  BY StoreIs DEF InvOf
<1>2. p \in Page /\ p.key = Main /\ Main \in Keys
  BY <1>1, CachedPage
<1>3. CASE p.upt
  <2>1. Filled = p
    BY <1>3 DEF Filled
  <2>2. GoodPage(p, may)
    BY <1>1, <1>2, <1>3 DEF GoodList
  <2> QED BY <1>2, <1>3, <2>1, <2>2
<1>4. CASE ~p.upt
  <2>1. Filled = ReadPage(p)
    BY <1>4 DEF Filled
  <2>2. \A i \in Slots : ~Unfinished(op, p.key[1], Block(p.key, i))
    BY <1>1, <1>2, OwnPage DEF Main
  <2> HIDE DEF p
  <2>3. /\ ReadPage(p) \in Page /\ GoodPage(ReadPage(p), may)
        /\ ReadPage(p).key = p.key /\ ReadPage(p).ref = p.ref /\ ReadPage(p).upt
        /\ ReadPage(p).dirty = p.dirty /\ ReadPage(p).mask = p.mask
    BY <1>1, <1>2, <2>2, ReadPageFacts
  <2> QED BY <1>2, <2>1, <2>3 DEF p
<1> QED BY <1>3, <1>4

(* What the end of a call leaves: the file reaches as far as it was written. *)
LEMMA FinishStep ==
  ASSUME NEW c, NEW m, NEW d, OpOK(c, size, d), c.at # "idle", SizeOK(size),
         TailOK(c, m, size), DirsOK(d, size), Finish(c, c.from)
  PROVE  /\ op' = Idle /\ SizeOK(size') /\ TailOK(Idle, m, size') /\ DirsOK(d, size')
<1>1. op' = Idle
  BY DEF Finish
<1>2. CASE ~(c.call = "write" /\ c.done)
  <2>1. size' = size
    BY <1>2 DEF Finish
  <2>2. \A f, n : ~Unfinished(c, f, n)
    BY <1>2 DEF Unfinished
  <2> QED BY <1>1, <2>1, <2>2 DEF TailOK
<1>3. CASE c.call = "write" /\ c.done
  <2> DEFINE f0 == c.key[1]
             x == Max({size[f0], c.from})
  <2>1. size' = [size EXCEPT ![f0] = x]
    BY <1>3 DEF Finish
  <2>2. c.key \in Keys /\ f0 \notin Dirs /\ c.from \in Nat /\ c.to \in Nat /\ c.from < c.to /\ c.to <= Span[f0]
    BY <1>3 DEF OpOK, KeyOK, RangeOK, OpType
  <2>3. f0 \in Files /\ Span[f0] \in Nat /\ size[f0] \in Nat /\ size[f0] <= Span[f0]
    BY <2>2, KeyFacts, Bounds DEF SizeOK
  <2>4. x \in Nat /\ x >= size[f0] /\ x >= c.from /\ x <= Span[f0]
    <3>1. x \in Nat /\ x \in {size[f0], c.from} /\ x >= size[f0] /\ x >= c.from
      BY <2>2, <2>3, MaxPair
    <3> HIDE DEF x
    <3> QED BY <3>1, <2>2, <2>3
  <2> HIDE DEF x, f0
  <2>5. /\ \A f \in Files : size'[f] = IF f = f0 THEN x ELSE size[f]
        /\ size' \in [Files -> Nat]
    BY <2>1, <2>3, <2>4 DEF SizeOK
  <2>6. SizeOK(size')
    BY <2>4, <2>5 DEF SizeOK
  <2>7. ASSUME NEW f \in Files, NEW n \in BlocksOf(f), n >= size'[f] PROVE 0 \in m[f][n]
    <3>1. n \in Nat /\ size[f] \in Nat
      BY BlockKey DEF SizeOK
    <3>2. n >= size[f] /\ ~Unfinished(c, f, n)
      BY <2>2, <2>4, <2>5, <2>7, <3>1 DEF Unfinished, f0
    <3> QED BY <3>2 DEF TailOK
  <2>8. DirsOK(d, size')
    BY <2>2, <2>5, PageCacheAssumption DEF DirsOK
  <2> QED BY <1>1, <2>6, <2>7, <2>8 DEF TailOK
<1> QED BY <1>2, <1>3

(* A call that starts holds nothing and has written nothing. *)
LEMMA NewCall ==
  ASSUME InvOf(op), op.at = "idle", NEW c, OpOK(c, size, disk), c.held = <<>>, ~c.done,
         c.at # "flush"
  PROVE  InvOf(c)
<1>1. op = Idle
  BY NotCalled DEF InvOf
<1>2. HeldBy(c) = HeldBy(op)
  <2>1. HeldBy(c) = {}
    BY DEF HeldBy
  <2> QED BY <2>1, <1>1, IdleFacts
<1>3. TailOK(c, may, size)
  BY <1>1, IdleFacts DEF InvOf, TailOK
<1>4. DirtyOK(c, lru)
  BY DEF DirtyOK
<1> QED BY <1>2, <1>3, <1>4 DEF InvOf

(* Every call that may go on keeps the invariant as the call in progress. *)
LEMMA PendingFacts ==
  ASSUME InvOf(op), NEW c \in Pending PROVE InvOf(c) /\ c.at # "idle"
<1>0. SizeOK(size) /\ DirsOK(disk, size) /\ DiskType(disk)
  BY DEF InvOf, Store
<1>1. CASE op.at # "idle"
  BY <1>1 DEF Pending
<1>2. ASSUME op.at = "idle", NEW f \in Files \ Dirs, c \in ReadCalls(f) PROVE InvOf(c) /\ c.at # "idle"
  <2>1. PICK q \in 0 .. LastPage(f), ra \in BOOLEAN : c = Call("read", <<f, q>>, 0, 0, ra, "grab")
    <3>1. \E q \in {x \in 0 .. LastPage(f) : x * PerPage < size[f]} : \E ra \in BOOLEAN :
            c = Call("read", <<f, q>>, 0, 0, ra, "grab")
      BY <1>2 DEF ReadCalls
    <3> QED BY <3>1
  <2>2. c = [call |-> "read", at |-> "grab", key |-> <<f, q>>, held |-> <<>>,
             from |-> 0, to |-> 0, done |-> FALSE, ra |-> ra]
    BY <2>1 DEF Call
  <2>3. <<f, q>> \in Keys
    BY KeyFacts, LastPageType
  <2>4. c \in OpType
    BY <2>2, <2>3 DEF OpType
  <2>5. StageOK(c) /\ KeyOK(c) /\ HeldOK(c) /\ RangeOK(c, size) /\ MappedOK(c, disk)
    BY <2>2, <2>3 DEF StageOK, KeyOK, HeldOK, RangeOK, MappedOK
  <2>6. OpOK(c, size, disk)
    BY <2>4, <2>5 DEF OpOK
  <2> QED BY <1>2, <2>2, <2>6, NewCall
<1>3. ASSUME op.at = "idle", NEW f \in Files \ Dirs, c \in WriteCalls(f) PROVE InvOf(c) /\ c.at # "idle"
  <2>1. PICK a \in 0 .. Span[f] - 1, b \in 1 .. Span[f] :
          a < b /\ c = Call("write", <<f, a \div PerPage>>, a, b, FALSE, "prepare")
    BY <1>3 DEF WriteCalls
  <2>2. c = [call |-> "write", at |-> "prepare", key |-> <<f, a \div PerPage>>, held |-> <<>>,
             from |-> a, to |-> b, done |-> FALSE, ra |-> FALSE]
    BY <2>1 DEF Call
  <2>3. a \in Nat /\ b \in Nat /\ a < Span[f] /\ b <= Span[f]
    BY <2>1, Bounds
  <2>4. <<f, a \div PerPage>> \in Keys
    BY <2>3, SpanBlock, BlockKey
  <2> DEFINE k == <<f, a \div PerPage>>
  <2>5. k[1] = f /\ k[2] = a \div PerPage /\ k \in Keys /\ c.key = k
    BY <2>2, <2>4
  <2>6. c \in OpType
    BY <2>2, <2>3, <2>4 DEF OpType
  <2> HIDE DEF k
  <2>7. StageOK(c) /\ KeyOK(c) /\ HeldOK(c) /\ MappedOK(c, disk)
    BY <2>2, <2>5 DEF StageOK, KeyOK, HeldOK, MappedOK
  <2>8. RangeOK(c, size)
    <3>1. c.call = "write" /\ c.from = a /\ c.to = b /\ ~c.done
      BY <2>2
    <3> QED BY <3>1, <2>1, <2>3, <2>5 DEF RangeOK
  <2>9. OpOK(c, size, disk)
    BY <2>6, <2>7, <2>8 DEF OpOK
  <2> QED BY <1>3, <2>2, <2>9, NewCall
<1>4. ASSUME op.at = "idle", NEW f \in Dirs, c \in DirCalls(f) PROVE InvOf(c) /\ c.at # "idle"
  <2> DEFINE k == <<f, 0>>
  <2>0. f \in Files /\ k \in Keys /\ k[1] = f /\ k[2] = 0
    BY KeyFacts, LastPageType, PageCacheAssumption
  <2>1. CASE c = Call("lookup", k, 0, 0, FALSE, "grab")
    <3>1. c = [call |-> "lookup", at |-> "grab", key |-> k, held |-> <<>>,
               from |-> 0, to |-> 0, done |-> FALSE, ra |-> FALSE]
      BY <2>1 DEF Call
    <3> HIDE DEF k
    <3>2. c \in OpType
      BY <3>1, <2>0 DEF OpType
    <3>3. StageOK(c) /\ KeyOK(c) /\ HeldOK(c) /\ RangeOK(c, size) /\ MappedOK(c, disk)
      BY <3>1, <2>0 DEF StageOK, KeyOK, HeldOK, RangeOK, MappedOK
    <3>4. OpOK(c, size, disk)
      BY <3>2, <3>3 DEF OpOK
    <3> QED BY <1>4, <3>1, <3>4, NewCall
  <2>2. ASSUME NEW call \in {"scan", "delete"}, NEW n \in 0 .. size[f] - 1,
               c = Call(call, k, n, n + 1, FALSE, "grab")
        PROVE  InvOf(c) /\ c.at # "idle"
    <3>1. c = [call |-> call, at |-> "grab", key |-> k, held |-> <<>>,
               from |-> n, to |-> n + 1, done |-> FALSE, ra |-> FALSE]
      BY <2>2 DEF Call
    <3> HIDE DEF k
    <3>2. n \in Nat /\ n < size[f] /\ n + 1 <= size[f] /\ size[f] <= Span[f] /\ Span[f] <= PerPage
      BY <1>0, <2>0, PageCacheAssumption DEF SizeOK
    <3>3. size[f] \in Nat /\ Span[f] \in Nat
      BY <1>0, <2>0, Bounds DEF SizeOK
    <3>4. n \div PerPage = 0
      <4>1. n \in Slots /\ 0 * PerPage + n = n
        BY <3>2, <3>3, Bounds DEF Slots
      <4> QED BY <4>1, Slot
    <3>5. c \in OpType
      BY <3>1, <2>0, <3>2 DEF OpType
    <3>6. StageOK(c) /\ KeyOK(c) /\ HeldOK(c)
      BY <3>1, <2>0 DEF StageOK, KeyOK, HeldOK
    <3>7. RangeOK(c, size)
      BY <3>1, <2>0, <3>2, <3>3, <3>4 DEF RangeOK
    <3>8. MappedOK(c, disk)
      <4> SUFFICES ASSUME NEW x \in Chunk(c) PROVE disk[c.key[1]][x] # Hole
        BY DEF MappedOK
      <4>1. x \in Nat /\ x < n + 1
        BY <3>1, <3>5, ChunkFacts
      <4>2. x < size[f] /\ x < Span[f]
        BY <4>1, <3>2, <3>3
      <4>3. x \in BlocksOf(f)
        BY <4>1, <4>2, <2>0, SpanBlock
      <4> QED BY <4>2, <4>3, <3>1, <2>0, <1>0 DEF DirsOK
    <3>9. OpOK(c, size, disk)
      BY <3>5, <3>6, <3>7, <3>8 DEF OpOK
    <3> QED BY <1>4, <3>1, <3>9, NewCall
  <2>3. \/ c = Call("lookup", k, 0, 0, FALSE, "grab")
        \/ \E call \in {"scan", "delete"} : \E n \in 0 .. size[f] - 1 :
             c = Call(call, k, n, n + 1, FALSE, "grab")
    <3> DEFINE D == {Call(r[1], k, r[2], r[2] + 1, FALSE, "grab") :
                       r \in {"scan", "delete"} \X (0 .. size[f] - 1)}
    <3>1. c \in D \/ c = Call("lookup", k, 0, 0, FALSE, "grab")
      BY <1>4 DEF DirCalls
    <3>2. c \in D => \E call \in {"scan", "delete"} : \E n \in 0 .. size[f] - 1 :
                      c = Call(call, k, n, n + 1, FALSE, "grab")
      <4> HIDE DEF k
      <4> QED OBVIOUS
    <3> HIDE DEF D
    <3> QED BY <3>1, <3>2
  <2> QED BY <2>1, <2>2, <2>3
<1>5. ASSUME op.at = "idle"
      PROVE  \/ \E f \in Files \ Dirs : c \in ReadCalls(f) \/ c \in WriteCalls(f)
             \/ \E f \in Dirs : c \in DirCalls(f)
  <2> DEFINE A == {ReadCalls(f) \cup WriteCalls(f) : f \in Files \ Dirs}
             B == {DirCalls(f) : f \in Dirs}
  <2>1. c \in UNION A \/ c \in UNION B
    <3>1. c \in Calls
      BY <1>5 DEF Pending
    <3> QED BY <3>1 DEF Calls
  <2>2. c \in UNION A => \E f \in Files \ Dirs : c \in ReadCalls(f) \/ c \in WriteCalls(f)
    OBVIOUS
  <2>3. c \in UNION B => \E f \in Dirs : c \in DirCalls(f)
    OBVIOUS
  <2> HIDE DEF A, B
  <2> QED BY <2>1, <2>2, <2>3
<1> QED BY <1>1, <1>2, <1>3, <1>4, <1>5
-----------------------------------------------------------------------------
(* The invariant, before a step and after it. *)
LEMMA Before ==
  ASSUME NEW c, InvOf(c)
  PROVE  /\ CacheOK(lru, disk, may, nrpages, pins, HeldBy(c))
         /\ Store(lru, disk, may) /\ Sound(lru) /\ RefsOK(lru, pins, HeldBy(c))
         /\ SizeOK(size) /\ PinsOK(pins) /\ FaultsOK(faults)
         /\ OpOK(c, size, disk) /\ DirtyOK(c, lru)
         /\ TailOK(c, may, size) /\ DirsOK(disk, size)
BY DEF InvOf, CacheOK, Store

(* What there is to show of a step. *)
LEMMA After ==
  ASSUME CacheOK(lru', disk', may', nrpages', pins', HeldBy(op')),
         SizeOK(size'), PinsOK(pins'), FaultsOK(faults'),
         OpOK(op', size', disk'), DirtyOK(op', lru'),
         TailOK(op', may', size'), DirsOK(disk', size')
  PROVE  InvOf(op)'
BY DEF InvOf, CacheOK

(* e is the call c at another stage. *)
Onward(c, e) ==
  /\ e \in OpType /\ e.call = c.call /\ e.key = c.key
  /\ e.from = c.from /\ e.to = c.to /\ e.done = c.done

(* The blocks the call is about to change are allocated. *)
Mapped(c, d) ==
  c.call \in {"write", "slot", "delete", "grow"} => \A n \in Chunk(c) : d[c.key[1]][n] # Hole

(* Only a change of the blocks, the page or the kind of call matters more. *)
LEMMA OnwardFacts ==
  ASSUME NEW c, NEW e, Onward(c, e)
  PROVE  /\ Chunk(e) = Chunk(c) /\ \A f, n : Unfinished(e, f, n) <=> Unfinished(c, f, n)
         /\ \A z : RangeOK(c, z) => RangeOK(e, z)
         /\ \A m, z : TailOK(c, m, z) => TailOK(e, m, z)
<1>1. Chunk(e) = Chunk(c) /\ \A f, n : Unfinished(e, f, n) <=> Unfinished(c, f, n)
  BY DEF Onward, Chunk, Unfinished
<1>2. \A z : RangeOK(c, z) => RangeOK(e, z)
  BY DEF Onward, RangeOK
<1>3. \A m, z : TailOK(c, m, z) => TailOK(e, m, z)
  BY <1>1 DEF TailOK
<1> QED BY <1>1, <1>2, <1>3

(* A call that moved on to a stage of its kind, on a device with the same holes. *)
LEMMA OnwardOK ==
  ASSUME NEW z, NEW d, NEW c, OpOK(c, z, d), c.at # "idle",
         NEW e, Onward(c, e), StageOK(e), HeldOK(e), NEW d1, Mapped(c, d1)
  PROVE  OpOK(e, z, d1)
<1>1. c \in OpType /\ KeyOK(c) /\ RangeOK(c, z)
  BY DEF OpOK
<1>2. e \in OpType /\ e.call = c.call /\ e.key = c.key
  BY DEF Onward
<1>3. Chunk(e) = Chunk(c) /\ RangeOK(e, z)
  BY <1>1, OnwardFacts
<1>4. KeyOK(e) /\ MappedOK(e, d1)
  BY <1>1, <1>2, <1>3 DEF KeyOK, MappedOK, Mapped
<1> QED BY <1>2, <1>3, <1>4 DEF OpOK

(* Holes stay holes, so what a call had allocated stays so. *)
LEMMA LandsMapped ==
  ASSUME NEW c, NEW z, NEW d, OpOK(c, z, d), c.at \in {"grab", "fill", "flush"}, NEW e, NEW m, Lands(d, e, m)
  PROVE  Mapped(c, e)
<1> SUFFICES ASSUME c.call \in {"write", "slot", "delete", "grow"}, NEW n \in Chunk(c)
             PROVE  e[c.key[1]][n] # Hole
  BY DEF Mapped
<1>1. d[c.key[1]][n] # Hole
  BY DEF OpOK, MappedOK
<1>2. n \in BlocksOf(c.key[1]) /\ c.key \in Keys
  BY ChunkBlocks
<1>3. c.key[1] \in Files
  BY <1>2, KeyFacts
<1> QED BY <1>1, <1>2, <1>3 DEF Lands

(* Directories keep their blocks. *)
LEMMA LandsDirs ==
  ASSUME NEW z, NEW d, DirsOK(d, z), NEW e, NEW m, Lands(d, e, m) PROVE DirsOK(e, z)
BY PageCacheAssumption DEF DirsOK, Lands

(* What a call holds, by its stage. *)
LEMMA HeldIs ==
  ASSUME NEW c, NEW z, NEW d, OpOK(c, z, d), c.at # "idle"
  PROVE  /\ c.key \in Keys /\ c.held \in Seq(Keys) /\ c.key = <<c.key[1], c.key[2] + 1 - 1>>
         /\ c.at \in {"prepare", "grab"} => c.held = <<>> /\ HeldBy(c) = {}
         /\ c.at \in {"fill", "leave", "flush"} => c.held = <<c.key>> /\ HeldBy(c) = {c.key}
<1>1. c \in OpType /\ HeldOK(c) /\ c.key \in Keys
  BY DEF OpOK, KeyOK
<1>2. c.key[2] \in Nat /\ c.key = <<c.key[1], c.key[2]>>
  BY <1>1, KeyFacts
<1>3. c.at \in {"prepare", "grab"} => c.held = <<>> /\ HeldBy(c) = {}
  BY <1>1 DEF HeldOK, HeldBy
<1>4. ASSUME c.at \in {"fill", "leave", "flush"} PROVE c.held = <<c.key>> /\ HeldBy(c) = {c.key}
  <2>1. c.held = <<c.key>>
    BY <1>1, <1>4 DEF HeldOK
  <2>2. Len(c.held) = 1 /\ c.held[1] = c.key
    BY <2>1
  <2>3. \A x : x \in HeldBy(c) <=> x = c.key
    BY <2>2 DEF HeldBy
  <2> QED BY <2>1, <2>3
<1>5. c.held \in Seq(Keys)
  BY <1>1 DEF OpType
<1> QED BY <1>1, <1>2, <1>3, <1>4, <1>5

(* The allocation of the blocks of the call. *)
LEMMA PrepareStep == ASSUME NEW c, InvOf(c), Prepare(c) PROVE InvOf(op)'
<1> DEFINE f0 == c.key[1]
<1>1. /\ c.at = "prepare" /\ op' = [c EXCEPT !.at = "grab"]
      /\ disk' = [disk EXCEPT ![f0] = [n \in DOMAIN @ |->
                    IF n \in Chunk(c) /\ @[n] = Hole THEN 0 ELSE @[n]]]
      /\ UNCHANGED <<lru, nrpages, size, may, pins, faults>>
  BY DEF Prepare
<1>2. /\ CacheOK(lru, disk, may, nrpages, pins, HeldBy(c)) /\ Store(lru, disk, may)
      /\ SizeOK(size) /\ PinsOK(pins) /\ FaultsOK(faults) /\ OpOK(c, size, disk)
      /\ TailOK(c, may, size) /\ DirsOK(disk, size)
  BY Before
<1>3. c.key \in Keys /\ c.held = <<>> /\ c \in OpType /\ StageOK(c)
  BY <1>1, <1>2, HeldIs DEF OpOK
<1>4. f0 \in Files /\ c.call \in {"write", "grow"}
  BY <1>1, <1>3, KeyFacts DEF StageOK, Idle
<1>5. DiskType(disk) /\ GoodDisk(disk, may) /\ Sound(lru) /\ GoodList(lru, may) /\ MayType(may)
  BY <1>2, StoreIs
<1>6. ASSUME NEW f \in Files, NEW n \in BlocksOf(f)
      PROVE  disk'[f][n] = IF f = f0 /\ n \in Chunk(c) /\ disk[f][n] = Hole THEN 0 ELSE disk[f][n]
  BY <1>1, <1>4, <1>5 DEF DiskType
<1>7. DiskType(disk')
  <2>1. DOMAIN disk' = Files
    BY <1>1, <1>5 DEF DiskType
  <2>2. ASSUME NEW f \in Files PROVE disk'[f] \in [BlocksOf(f) -> Values \cup {Hole, Junk}]
    <3>1. disk[f] \in [BlocksOf(f) -> Values \cup {Hole, Junk}]
      BY <1>5 DEF DiskType
    <3>2. disk'[f] = IF f = f0 THEN [n \in BlocksOf(f) |->
              IF n \in Chunk(c) /\ disk[f][n] = Hole THEN 0 ELSE disk[f][n]] ELSE disk[f]
      BY <3>1, <1>1, <1>4, <1>5 DEF DiskType
    <3> QED BY <3>1, <3>2, Bounds
  <2> QED BY <2>1, <2>2 DEF DiskType
<1>8. GoodDisk(disk', may)
  <2> SUFFICES ASSUME NEW f \in Files, NEW n \in BlocksOf(f) PROVE GoodBlock(disk', may, f, n)
    BY DEF GoodDisk
  <2>1. GoodBlock(disk, may, f, n)
    BY <1>5 DEF GoodDisk
  <2> QED BY <2>1, <1>6, Bounds DEF GoodBlock
<1>9. Store(lru, disk', may)
  BY <1>5, <1>7, <1>8, StoreIs
<1>10. DirsOK(disk', size)
  <2> SUFFICES ASSUME NEW f \in Dirs, NEW n \in BlocksOf(f), n < size[f] PROVE disk'[f][n] # Hole
    BY DEF DirsOK
  <2>1. f \in Files /\ disk[f][n] # Hole
    BY <1>2, PageCacheAssumption DEF DirsOK
  <2> QED BY <2>1, <1>6
<1>11. Onward(c, op') /\ op'.at = "grab" /\ op'.held = <<>> /\ op'.call = c.call
  BY <1>1, <1>3 DEF Onward, OpType
<1>12. TailOK(op', may, size)
  BY <1>2, <1>11, OnwardFacts
<1>13. StageOK(op') /\ HeldOK(op') /\ HeldBy(op') = HeldBy(c)
  BY <1>3, <1>4, <1>11 DEF StageOK, HeldOK, HeldBy
<1>14. Mapped(c, disk')
  <2> SUFFICES ASSUME NEW n \in Chunk(c) PROVE disk'[f0][n] # Hole
    BY DEF Mapped
  <2>1. n \in BlocksOf(f0)
    BY <1>1, <1>2, <1>4, ChunkBlocks
  <2> QED BY <2>1, <1>4, <1>6, Bounds
<1>15. OpOK(op', size, disk')
  BY <1>1, <1>2, <1>11, <1>13, <1>14, OnwardOK
<1>16. DirtyOK(op', lru)
  BY <1>11 DEF DirtyOK
<1>17. CacheOK(lru, disk', may, nrpages, pins, HeldBy(op'))
  BY <1>2, <1>9, <1>13 DEF CacheOK
<1> QED BY <1>1, <1>2, <1>10, <1>12, <1>15, <1>16, <1>17, After

(* pagecache_get_page fails: there is no memory. *)
LEMMA GrabFailsStep == ASSUME NEW c, InvOf(c), GrabFails(c) PROVE InvOf(op)'
<1>1. c.at = "grab" /\ Finish(c, c.from) /\ UNCHANGED <<lru, nrpages, disk, faults, may, pins>>
  BY DEF GrabFails, CacheSame
<1>2. /\ CacheOK(lru, disk, may, nrpages, pins, HeldBy(c)) /\ SizeOK(size) /\ PinsOK(pins)
      /\ FaultsOK(faults) /\ OpOK(c, size, disk) /\ TailOK(c, may, size) /\ DirsOK(disk, size)
  BY Before
<1>3. op' = Idle /\ SizeOK(size') /\ TailOK(Idle, may, size') /\ DirsOK(disk, size')
  BY <1>1, <1>2, FinishStep
<1>4. HeldBy(c) = HeldBy(Idle)
  BY <1>1, <1>2, HeldIs, IdleFacts
<1> QED BY <1>1, <1>2, <1>3, <1>4, IdleFacts, After

(* There is no block, or it cannot be zeroed. *)
LEMMA PrepareFailsStep == ASSUME NEW c, InvOf(c), PrepareFails(c) PROVE InvOf(op)'
<1> DEFINE f0 == c.key[1]
<1>1. c.at = "prepare" /\ Finish(c, c.from) /\ UNCHANGED <<lru, nrpages, pins>>
  BY DEF PrepareFails
<1>2. PICK n0 \in Chunk(c), zeroing \in BOOLEAN :
        /\ disk[f0][n0] = Hole /\ Faulty(IF zeroing THEN 1 ELSE 0)
        /\ disk' = [disk EXCEPT ![f0] = [x \in DOMAIN @ |->
                      IF x \in Chunk(c) /\ @[x] = Hole /\ x < n0 THEN 0
                      ELSE IF x = n0 /\ zeroing THEN Junk ELSE @[x]]]
        /\ may' = IF zeroing THEN [may EXCEPT ![f0][n0] = @ \cup {Junk}] ELSE may
  BY DEF PrepareFails
<1>3. /\ CacheOK(lru, disk, may, nrpages, pins, HeldBy(c)) /\ Store(lru, disk, may)
      /\ SizeOK(size) /\ PinsOK(pins) /\ FaultsOK(faults) /\ OpOK(c, size, disk)
      /\ TailOK(c, may, size) /\ DirsOK(disk, size)
  BY Before
<1>4. c.key \in Keys /\ HeldBy(c) = {} /\ c.call \in {"write", "grow"}
  BY <1>1, <1>3, HeldIs DEF OpOK, StageOK, Idle
<1>5. f0 \in Files /\ n0 \in BlocksOf(f0)
  BY <1>1, <1>3, <1>4, KeyFacts, ChunkBlocks
<1>6. DiskType(disk) /\ GoodDisk(disk, may) /\ Sound(lru) /\ GoodList(lru, may) /\ MayType(may)
  BY <1>3, StoreIs
<1>7. ASSUME NEW f \in Files, NEW n \in BlocksOf(f)
      PROVE  /\ disk'[f][n] = IF f = f0 /\ n \in Chunk(c) /\ disk[f][n] = Hole /\ n < n0 THEN 0
                              ELSE IF f = f0 /\ n = n0 /\ zeroing THEN Junk ELSE disk[f][n]
             /\ may'[f][n] = IF f = f0 /\ n = n0 /\ zeroing THEN may[f][n] \cup {Junk} ELSE may[f][n]
  <2>1. disk'[f][n] = IF f = f0 /\ n \in Chunk(c) /\ disk[f][n] = Hole /\ n < n0 THEN 0
                      ELSE IF f = f0 /\ n = n0 /\ zeroing THEN Junk ELSE disk[f][n]
    BY <1>2, <1>5, <1>6 DEF DiskType
  <2>2. may'[f][n] = IF f = f0 /\ n = n0 /\ zeroing THEN may[f][n] \cup {Junk} ELSE may[f][n]
    BY <1>2, <1>5, <1>6 DEF MayType
  <2> QED BY <2>1, <2>2
<1>8. DiskType(disk')
  <2>1. DOMAIN disk' = Files
    BY <1>2, <1>6 DEF DiskType
  <2>2. ASSUME NEW f \in Files PROVE disk'[f] \in [BlocksOf(f) -> Values \cup {Hole, Junk}]
    <3>1. disk[f] \in [BlocksOf(f) -> Values \cup {Hole, Junk}]
      BY <1>6 DEF DiskType
    <3>2. disk'[f] = IF f = f0 THEN [x \in BlocksOf(f) |->
              IF x \in Chunk(c) /\ disk[f][x] = Hole /\ x < n0 THEN 0
              ELSE IF x = n0 /\ zeroing THEN Junk ELSE disk[f][x]] ELSE disk[f]
      BY <3>1, <1>2, <1>5, <1>6 DEF DiskType
    <3> QED BY <3>1, <3>2, Bounds
  <2> QED BY <2>1, <2>2 DEF DiskType
<1>9. MayType(may')
  <2>1. DOMAIN may' = Files
    BY <1>2, <1>6 DEF MayType
  <2>2. ASSUME NEW f \in Files PROVE may'[f] \in [BlocksOf(f) -> SUBSET (Values \cup {Junk})]
    <3>1. may[f] \in [BlocksOf(f) -> SUBSET (Values \cup {Junk})]
      BY <1>6 DEF MayType
    <3>2. may'[f] = IF f = f0 /\ zeroing THEN [may[f] EXCEPT ![n0] = @ \cup {Junk}] ELSE may[f]
      BY <1>2, <1>5, <1>6 DEF MayType
    <3> QED BY <3>1, <3>2
  <2> QED BY <2>1, <2>2 DEF MayType
<1>10. \A f \in Files : \A n \in BlocksOf(f) : may[f][n] \subseteq may'[f][n]
  BY <1>7
<1>11. GoodDisk(disk', may')
  <2> SUFFICES ASSUME NEW f \in Files, NEW n \in BlocksOf(f) PROVE GoodBlock(disk', may', f, n)
    BY DEF GoodDisk
  <2>1. GoodBlock(disk, may, f, n)
    BY <1>6 DEF GoodDisk
  <2>2. CASE f = f0 /\ n \in Chunk(c) /\ disk[f][n] = Hole /\ n < n0
    <3>1. disk'[f][n] = 0 /\ 0 \in may[f][n]
      BY <2>1, <2>2, <1>7 DEF GoodBlock
    <3>2. 0 \in may'[f][n]
      BY <3>1, <1>10
    <3> QED BY <3>1, <3>2 DEF GoodBlock
  <2>3. CASE f = f0 /\ n = n0 /\ zeroing /\ ~(n \in Chunk(c) /\ disk[f][n] = Hole /\ n < n0)
    <3>1. disk'[f][n] = Junk
      BY <2>3, <1>7
    <3>2. Junk \in may'[f][n]
      BY <2>3, <1>7
    <3> QED BY <3>1, <3>2, Bounds DEF GoodBlock
  <2>4. CASE /\ ~(f = f0 /\ n = n0 /\ zeroing)
             /\ ~(f = f0 /\ n \in Chunk(c) /\ disk[f][n] = Hole /\ n < n0)
    <3>1. disk'[f][n] = disk[f][n]
      BY <2>4, <1>7
    <3>2. may'[f][n] = may[f][n]
      BY <2>4, <1>7
    <3> QED BY <3>1, <3>2, <2>1 DEF GoodBlock
  <2> QED BY <2>2, <2>3, <2>4
<1>12. GoodList(lru, may')
  <2> SUFFICES ASSUME NEW k \in Keys, Cached(lru, k), PageAt(lru, k).upt PROVE GoodPage(PageAt(lru, k), may')
    BY <1>6 DEF GoodList
  <2>1. GoodPage(PageAt(lru, k), may) /\ PageAt(lru, k).key = k
    BY <1>6, CachedPage DEF GoodList
  <2>2. \A i \in Slots : k[1] \in Files /\ Block(k, i) \in BlocksOf(k[1])
    BY KeyFacts, KeyBlock
  <2> QED BY <2>1, <2>2, <1>10 DEF GoodPage
<1>13. Store(lru, disk', may')
  BY <1>6, <1>8, <1>9, <1>11, <1>12, StoreIs
<1>14. DirsOK(disk', size)
  <2> SUFFICES ASSUME NEW f \in Dirs, NEW n \in BlocksOf(f), n < size[f] PROVE disk'[f][n] # Hole
    BY DEF DirsOK
  <2>1. f \in Files /\ disk[f][n] # Hole
    BY <1>3, PageCacheAssumption DEF DirsOK
  <2> QED BY <2>1, <1>7, Bounds
<1>15. TailOK(c, may', size)
  BY <1>3, <1>10 DEF TailOK
<1>16. OpOK(c, size, disk')
  BY <1>1, <1>3 DEF OpOK, MappedOK
<1>17. op' = Idle /\ SizeOK(size') /\ TailOK(Idle, may', size') /\ DirsOK(disk', size')
  BY <1>1, <1>3, <1>14, <1>15, <1>16, FinishStep
<1>18. FaultsOK(faults')
  BY <1>2, <1>3, Bounds DEF Faulty, FaultsOK
<1>19. CacheOK(lru', disk', may', nrpages', pins', HeldBy(op'))
  BY <1>1, <1>3, <1>4, <1>13, <1>17, IdleFacts DEF CacheOK
<1> QED BY <1>1, <1>3, <1>17, <1>18, <1>19, IdleFacts, After

(* The page of the call is taken. *)
LEMMA GrabStep == ASSUME NEW c, InvOf(c), Grab(c) PROVE InvOf(op)'
<1> DEFINE at == IF c.call # "read" THEN "fill"
                 ELSE IF Cached(lru, c.key) /\ PageAt(lru, c.key).upt THEN "leave" ELSE "ahead"
<1>1. /\ c.at = "grab" /\ GetPage(c.key) /\ UNCHANGED <<size, may, pins>>
      /\ op' = [c EXCEPT !.held = <<c.key>>, !.at = at]
  BY DEF Grab
<1>2. /\ CacheOK(lru, disk, may, nrpages, pins, HeldBy(c)) /\ Store(lru, disk, may)
      /\ SizeOK(size) /\ PinsOK(pins) /\ FaultsOK(faults) /\ OpOK(c, size, disk)
      /\ TailOK(c, may, size) /\ DirsOK(disk, size)
  BY Before
<1>3. c.key \in Keys /\ HeldBy(c) = {} /\ c \in OpType /\ StageOK(c) /\ c.key = <<c.key[1], c.key[2] + 1 - 1>>
  BY <1>1, <1>2, HeldIs DEF OpOK
<1>4. /\ CacheOK(lru', disk', may, nrpages', pins, {c.key})
      /\ Lands(disk, disk', may) /\ FaultsOK(faults')
  <2>1. {} \cup {c.key} = {c.key} /\ c.key \notin {} /\ IsFiniteSet({}) /\ Cardinality({c.key}) = 1
    BY FS_EmptySet, FS_Singleton
  <2> QED BY <1>1, <1>2, <1>3, <2>1, Bounds, GetStep
<1>5. at \in {"fill", "leave", "ahead"} /\ (at = "fill" <=> c.call # "read")
  OBVIOUS
<1> HIDE DEF at
<1>6. Onward(c, op') /\ op'.at = at /\ op'.held = <<c.key>> /\ op'.call = c.call /\ op'.key = c.key
  <2>1. <<c.key>> \in Seq(Keys)
    BY <1>3
  <2> QED BY <1>1, <1>3, <1>5, <2>1 DEF Onward, OpType
<1>7. StageOK(op')
  BY <1>1, <1>3, <1>5, <1>6 DEF StageOK, Idle
<1>8. HeldOK(op') /\ HeldBy(op') = {c.key}
  <2>1. Len(op'.held) = 1 /\ op'.held[1] = c.key
    BY <1>6
  <2>2. 1 \in 1 .. ReadAhead
    BY Bounds
  <2>3. HeldOK(op')
    BY <2>1, <2>2, <1>3, <1>5, <1>6 DEF HeldOK
  <2>4. \A x : x \in HeldBy(op') <=> x = c.key
    BY <2>1 DEF HeldBy
  <2> QED BY <2>3, <2>4
<1>9. Mapped(c, disk')
  BY <1>1, <1>2, <1>4, LandsMapped
<1>10. OpOK(op', size, disk') /\ TailOK(op', may, size)
  BY <1>1, <1>2, <1>6, <1>7, <1>8, <1>9, OnwardOK, OnwardFacts
<1>11. DirtyOK(op', lru') /\ DirsOK(disk', size)
  BY <1>2, <1>4, <1>5, <1>6, LandsDirs DEF DirtyOK
<1> QED BY <1>1, <1>2, <1>4, <1>8, <1>10, <1>11, After

(* The pages held by a read are the ones that follow its own. *)
LEMMA WindowFacts ==
  ASSUME NEW z, NEW d, NEW c, OpOK(c, z, d), c.at \in {"ahead", "readin"}
  PROVE  /\ c.key \in Keys /\ c.held \in Seq(Keys) /\ Len(c.held) \in 1 .. ReadAhead
         /\ \A j \in 1 .. Len(c.held) : c.held[j] \in Keys /\ c.held[j] = <<c.key[1], c.key[2] + j - 1>>
         /\ c.held[1] = c.key /\ c.key \in HeldBy(c) /\ c.call = "read"
         /\ \A i, j \in 1 .. Len(c.held) : c.held[i] = c.held[j] => i = j
         /\ IsFiniteSet(HeldBy(c)) /\ Cardinality(HeldBy(c)) <= Len(c.held)
<1>1. c \in OpType /\ HeldOK(c) /\ c.key \in Keys /\ StageOK(c)
  BY DEF OpOK, KeyOK
<1>2. c.key[2] \in Nat /\ c.key = <<c.key[1], c.key[2]>>
  BY <1>1, KeyFacts
<1>3. c.held \in Seq(Keys) /\ Len(c.held) \in 1 .. ReadAhead
  BY <1>1 DEF OpType, HeldOK
<1>4. \A j \in 1 .. Len(c.held) : c.held[j] \in Keys /\ c.held[j] = <<c.key[1], c.key[2] + j - 1>>
  BY <1>1, <1>3 DEF HeldOK
<1>5. 1 \in 1 .. Len(c.held) /\ c.key[2] + 1 - 1 = c.key[2]
  BY <1>2, <1>3
<1>6. c.held[1] = c.key /\ c.key \in HeldBy(c)
  BY <1>2, <1>4, <1>5 DEF HeldBy
<1>7. c.call = "read"
  BY <1>1 DEF StageOK, Idle
<1>8. ASSUME NEW i \in 1 .. Len(c.held), NEW j \in 1 .. Len(c.held), c.held[i] = c.held[j] PROVE i = j
  <2>1. <<c.key[1], c.key[2] + i - 1>> = <<c.key[1], c.key[2] + j - 1>>
    BY <1>4, <1>8
  <2>2. c.key[2] + i - 1 = c.key[2] + j - 1
    BY <2>1
  <2> QED BY <2>2, <1>2, <1>3
<1>9. IsFiniteSet(HeldBy(c)) /\ Cardinality(HeldBy(c)) <= Len(c.held)
  <2> DEFINE g == [j \in 1 .. Len(c.held) |-> c.held[j]]
             N == Len(c.held)
  <2>1. g \in Surjection(1 .. N, HeldBy(c))
    BY DEF Surjection, HeldBy
  <2>0. N \in Nat /\ N >= 1
    BY <1>3, Bounds
  <2> HIDE DEF g, N
  <2>4. IsFiniteSet(1 .. N) /\ Cardinality(1 .. N) = N - 1 + 1
    BY <2>0, FS_Interval
  <2>2. N \in Nat /\ IsFiniteSet(1 .. N) /\ Cardinality(1 .. N) = N
    BY <2>0, <2>4
  <2>3. IsFiniteSet(HeldBy(c)) /\ Cardinality(HeldBy(c)) <= N
    BY <2>1, <2>2, FS_Surjection
  <2> QED BY <2>3 DEF N
<1> QED BY <1>1, <1>3, <1>4, <1>6, <1>7, <1>8, <1>9

(* Read-ahead takes one more page. *)
LEMMA AheadStep == ASSUME InvOf(op), Ahead PROVE InvOf(op)'
<1> DEFINE N == Len(op.held)
           k == <<op.key[1], op.key[2] + N>>
<1>1. /\ op.at = "ahead" /\ N < ReadAhead /\ GetPage(k) /\ UNCHANGED <<size, may, pins>>
      /\ op' = [op EXCEPT !.held = Append(@, k)] /\ k[2] * PerPage < size[op.key[1]]
  BY DEF Ahead, NextAhead, File, Main
<1>2. /\ CacheOK(lru, disk, may, nrpages, pins, HeldBy(op)) /\ Store(lru, disk, may)
      /\ SizeOK(size) /\ PinsOK(pins) /\ FaultsOK(faults) /\ OpOK(op, size, disk)
      /\ TailOK(op, may, size) /\ DirsOK(disk, size)
  BY Before
<1>3. /\ op.key \in Keys /\ op.held \in Seq(Keys) /\ N \in 1 .. ReadAhead
      /\ \A j \in 1 .. N : op.held[j] \in Keys /\ op.held[j] = <<op.key[1], op.key[2] + j - 1>>
      /\ IsFiniteSet(HeldBy(op)) /\ Cardinality(HeldBy(op)) <= N
  BY <1>1, <1>2, WindowFacts
<1>4. op.key[1] \in Files /\ op.key[2] \in Nat /\ N \in Nat /\ op.key[2] + N \in Nat
  <2>1. op.key[1] \in Files /\ op.key[2] \in Nat
    BY <1>3, KeyFacts
  <2>2. N \in Nat
    BY <1>3, Bounds
  <2> HIDE DEF N
  <2> QED BY <2>1, <2>2
<1>5. k \in Keys
  <2> DEFINE q == op.key[2] + N
  <2>1. q \in Nat /\ 0 \in Slots /\ k[2] = q
    BY <1>4, Bounds DEF Slots
  <2> HIDE DEF q
  <2>2. q * PerPage + 0 \in Nat /\ (q * PerPage + 0) \div PerPage = q
    BY <2>1, Slot
  <2>3. q * PerPage \in Nat /\ q * PerPage + 0 = q * PerPage
    BY <2>1, Bounds
  <2>4. q * PerPage < size[op.key[1]] /\ size[op.key[1]] <= Span[op.key[1]] /\ size[op.key[1]] \in Nat /\ Span[op.key[1]] \in Nat
    BY <1>1, <1>2, <1>4, <2>1, Bounds DEF SizeOK
  <2>5. q * PerPage \in BlocksOf(op.key[1])
    BY <1>4, <2>3, <2>4, SpanBlock
  <2>6. (q * PerPage) \div PerPage = q
    BY <2>2, <2>3
  <2>7. <<op.key[1], q>> \in Keys
    BY <1>4, <2>5, <2>6, BlockKey
  <2> QED BY <2>7 DEF q
<1>6. k \notin HeldBy(op)
  <2> SUFFICES ASSUME NEW j \in 1 .. N, op.held[j] = k PROVE FALSE
    BY DEF HeldBy
  <2>1. <<op.key[1], op.key[2] + j - 1>> = k
    BY <1>3
  <2>2. op.key[2] + j - 1 = op.key[2] + N
    BY <2>1
  <2> QED BY <2>2, <1>3, <1>4
<1>7. Cardinality(HeldBy(op) \cup {k}) <= ReadAhead
  <2>1. Cardinality(HeldBy(op) \cup {k}) = Cardinality(HeldBy(op)) + 1 /\ Cardinality(HeldBy(op)) \in Nat
    BY <1>3, <1>6, FS_AddElement, FS_CardinalityType
  <2> QED BY <2>1, <1>1, <1>3, Bounds
<1> HIDE DEF k
<1>8. /\ CacheOK(lru', disk', may, nrpages', pins, HeldBy(op) \cup {k})
      /\ Lands(disk, disk', may) /\ FaultsOK(faults')
  BY <1>1, <1>2, <1>3, <1>5, <1>6, <1>7, GetStep
<1> DEFINE h == Append(op.held, k)
<1>9. h \in Seq(Keys) /\ Len(h) = N + 1 /\ h[N + 1] = k /\ \A j \in 1 .. N : h[j] = op.held[j]
  BY <1>3, <1>5
<1>10. op \in OpType /\ StageOK(op)
  BY <1>2 DEF OpOK
<1>11. Onward(op, op') /\ op'.at = "ahead" /\ op'.held = h /\ op'.call = op.call /\ op'.key = op.key
  BY <1>1, <1>9, <1>10 DEF Onward, OpType
<1> HIDE DEF h
<1>12. StageOK(op')
  BY <1>1, <1>10, <1>11 DEF StageOK, Idle
<1>13. ASSUME NEW j \in 1 .. N + 1 PROVE h[j] = <<op.key[1], op.key[2] + j - 1>>
  <2>1. CASE j \in 1 .. N
    BY <2>1, <1>3, <1>9
  <2>2. CASE j = N + 1
    <3>1. op.key[2] + j - 1 = op.key[2] + N
      BY <2>2, <1>4
    <3> QED BY <3>1, <2>2, <1>9 DEF k
  <2> QED BY <2>1, <2>2, <1>3
<1>14. HeldOK(op')
  <2>1. N + 1 \in 1 .. ReadAhead
    BY <1>1, <1>3, Bounds
  <2> QED BY <2>1, <1>9, <1>11, <1>13 DEF HeldOK
<1>15. HeldBy(op') = HeldBy(op) \cup {k}
  <2>1. \A x : x \in HeldBy(op') <=> \E j \in 1 .. N + 1 : x = h[j]
    BY <1>9, <1>11 DEF HeldBy
  <2>2. \A x : x \in HeldBy(op) <=> \E j \in 1 .. N : x = op.held[j]
    BY DEF HeldBy
  <2>3. \A x : (\E j \in 1 .. N + 1 : x = h[j]) <=> x = k \/ \E j \in 1 .. N : x = op.held[j]
    <3>1. \A j \in 1 .. N + 1 : j = N + 1 \/ j \in 1 .. N
      BY <1>4
    <3>2. N + 1 \in 1 .. N + 1 /\ \A j \in 1 .. N : j \in 1 .. N + 1
      BY <1>4
    <3> HIDE DEF N
    <3> QED BY <3>1, <3>2, <1>9
  <2> QED BY <2>1, <2>2, <2>3
<1>16. Mapped(op, disk')
  BY <1>1, <1>10 DEF Mapped, StageOK, Idle
<1>17. OpOK(op', size, disk') /\ TailOK(op', may, size)
  BY <1>1, <1>2, <1>11, <1>12, <1>14, <1>16, OnwardOK, OnwardFacts
<1>18. DirtyOK(op', lru') /\ DirsOK(disk', size)
  BY <1>2, <1>8, <1>11, LandsDirs DEF DirtyOK
<1> QED BY <1>1, <1>2, <1>8, <1>15, <1>17, <1>18, After

(* Read-ahead has no more pages to take. *)
LEMMA AheadEndsStep == ASSUME InvOf(op), AheadEnds PROVE InvOf(op)'
<1>1. /\ op.at = "ahead" /\ op' = [op EXCEPT !.at = "readin"]
      /\ UNCHANGED <<lru, nrpages, disk, faults, size, may, pins>>
  BY DEF AheadEnds, CacheSame
<1>2. /\ CacheOK(lru, disk, may, nrpages, pins, HeldBy(op)) /\ Store(lru, disk, may)
      /\ SizeOK(size) /\ PinsOK(pins) /\ FaultsOK(faults) /\ OpOK(op, size, disk)
      /\ TailOK(op, may, size) /\ DirsOK(disk, size)
  BY Before
<1>3. op \in OpType /\ HeldOK(op) /\ op.call = "read"
  BY <1>1, <1>2, WindowFacts DEF OpOK
<1>4. Onward(op, op') /\ op'.at = "readin" /\ op'.held = op.held /\ op'.call = "read" /\ op'.key = op.key
  BY <1>1, <1>3 DEF Onward, OpType
<1>5. StageOK(op') /\ HeldOK(op') /\ HeldBy(op') = HeldBy(op)
  BY <1>1, <1>3, <1>4 DEF StageOK, HeldOK, HeldBy
<1>6. Mapped(op, disk)
  BY <1>3 DEF Mapped
<1>7. OpOK(op', size, disk) /\ TailOK(op', may, size)
  BY <1>1, <1>2, <1>4, <1>5, <1>6, OnwardOK, OnwardFacts
<1>8. DirtyOK(op', lru)
  BY <1>4 DEF DirtyOK
<1> QED BY <1>1, <1>2, <1>5, <1>7, <1>8, After
-----------------------------------------------------------------------------
(* N + 1 pages, each once; they are in the list s. *)
Window(h, N) ==
  /\ h \in Seq(Keys) /\ N \in Nat /\ Len(h) = N + 1
  /\ \A i, j \in 1 .. N + 1 : h[i] = h[j] => i = j
AllCached(s, h) == \A j \in 1 .. Len(h) : Cached(s, h[j])

(* PutExtra puts the pages behind the first one after the other. *)
LEMMA PutExtraSteps ==
  ASSUME NEW s, Sound(s), NEW h, NEW N, Window(h, N), AllCached(s, h)
  PROVE  \E w : /\ w[0] = s /\ PutExtra(s, h) = w[N]
                /\ \A j \in 1 .. N : w[j] = PutPage(w[j - 1], h[j + 1])
<1> DEFINE F(w) == [j \in 0 .. Len(h) - 1 |-> IF j = 0 THEN s ELSE PutPage(w[j - 1], h[j + 1])]
           W == CHOOSE w : w = F(w)
           S == {t \in Seq(Page) : Sound(t) /\ \A k : Cached(t, k) <=> Cached(s, k)}
           G == [j \in 1 .. N |-> [t \in S |-> PutPage(t, h[j + 1])]]
<1>0. h \in Seq(Keys) /\ N \in Nat /\ Len(h) = N + 1 /\ \A j \in 1 .. N + 1 : Cached(s, h[j])
  BY DEF Window, AllCached
<1>1. Len(h) - 1 = N /\ \A j \in 1 .. N : j + 1 \in 1 .. N + 1
  BY <1>0
<1>2. ASSUME NEW j \in 1 .. N, NEW t \in S PROVE PutPage(t, h[j + 1]) \in S
  <2> DEFINE k == h[j + 1]
  <2>1. Sound(t) /\ Cached(t, k) /\ \A x : Cached(t, x) <=> Cached(s, x)
    BY <1>0, <1>1
  <2>2. Replaced(t, PutPage(t, k), PutOf(PageAt(t, k))) /\ PutOf(PageAt(t, k)).key = k
    BY <2>1, PutFacts
  <2> HIDE DEF k
  <2>3. Sound(PutPage(t, k)) /\ \A x : Cached(PutPage(t, k), x) <=> Cached(s, x)
    BY <2>1, <2>2 DEF Replaced
  <2>4. PutPage(t, k) \in S
    BY <2>3 DEF Sound
  <2> QED BY <2>4 DEF k
<1>3. G \in [1 .. N -> [S -> S]] /\ s \in S
  <2>1. s \in S
    BY DEF Sound
  <2>2. ASSUME NEW j \in 1 .. N PROVE [t \in S |-> PutPage(t, h[j + 1])] \in [S -> S]
    <3> HIDE DEF S
    <3> QED BY <1>2
  <2> HIDE DEF S
  <2> QED BY <2>1, <2>2
<1>4. \A j \in 1 .. N : \A t \in S : G[j][t] = PutPage(t, h[j + 1])
  OBVIOUS
<1> HIDE DEF S
<1>5. PICK f \in [0 .. N -> S] : f[0] = s /\ \A j \in 1 .. N : f[j] = G[j][f[j - 1]]
  <2>1. Steps(S, N, G)
    BY <1>0, <1>3 DEF Steps
  <2> HIDE DEF G
  <2>2. \E f : Run(S, N, s, G, f)
    BY <2>1, <1>3, Recursion
  <2> QED BY <2>2 DEF Run
<1> HIDE DEF G
<1>6. f = F(f)
  <2>1. ASSUME NEW j \in 0 .. N PROVE f[j] = F(f)[j]
    <3>1. CASE j = 0
      BY <3>1, <1>0, <1>1, <1>5
    <3>2. CASE j # 0
      <4>1. j \in 1 .. N /\ j - 1 \in 0 .. N
        BY <3>2, <1>0
      <4>2. f[j - 1] \in S
        BY <4>1
      <4>3. f[j] = G[j][f[j - 1]]
        BY <4>1, <1>5
      <4>4. f[j] = PutPage(f[j - 1], h[j + 1])
        BY <4>1, <4>2, <4>3, <1>4
      <4> QED BY <3>2, <4>1, <4>4, <1>0, <1>1
    <3> QED BY <3>1, <3>2
  <2> QED BY <2>1, <1>1
<1>7. W = F(W)
  <2> HIDE DEF F
  <2> QED BY <1>6
<1>8. PutExtra(s, h) = W[N]
  <2>1. PutExtra(s, h) = W[Len(h) - 1]
    BY DEF PutExtra
  <2> HIDE DEF W
  <2> QED BY <2>1, <1>1
<1> HIDE DEF W
<1>9. W[0] = s
  <2>1. F(W)[0] = s
    BY <1>0, <1>1
  <2> HIDE DEF F
  <2> QED BY <1>7, <2>1
<1>10. ASSUME NEW j \in 1 .. N PROVE W[j] = PutPage(W[j - 1], h[j + 1])
  <2>1. F(W)[j] = PutPage(W[j - 1], h[j + 1])
    BY <1>0, <1>1
  <2> HIDE DEF F
  <2> QED BY <1>7, <2>1
<1> QED BY <1>8, <1>9, <1>10

(* The pages of h that are still held when N - j of them are to be put. *)
Rest(h, j) == {h[i] : i \in {1} \cup (j + 2 .. Len(h))}

(* What is left when all but the first have been put. *)
LEMMA PutExtraFacts ==
  ASSUME NEW s, NEW d, NEW m, Store(s, d, m), NEW pn, PinsOK(pn),
         NEW h, NEW N, Window(h, N), RefsOK(s, pn, Rest(h, 0)), NEW t, t = PutExtra(s, h)
  PROVE  Store(t, d, m) /\ RefsOK(t, pn, {h[1]}) /\ CachedKeys(t) = CachedKeys(s)
<1> DEFINE R(j) == Rest(h, j)
<1>0. /\ h \in Seq(Keys) /\ N \in Nat /\ Len(h) = N + 1
      /\ \A i, j \in 1 .. N + 1 : h[i] = h[j] => i = j
  BY DEF Window
<1>1. \A i \in 1 .. N + 1 : h[i] \in Keys
  BY <1>0
<1>2. ASSUME NEW i \in 1 .. N + 1 PROVE Cached(s, h[i])
  <2>1. h[i] \in R(0)
    <3>1. i \in {1} \cup (0 + 2 .. Len(h))
      BY <1>0
    <3> QED BY <3>1 DEF Rest
  <2>2. pn[h[i]] \in Nat
    BY <1>1, Bounds DEF PinsOK
  <2>3. RefOf(s, h[i]) # 0
    BY <1>1, <2>1, <2>2 DEF RefsOK
  <2> QED BY <2>3 DEF RefOf
<1>3. PICK w : /\ w[0] = s /\ PutExtra(s, h) = w[N]
               /\ \A j \in 1 .. N : w[j] = PutPage(w[j - 1], h[j + 1])
  <2>1. Sound(s)
    BY DEF Store
  <2>2. AllCached(s, h)
    BY <1>0, <1>2 DEF AllCached
  <2> QED BY <2>1, <2>2, PutExtraSteps
<1> DEFINE P(j) == Store(w[j], d, m) /\ RefsOK(w[j], pn, R(j)) /\ CachedKeys(w[j]) = CachedKeys(s)
           Bad == {j \in 0 .. N : ~P(j)}
<1>4. P(0)
  BY <1>3
<1>5. ASSUME NEW j \in 1 .. N, P(j - 1) PROVE P(j)
  <2> DEFINE k == h[j + 1]
  <2>1. /\ j + 1 \in 1 .. N + 1 /\ j - 1 + 2 = j + 1 /\ Len(h) = N + 1
        /\ \A i \in 1 .. N + 1 : h[i] = h[j + 1] => i = j + 1
    BY <1>0
  <2>2. k \in Keys
    BY <2>1, <1>1
  <2>3. k \in R(j - 1)
    <3>1. j + 1 \in {1} \cup (j - 1 + 2 .. Len(h))
      BY <2>1
    <3> QED BY <3>1 DEF Rest
  <2>4. R(j - 1) \ {k} = R(j)
    <3>1. \A i : i \in {1} \cup (j - 1 + 2 .. Len(h)) <=> i = j + 1 \/ i \in {1} \cup (j + 2 .. Len(h))
      BY <2>1, <1>0
    <3>2. \A i \in {1} \cup (j + 2 .. Len(h)) : i \in 1 .. N + 1 /\ i # j + 1
      BY <2>1, <1>0
    <3>3. \A i \in {1} \cup (j + 2 .. Len(h)) : h[i] # k
      BY <3>2, <2>1
    <3> QED BY <3>1, <3>3 DEF Rest
  <2>5. w[j] = PutPage(w[j - 1], k)
    BY <1>3, <1>0
  <2> HIDE DEF k, R
  <2>6. /\ Store(w[j], d, m) /\ RefsOK(w[j], pn, R(j - 1) \ {k})
        /\ CachedKeys(w[j]) = CachedKeys(w[j - 1])
    BY <1>5, <2>2, <2>3, <2>5, PutStep
  <2> QED BY <2>4, <2>6, <1>5
<1>6. Bad = {}
  <2> SUFFICES ASSUME Bad # {} PROVE FALSE
    OBVIOUS
  <2>1. PICK x \in Bad : \A y \in Bad : x <= y
    <3>1. Bad \in SUBSET Nat
      BY <1>0
    <3> HIDE DEF Bad
    <3> QED BY <3>1, LeastNumber
  <2>2. x \in 0 .. N /\ ~P(x)
    OBVIOUS
  <2>3. x \in 1 .. N /\ x - 1 \in 0 .. N /\ x - 1 < x
    <3> HIDE DEF P
    <3> QED BY <2>2, <1>4, <1>0
  <2>4. P(x - 1)
    <3>1. x - 1 \notin Bad
      <4> HIDE DEF Bad
      <4> QED BY <2>1, <2>3, <1>0
    <3> HIDE DEF P
    <3> QED BY <3>1, <2>3
  <2> HIDE DEF P
  <2> QED BY <2>2, <2>3, <2>4, <1>5
<1>7. P(N)
  <2>1. N \in 0 .. N /\ N \notin Bad
    BY <1>0, <1>6
  <2> HIDE DEF P
  <2> QED BY <2>1
<1>8. R(N) = {h[1]}
  <2>1. {1} \cup (N + 2 .. Len(h)) = {1}
    BY <1>0
  <2> QED BY <2>1 DEF Rest
<1> HIDE DEF R
<1> QED BY <1>3, <1>7, <1>8

(* The pages of got are read where they stand. *)
WithRead(got) ==
  [j \in DOMAIN lru |-> IF lru[j].key \in got THEN ReadPage(lru[j]) ELSE lru[j]]

(* A read fills pages with data that may be read. *)
LEMMA WithReadFacts ==
  ASSUME InvOf(op), op.call = "read", NEW got, NEW t, t = WithRead(got)
  PROVE  /\ Store(t, disk, may) /\ CachedKeys(t) = CachedKeys(lru)
         /\ \A pn, H : RefsOK(lru, pn, H) => RefsOK(t, pn, H)
<1>1. /\ Store(lru, disk, may) /\ Sound(lru) /\ TailOK(op, may, size) /\ SizeOK(size)
  BY Before
<1>2. DiskType(disk) /\ MayType(may) /\ GoodDisk(disk, may) /\ GoodList(lru, may)
  BY <1>1, StoreIs
<1>3. \A f, n : ~Unfinished(op, f, n)
  BY DEF Unfinished
<1>4. lru \in Seq(Page) /\ \A j \in DOMAIN lru : lru[j] \in Page
  BY <1>1 DEF Sound
<1>5. ASSUME NEW p \in Page
      PROVE  /\ ReadPage(p) \in Page /\ GoodPage(ReadPage(p), may)
             /\ ReadPage(p).key = p.key /\ ReadPage(p).ref = p.ref /\ ReadPage(p).upt
  BY <1>1, <1>3, ReadPageFacts
<1>6. DOMAIN t = DOMAIN lru /\ \A j \in DOMAIN lru : t[j] = IF lru[j].key \in got THEN ReadPage(lru[j]) ELSE lru[j]
  BY DEF WithRead
<1>7. \A j \in DOMAIN lru : t[j] \in Page /\ t[j].key = lru[j].key /\ t[j].ref = lru[j].ref
  BY <1>4, <1>5, <1>6
<1>8. t \in Seq(Page)
  <2>1. Len(lru) \in Nat /\ DOMAIN lru = 1 .. Len(lru)
    BY <1>4
  <2>2. t = [j \in 1 .. Len(lru) |-> t[j]]
    BY <2>1, <1>6 DEF WithRead
  <2> QED BY <2>1, <2>2, <1>7
<1>9. /\ Sound(t) /\ \A k : Cached(t, k) <=> Cached(lru, k)
      /\ \A j \in DOMAIN lru : PageAt(t, lru[j].key) = t[j]
  BY <1>1, <1>6, <1>7, <1>8, InPlace
<1>10. ASSUME NEW k, Cached(lru, k)
       PROVE  \E j \in DOMAIN lru : PageAt(lru, k) = lru[j] /\ PageAt(t, k) = t[j] /\ lru[j].key = k /\ k \in Keys
  BY <1>1, <1>9, <1>10, CachedPage
<1>11. GoodList(t, may)
  <2> SUFFICES ASSUME NEW k \in Keys, Cached(t, k)
               PROVE  /\ PageAt(t, k).dirty => PageAt(t, k).upt
                      /\ PageAt(t, k).upt => GoodPage(PageAt(t, k), may)
    BY DEF GoodList
  <2>1. Cached(lru, k)
    BY <1>9
  <2>2. PICK j \in DOMAIN lru : PageAt(lru, k) = lru[j] /\ PageAt(t, k) = t[j] /\ lru[j].key = k
    BY <2>1, <1>10
  <2>3. /\ lru[j].dirty => lru[j].upt
        /\ lru[j].upt => GoodPage(lru[j], may)
    BY <2>1, <2>2, <1>2 DEF GoodList
  <2>4. CASE k \in got
    BY <2>2, <2>4, <1>4, <1>5, <1>6
  <2>5. CASE k \notin got
    BY <2>2, <2>3, <2>5, <1>6
  <2> QED BY <2>4, <2>5
<1>12. Store(t, disk, may)
  BY <1>2, <1>9, <1>11, StoreIs
<1>13. CachedKeys(t) = CachedKeys(lru)
  BY <1>9 DEF CachedKeys
<1>14. \A k : RefOf(t, k) = RefOf(lru, k)
  BY <1>7, <1>9, <1>10 DEF RefOf
<1> QED BY <1>12, <1>13, <1>14 DEF RefsOK

(* The pages of a read and of its read-ahead are read in. *)
LEMMA ReadInStep == ASSUME InvOf(op), ReadIn PROVE InvOf(op)'
<1> DEFINE batch == {k \in Range(op.held) : ~PageAt(lru, k).upt /\ ~PageAt(lru, k).dirty}
<1>1. op.at = "readin" /\ UNCHANGED <<nrpages, disk, size, may, pins>>
  BY DEF ReadIn
<1>2. PICK r \in Readable(batch) :
        /\ Faulty(r.faults)
        /\ IF op.key \in r.got
           THEN /\ lru' = PutExtra(WithRead(r.got), op.held)
                /\ op' = [op EXCEPT !.held = <<op.key>>, !.at = "leave"]
           ELSE /\ lru' = PutPage(PutExtra(WithRead(r.got), op.held), op.key)
                /\ op' = Idle
  BY DEF ReadIn, WithRead, Main
<1>3. /\ CacheOK(lru, disk, may, nrpages, pins, HeldBy(op)) /\ Store(lru, disk, may)
      /\ SizeOK(size) /\ PinsOK(pins) /\ FaultsOK(faults) /\ OpOK(op, size, disk)
      /\ TailOK(op, may, size) /\ DirsOK(disk, size) /\ RefsOK(lru, pins, HeldBy(op))
  BY Before
<1>4. FaultsOK(faults')
  <2>1. r.faults \in Nat
    <3> DEFINE more == IF Cardinality(batch) > 1 THEN 1 ELSE 0
    <3>1. more \in Nat /\ more + 1 \in Nat
      OBVIOUS
    <3>2. r \in {[got |-> batch, faults |-> 0], [got |-> {Main}, faults |-> more],
                 [got |-> {}, faults |-> more + 1]}
      BY <1>2 DEF Readable
    <3> HIDE DEF more, batch
    <3> QED BY <3>1, <3>2
  <2> QED BY <2>1, <1>2, <1>3, Bounds DEF Faulty, FaultsOK
<1> HIDE DEF batch
<1> DEFINE h == op.held
           N == Len(op.held) - 1
           s == WithRead(r.got)
           t == PutExtra(s, h)
<1>5. /\ op.key \in Keys /\ h \in Seq(Keys) /\ Len(h) \in 1 .. ReadAhead
      /\ h[1] = op.key /\ op.call = "read" /\ \A i, j \in 1 .. Len(h) : h[i] = h[j] => i = j
  BY <1>1, <1>3, WindowFacts
<1>6. N \in Nat /\ Len(h) = N + 1
  BY <1>5, Bounds
<1>7. /\ Store(s, disk, may) /\ CachedKeys(s) = CachedKeys(lru) /\ RefsOK(s, pins, HeldBy(op))
  BY <1>3, <1>5, WithReadFacts
<1>8. HeldBy(op) = Rest(h, 0)
  <2>1. \A i : i \in 1 .. Len(h) <=> i \in {1} \cup (0 + 2 .. Len(h))
    BY <1>6
  <2> QED BY <2>1 DEF HeldBy, Rest
<1> HIDE DEF s, N
<1>9. Store(t, disk, may) /\ RefsOK(t, pins, {op.key}) /\ CachedKeys(t) = CachedKeys(lru)
  <2>1. Window(h, N)
    BY <1>5, <1>6 DEF Window
  <2>2. RefsOK(s, pins, Rest(h, 0))
    BY <1>7, <1>8
  <2> HIDE DEF h
  <2>3. Store(t, disk, may) /\ RefsOK(t, pins, {h[1]}) /\ CachedKeys(t) = CachedKeys(s)
    BY <2>1, <2>2, <1>3, <1>5, <1>6, <1>7, PutExtraFacts
  <2> QED BY <2>3, <1>5, <1>7
<1> HIDE DEF t
<1>10. CacheOK(t, disk, may, nrpages, pins, {op.key})
  BY <1>3, <1>9, SameKeys DEF CacheOK
<1>11. op \in OpType /\ op.key = <<op.key[1], op.key[2] + 1 - 1>> /\ op.at # "idle"
  BY <1>1, <1>3, HeldIs DEF OpOK
<1>12. CASE op.key \in r.got
  <2>1. lru' = t /\ op' = [op EXCEPT !.held = <<op.key>>, !.at = "leave"]
    BY <1>2, <1>12 DEF t, s
  <2>2. Onward(op, op') /\ op'.at = "leave" /\ op'.held = <<op.key>> /\ op'.call = "read" /\ op'.key = op.key
    <3>1. <<op.key>> \in Seq(Keys)
      BY <1>5
    <3> QED BY <2>1, <3>1, <1>5, <1>11 DEF Onward, OpType
  <2>3. StageOK(op')
    BY <2>2 DEF StageOK
  <2>4. HeldOK(op') /\ HeldBy(op') = {op.key}
    <3>1. Len(op'.held) = 1 /\ op'.held[1] = op.key
      BY <2>2
    <3>2. HeldOK(op')
      BY <3>1, <2>2, <1>11 DEF HeldOK
    <3>3. \A x : x \in HeldBy(op') <=> x = op.key
      BY <3>1 DEF HeldBy
    <3> QED BY <3>2, <3>3
  <2>5. Mapped(op, disk)
    BY <1>5 DEF Mapped
  <2>6. OpOK(op', size, disk) /\ TailOK(op', may, size)
    BY <1>3, <1>11, <2>2, <2>3, <2>4, <2>5, OnwardOK, OnwardFacts
  <2>7. DirtyOK(op', lru')
    BY <2>2 DEF DirtyOK
  <2>8. CacheOK(lru', disk, may, nrpages, pins, HeldBy(op'))
    BY <2>1, <2>4, <1>10
  <2> QED BY <1>1, <1>3, <1>4, <2>6, <2>7, <2>8, After
<1>13. CASE op.key \notin r.got
  <2>1. lru' = PutPage(t, op.key) /\ op' = Idle
    BY <1>2, <1>13 DEF t, s
  <2>2. {op.key} \ {op.key} = {} /\ op.key \in {op.key}
    OBVIOUS
  <2> DEFINE H == {op.key}
  <2>6. op.key \in H /\ RefsOK(t, pins, H)
    BY <1>9
  <2> HIDE DEF H
  <2>3. /\ Store(lru', disk, may) /\ RefsOK(lru', pins, H \ {op.key})
        /\ CachedKeys(lru') = CachedKeys(t)
    BY <2>1, <2>6, <1>3, <1>5, <1>9, PutStep
  <2>4. CacheOK(lru', disk, may, nrpages, pins, {})
    BY <2>2, <2>3, <1>10, SameKeys DEF CacheOK, H
  <2>5. TailOK(Idle, may, size)
    BY <1>3, <1>5 DEF TailOK, Unfinished
  <2> QED BY <1>1, <1>3, <1>4, <2>1, <2>4, <2>5, IdleFacts, After
<1> QED BY <1>12, <1>13
-----------------------------------------------------------------------------
(* A call with its page: the page is in the cache. *)
LEMMA HeldCached ==
  ASSUME InvOf(op), op.at \in {"fill", "leave", "flush"}
  PROVE  /\ op.key \in Keys /\ op.key[1] \in Files /\ op.held = <<op.key>> /\ HeldBy(op) = {op.key}
         /\ Cached(lru, op.key) /\ op \in OpType /\ op.at # "idle"
         /\ CacheOK(lru, disk, may, nrpages, pins, {op.key})
<1>1. /\ CacheOK(lru, disk, may, nrpages, pins, HeldBy(op)) /\ RefsOK(lru, pins, HeldBy(op))
      /\ OpOK(op, size, disk) /\ PinsOK(pins)
  BY Before
<1>2. op.key \in Keys /\ op.held = <<op.key>> /\ HeldBy(op) = {op.key} /\ op \in OpType
  BY <1>1, HeldIs DEF OpOK
<1>3. pins[op.key] \in Nat
  BY <1>1, <1>2, Bounds DEF PinsOK
<1>4. RefOf(lru, op.key) # 0
  BY <1>1, <1>2, <1>3 DEF RefsOK
<1>5. Cached(lru, op.key)
  BY <1>4 DEF RefOf
<1> QED BY <1>1, <1>2, <1>5, KeyFacts

(* The only page held is put. *)
LEMMA PutMain ==
  ASSUME NEW s, NEW d, NEW m, NEW nr, NEW pn, NEW k \in Keys,
         CacheOK(s, d, m, nr, pn, {k}), PinsOK(pn), NEW t, t = PutPage(s, k)
  PROVE  CacheOK(t, d, m, nr, pn, {})
<1> DEFINE H == {k}
<1>1. /\ k \in H /\ H \ {k} = {} /\ Store(s, d, m) /\ RefsOK(s, pn, H)
      /\ CountsOK(s, nr) /\ BoundOK(s, pn)
  BY DEF CacheOK
<1> HIDE DEF H
<1>2. Store(t, d, m) /\ RefsOK(t, pn, H \ {k}) /\ CachedKeys(t) = CachedKeys(s)
  BY <1>1, PutStep
<1> QED BY <1>1, <1>2, SameKeys DEF CacheOK

(* The only page held is kept for good. *)
LEMMA KeepRef ==
  ASSUME NEW s, NEW d, NEW m, NEW nr, NEW pn, NEW k \in Keys,
         CacheOK(s, d, m, nr, pn, {k}), PinsOK(pn), pn[k] < MaxPins,
         NEW pn1, pn1 = [pn EXCEPT ![k] = @ + 1]
  PROVE  CacheOK(s, d, m, nr, pn1, {}) /\ PinsOK(pn1)
<1>1. \A x \in Keys : pn[x] \in 0 .. MaxPins /\ pn1[x] = IF x = k THEN pn[x] + 1 ELSE pn[x]
  BY DEF PinsOK
<1>2. PinsOK(pn1)
  BY Bounds DEF PinsOK
<1>3. RefsOK(s, pn1, {})
  <2> SUFFICES ASSUME NEW x \in Keys PROVE RefOf(s, x) = pn1[x] + 0
    BY DEF RefsOK
  <2>1. RefOf(s, x) = pn[x] + (IF x = k THEN 1 ELSE 0)
    BY DEF CacheOK, RefsOK
  <2> QED BY <2>1, <1>1, Bounds
<1>4. BoundOK(s, pn1)
  <2>1. Pinned(pn) \subseteq Pinned(pn1) /\ Pinned(pn1) \subseteq Keys
    BY <1>1, Bounds DEF Pinned
  <2>2. IsFiniteSet(Pinned(pn1))
    BY <2>1, KeysFinite, FS_Subset
  <2>3. Cardinality(Pinned(pn)) <= Cardinality(Pinned(pn1)) /\ IsFiniteSet(Pinned(pn))
    BY <2>1, <2>2, FS_Subset
  <2>4. Cardinality(Pinned(pn)) \in Nat /\ Cardinality(Pinned(pn1)) \in Nat
    BY <2>2, <2>3, FS_CardinalityType
  <2>5. Sound(s) /\ BoundOK(s, pn)
    BY DEF CacheOK, Store
  <2>6. Cardinality(CachedKeys(s)) \in Nat
    BY <2>5, LenIs, FS_CardinalityType
  <2> QED BY <2>3, <2>4, <2>5, <2>6, Bounds DEF BoundOK
<1> QED BY <1>2, <1>3, <1>4 DEF CacheOK

(* What may be read grows. *)
Grows(m, e) ==
  MayType(e) /\ \A f \in Files : \A n \in BlocksOf(f) : m[f][n] \subseteq e[f][n]

(* Data that could be read still can. *)
LEMMA GrowsGood ==
  ASSUME NEW s, NEW d, NEW m, NEW e, Store(s, d, m), Grows(m, e)
  PROVE  /\ Store(s, d, e) /\ \A c, z : TailOK(c, m, z) => TailOK(c, e, z)
<1>1. Sound(s) /\ DiskType(d) /\ GoodDisk(d, m) /\ GoodList(s, m)
  BY StoreIs
<1>2. GoodDisk(d, e)
  BY <1>1 DEF GoodDisk, GoodBlock, Grows
<1>3. GoodList(s, e)
  <2> SUFFICES ASSUME NEW k \in Keys, Cached(s, k), PageAt(s, k).upt PROVE GoodPage(PageAt(s, k), e)
    BY <1>1 DEF GoodList
  <2>1. GoodPage(PageAt(s, k), m) /\ PageAt(s, k).key = k
    BY <1>1, CachedPage DEF GoodList
  <2>2. \A i \in Slots : k[1] \in Files /\ Block(k, i) \in BlocksOf(k[1])
    BY KeyFacts, KeyBlock
  <2> QED BY <2>1, <2>2 DEF GoodPage, Grows
<1>4. \A c, z : TailOK(c, m, z) => TailOK(c, e, z)
  BY DEF TailOK, Grows
<1> QED BY <1>1, <1>2, <1>3, <1>4, StoreIs DEF Grows

(* A page gets good data where it stands. *)
LEMMA ChangedCache ==
  ASSUME NEW s, NEW d, NEW m, NEW nr, NEW pn, NEW H, CacheOK(s, d, m, nr, pn, H),
         NEW k, Cached(s, k), NEW p \in Page, p.key = k, p.ref = PageAt(s, k).ref, p.upt,
         GoodPage(p, m), NEW t, t = Changed(s, p)
  PROVE  CacheOK(t, d, m, nr, pn, H) /\ PageAt(t, k) = p
<1>1. Store(s, d, m) /\ RefsOK(s, pn, H) /\ CountsOK(s, nr) /\ BoundOK(s, pn)
  BY DEF CacheOK
<1>2. Sound(s) /\ DiskType(d) /\ MayType(m) /\ GoodDisk(d, m) /\ GoodList(s, m)
  BY <1>1, StoreIs
<1>3. /\ Replaced(s, t, p) /\ Sound(t) /\ CachedKeys(t) = CachedKeys(s) /\ RefsOK(t, pn, H)
  BY <1>1, <1>2, ChangeStep
<1>4. GoodList(t, m)
  <2> SUFFICES ASSUME NEW x \in Keys, Cached(t, x)
               PROVE  /\ PageAt(t, x).dirty => PageAt(t, x).upt
                      /\ PageAt(t, x).upt => GoodPage(PageAt(t, x), m)
    BY DEF GoodList
  <2>1. CASE x = k
    BY <2>1, <1>3 DEF Replaced
  <2>2. CASE x # k
    <3>1. Cached(s, x) /\ PageAt(t, x) = PageAt(s, x)
      BY <2>2, <1>3 DEF Replaced
    <3> QED BY <3>1, <1>2 DEF GoodList
  <2> QED BY <2>1, <2>2
<1>5. Store(t, d, m)
  BY <1>2, <1>3, <1>4, StoreIs
<1>6. CountsOK(t, nr) /\ BoundOK(t, pn)
  BY <1>1, <1>3, SameKeys
<1> QED BY <1>1, <1>3, <1>5, <1>6 DEF CacheOK, Replaced

(* A call that is no file write leaves nothing unfinished. *)
LEMMA NoTail ==
  ASSUME NEW c, NEW e, NEW m, NEW z, TailOK(c, m, z), c.call # "write" PROVE TailOK(e, m, z)
BY DEF TailOK, Unfinished

(* A directory page is filled. *)
LEMMA FillStep == ASSUME InvOf(op), Fill PROVE InvOf(op)'
<1>1. /\ op.at = "fill" /\ op.call \in {"lookup", "scan"} /\ lru' = Changed(lru, Filled)
      /\ op' = [op EXCEPT !.at = "leave"]
      /\ UNCHANGED <<nrpages, disk, size, may, pins, faults>>
  BY DEF Fill
<1>2. /\ SizeOK(size) /\ PinsOK(pins) /\ FaultsOK(faults) /\ OpOK(op, size, disk)
      /\ TailOK(op, may, size) /\ DirsOK(disk, size)
  BY Before
<1>3. /\ op.key \in Keys /\ op.held = <<op.key>> /\ Cached(lru, op.key) /\ op \in OpType
      /\ op.at # "idle" /\ CacheOK(lru, disk, may, nrpages, pins, {op.key})
      /\ HeldBy(op) = {op.key}
  BY <1>1, HeldCached
<1>4. /\ Filled \in Page /\ Filled.key = op.key /\ Filled.ref = PageAt(lru, op.key).ref
      /\ Filled.upt /\ GoodPage(Filled, may)
  BY <1>3, FilledFacts DEF Main
<1>5. CacheOK(lru', disk, may, nrpages, pins, {op.key})
  BY <1>1, <1>3, <1>4, ChangedCache
<1>6. /\ Onward(op, op') /\ op'.at = "leave" /\ op'.held = op.held /\ op'.call = op.call
      /\ op'.key = op.key
  BY <1>1, <1>3 DEF Onward, OpType
<1>7. StageOK(op') /\ HeldOK(op') /\ HeldBy(op') = {op.key}
  <2>1. HeldOK(op)
    BY <1>2 DEF OpOK
  <2>2. StageOK(op')
    BY <1>1, <1>6 DEF StageOK
  <2>3. HeldOK(op')
    BY <2>1, <1>1, <1>6 DEF HeldOK
  <2>4. HeldBy(op') = HeldBy(op)
    BY <1>6 DEF HeldBy
  <2> QED BY <2>2, <2>3, <2>4, <1>3
<1>8. Mapped(op, disk)
  BY <1>1 DEF Mapped
<1>9. OpOK(op', size, disk) /\ TailOK(op', may, size)
  BY <1>2, <1>3, <1>6, <1>7, <1>8, OnwardOK, OnwardFacts
<1>10. DirtyOK(op', lru')
  BY <1>6 DEF DirtyOK
<1> QED BY <1>1, <1>2, <1>5, <1>7, <1>9, <1>10, After

(* The page cannot be read. *)
LEMMA FillFailsStep == ASSUME InvOf(op), FillFails PROVE InvOf(op)'
<1>1. /\ op.at = "fill" /\ Faulty(1) /\ lru' = PutPage(lru, op.key) /\ Finish(op, op.from)
      /\ UNCHANGED <<nrpages, disk, may, pins>>
  BY DEF FillFails, Main
<1>2. /\ SizeOK(size) /\ PinsOK(pins) /\ FaultsOK(faults) /\ OpOK(op, size, disk)
      /\ TailOK(op, may, size) /\ DirsOK(disk, size)
  BY Before
<1>3. op.key \in Keys /\ op.at # "idle" /\ CacheOK(lru, disk, may, nrpages, pins, {op.key})
  BY <1>1, HeldCached
<1>4. CacheOK(lru', disk, may, nrpages, pins, {})
  BY <1>1, <1>2, <1>3, PutMain
<1>5. op' = Idle /\ SizeOK(size') /\ TailOK(Idle, may, size') /\ DirsOK(disk, size')
  BY <1>1, <1>2, <1>3, FinishStep
<1>6. FaultsOK(faults')
  BY <1>1, <1>2, Bounds DEF Faulty, FaultsOK
<1> QED BY <1>1, <1>2, <1>4, <1>5, <1>6, IdleFacts, After

(* ext2_delete_entry finds nothing to delete. *)
LEMMA DeleteMissesStep == ASSUME InvOf(op), DeleteMisses PROVE InvOf(op)'
<1> DEFINE t == Changed(lru, Filled)
<1>1. /\ op.at = "fill" /\ op.call = "delete" /\ lru' = PutPage(t, op.key) /\ op' = Idle
      /\ UNCHANGED <<nrpages, disk, size, may, pins, faults>>
  BY DEF DeleteMisses, Main
<1>2. /\ SizeOK(size) /\ PinsOK(pins) /\ FaultsOK(faults)
      /\ TailOK(op, may, size) /\ DirsOK(disk, size)
  BY Before
<1>3. /\ op.key \in Keys /\ Cached(lru, op.key) /\ op.at # "idle"
      /\ CacheOK(lru, disk, may, nrpages, pins, {op.key})
  BY <1>1, HeldCached
<1>4. /\ Filled \in Page /\ Filled.key = op.key /\ Filled.ref = PageAt(lru, op.key).ref
      /\ Filled.upt /\ GoodPage(Filled, may)
  BY <1>3, FilledFacts DEF Main
<1>5. CacheOK(t, disk, may, nrpages, pins, {op.key})
  BY <1>3, <1>4, ChangedCache
<1> HIDE DEF t
<1>6. CacheOK(lru', disk, may, nrpages, pins, {})
  BY <1>1, <1>2, <1>3, <1>5, PutMain
<1>7. TailOK(Idle, may, size)
  BY <1>1, <1>2, NoTail
<1> QED BY <1>1, <1>2, <1>6, <1>7, IdleFacts, After

(* ext2_find_entry keeps the page. *)
LEMMA LookupMissesStep == ASSUME InvOf(op), LookupMisses PROVE InvOf(op)'
<1>1. /\ op.at = "leave" /\ op.call = "lookup" /\ op' = Idle /\ pins[op.key] < MaxPins
      /\ pins' = [pins EXCEPT ![op.key] = @ + 1]
      /\ UNCHANGED <<lru, nrpages, disk, faults, size, may>>
  BY DEF LookupMisses, Main, CacheSame
<1>2. /\ SizeOK(size) /\ PinsOK(pins) /\ FaultsOK(faults)
      /\ TailOK(op, may, size) /\ DirsOK(disk, size)
  BY Before
<1>3. op.key \in Keys /\ CacheOK(lru, disk, may, nrpages, pins, {op.key})
  BY <1>1, HeldCached
<1>4. CacheOK(lru, disk, may, nrpages, pins', {}) /\ PinsOK(pins')
  BY <1>1, <1>2, <1>3, KeepRef
<1>5. TailOK(Idle, may, size)
  BY <1>1, <1>2, NoTail
<1> QED BY <1>1, <1>2, <1>4, <1>5, IdleFacts, After

(* A directory has one page. *)
LEMMA DirPage ==
  ASSUME NEW k \in Keys, k[1] \in Dirs
  PROVE  /\ k[2] = 0 /\ \A n \in Nat : n < Span[k[1]] => n \div PerPage = 0
<1> DEFINE f == k[1]
<1>1. f \in Files /\ k[2] \in Nat /\ k[2] <= LastPage(f) /\ Span[f] <= PerPage
      /\ Span[f] \in Nat /\ Span[f] > 0
  BY KeyFacts, Bounds, PageCacheAssumption
<1>2. ASSUME NEW n \in Nat, n < Span[f] PROVE n \div PerPage = 0
  <2>1. n \in Slots /\ 0 * PerPage + n = n
    BY <1>1, <1>2, Bounds DEF Slots
  <2> QED BY <2>1, Slot
<1>3. LastPage(f) = 0
  <2>1. Span[f] - 1 \in Nat /\ Span[f] - 1 < Span[f]
    BY <1>1
  <2> QED BY <2>1, <1>2 DEF LastPage
<1> QED BY <1>1, <1>2, <1>3

(* The page is put; a search for a slot goes on. *)
LEMMA LeaveStep == ASSUME InvOf(op), Leave PROVE InvOf(op)'
<1>1. /\ op.at = "leave" /\ lru' = PutPage(lru, op.key)
      /\ UNCHANGED <<nrpages, disk, size, may, pins, faults>>
  BY DEF Leave, Main
<1>2. /\ SizeOK(size) /\ PinsOK(pins) /\ FaultsOK(faults) /\ OpOK(op, size, disk)
      /\ TailOK(op, may, size) /\ DirsOK(disk, size)
  BY Before
<1>3. /\ op.key \in Keys /\ op.key[1] \in Files /\ CacheOK(lru, disk, may, nrpages, pins, {op.key})
      /\ op \in OpType
  BY <1>1, HeldCached
<1>4. CacheOK(lru', disk, may, nrpages, pins, {})
  BY <1>1, <1>2, <1>3, PutMain
<1>5. op.call # "write"
  BY <1>1, <1>2 DEF OpOK, StageOK, Idle
<1>6. \A e : TailOK(e, may, size)
  BY <1>2, <1>5, NoTail
<1>7. CASE op' = Idle
  BY <1>1, <1>2, <1>4, <1>6, <1>7, IdleFacts, After
<1>8. ASSUME op.call = "scan"
      PROVE  /\ op.key[1] \in Dirs /\ ~op.done /\ op.from < op.to /\ op.to <= Span[op.key[1]]
             /\ op.from \div PerPage = op.key[2] /\ op.to <= size[op.key[1]]
  BY <1>1, <1>2, <1>8 DEF OpOK, KeyOK, RangeOK
<1>9. CASE op.call = "scan" /\ op' = [op EXCEPT !.call = "slot", !.held = <<>>, !.at = "grab"]
  <2>1. /\ op'.call = "slot" /\ op'.held = <<>> /\ op'.at = "grab" /\ op'.key = op.key
        /\ op'.from = op.from /\ op'.to = op.to /\ op'.done = op.done /\ op' \in OpType
    <3>1. <<>> \in Seq(Keys)
      OBVIOUS
    <3>2. op' \in OpType
      BY <3>1, <1>3, <1>9 DEF OpType
    <3> QED BY <3>2, <1>3, <1>9 DEF OpType
  <2>2. StageOK(op') /\ KeyOK(op') /\ HeldOK(op') /\ RangeOK(op', size) /\ HeldBy(op') = {}
    BY <1>3, <1>8, <1>9, <2>1 DEF StageOK, KeyOK, HeldOK, RangeOK, HeldBy
  <2>3. MappedOK(op', disk)
    <3> SUFFICES ASSUME NEW n \in Chunk(op') PROVE disk[op.key[1]][n] # Hole
      BY <2>1 DEF MappedOK
    <3>1. n \in Nat /\ n < op.to
      BY <2>1, ChunkFacts
    <3>2. op.to \in Nat /\ size[op.key[1]] \in Nat /\ Span[op.key[1]] \in Nat
      BY <1>2, <1>3, Bounds DEF SizeOK, OpType
    <3>3. n < size[op.key[1]] /\ n < Span[op.key[1]]
      BY <3>1, <3>2, <1>8, <1>9
    <3>4. n \in BlocksOf(op.key[1])
      BY <3>1, <3>3, <1>3, SpanBlock
    <3> QED BY <3>3, <3>4, <1>2, <1>8, <1>9 DEF DirsOK
  <2>4. OpOK(op', size, disk)
    BY <2>1, <2>2, <2>3 DEF OpOK
  <2>5. DirtyOK(op', lru')
    BY <2>1 DEF DirtyOK
  <2> QED BY <1>1, <1>2, <1>4, <1>6, <2>2, <2>4, <2>5, After
<1>10. CASE /\ op.call = "scan" /\ size[op.key[1]] < Span[op.key[1]]
            /\ op' = [op EXCEPT !.call = "grow", !.held = <<>>, !.at = "prepare",
                                !.from = size[op.key[1]], !.to = size[op.key[1]] + 1]
  <2> DEFINE z == size[op.key[1]]
  <2>0. z \in Nat /\ z + 1 \in Nat /\ z < z + 1 /\ z < Span[op.key[1]] /\ Span[op.key[1]] \in Nat
    BY <1>2, <1>3, <1>10, Bounds DEF SizeOK
  <2>1. /\ op'.call = "grow" /\ op'.held = <<>> /\ op'.at = "prepare" /\ op'.key = op.key
        /\ op'.from = z /\ op'.to = z + 1 /\ op'.done = op.done /\ op' \in OpType
    <3>1. <<>> \in Seq(Keys)
      OBVIOUS
    <3> HIDE DEF z
    <3>2. op' = [op EXCEPT !.call = "grow", !.held = <<>>, !.at = "prepare", !.from = z, !.to = z + 1]
      BY <1>10 DEF z
    <3>3. op' \in OpType
      BY <3>1, <3>2, <1>3, <2>0 DEF OpType
    <3> QED BY <3>2, <3>3, <1>3 DEF OpType
  <2>2. StageOK(op') /\ KeyOK(op') /\ HeldOK(op') /\ HeldBy(op') = {} /\ MappedOK(op', disk)
    BY <1>3, <1>8, <1>10, <2>1 DEF StageOK, KeyOK, HeldOK, HeldBy, MappedOK
  <2>3. z \div PerPage = op.key[2]
    BY <1>3, <1>8, <1>10, <2>0, DirPage
  <2>4. z + 1 <= Span[op.key[1]] /\ ~op.done
    BY <1>8, <1>10, <2>0
  <2>5. RangeOK(op', size)
    <3> HIDE DEF z
    <3>1. z = size[op'.key[1]]
      BY <2>1 DEF z
    <3> QED BY <3>1, <2>0, <2>1, <2>3, <2>4 DEF RangeOK
  <2>6. OpOK(op', size, disk)
    BY <2>1, <2>2, <2>5 DEF OpOK
  <2>7. DirtyOK(op', lru')
    BY <2>1 DEF DirtyOK
  <2> QED BY <1>1, <1>2, <1>4, <1>6, <2>2, <2>6, <2>7, After
<1> QED BY <1>7, <1>9, <1>10 DEF Leave, File
-----------------------------------------------------------------------------
(* The value v may be read from the blocks of C. *)
MayAlso(m, f0, C, v) ==
  [m EXCEPT ![f0] = [n \in DOMAIN @ |-> IF n \in C THEN @[n] \cup {v} ELSE @[n]]]

(* What a call changes may be read from then on. *)
LEMMA MoreMay ==
  ASSUME NEW m, MayType(m), NEW f0 \in Files, NEW C, NEW v \in Values
  PROVE  /\ Grows(m, MayAlso(m, f0, C, v))
         /\ \A n \in BlocksOf(f0) : n \in C => v \in MayAlso(m, f0, C, v)[f0][n]
<1> DEFINE e == MayAlso(m, f0, C, v)
           r == [n \in BlocksOf(f0) |-> IF n \in C THEN m[f0][n] \cup {v} ELSE m[f0][n]]
<1>1. \A f \in Files : DOMAIN m[f] = BlocksOf(f) /\ m[f] \in [BlocksOf(f) -> SUBSET (Values \cup {Junk})]
  BY DEF MayType
<1>2. DOMAIN m = Files
  BY DEF MayType
<1>3. DOMAIN e = Files /\ e[f0] = r /\ \A f \in Files : f # f0 => e[f] = m[f]
  BY <1>1, <1>2 DEF MayAlso
<1>4. r \in [BlocksOf(f0) -> SUBSET (Values \cup {Junk})]
  <2>1. \A n \in BlocksOf(f0) : m[f0][n] \in SUBSET (Values \cup {Junk})
    BY <1>1
  <2> QED BY <2>1
<1>5. \A n \in BlocksOf(f0) : m[f0][n] \subseteq r[n] /\ (n \in C => v \in r[n])
  OBVIOUS
<1> HIDE DEF e, r
<1>6. MayType(e)
  BY <1>1, <1>3, <1>4 DEF MayType
<1>7. Grows(m, e)
  BY <1>3, <1>5, <1>6 DEF Grows
<1>8. \A n \in BlocksOf(f0) : n \in C => v \in e[f0][n]
  BY <1>3, <1>5
<1> QED BY <1>7, <1>8 DEF e

(* The data of the call are copied into its page. *)
LEMMA ModifyStep == ASSUME InvOf(op), Modify PROVE InvOf(op)'
<1> DEFINE k == op.key
           f0 == op.key[1]
           C == Chunk(op)
           p == Filled
<1>1. /\ op.at = "fill" /\ op.call \notin {"lookup", "scan"} /\ op' = [op EXCEPT !.at = "flush"]
      /\ UNCHANGED <<nrpages, disk, size, pins, faults>>
  BY DEF Modify
<1>2. PICK v \in DataOf(op.call) :
        /\ lru' = Changed(lru, [p EXCEPT !.dirty = TRUE, !.upt = TRUE, !.mask = DirtyMask(p),
                     !.data = [i \in Slots |-> IF Block(k, i) \in C THEN v ELSE @[i]]])
        /\ may' = [may EXCEPT ![f0] = [n \in DOMAIN @ |-> IF n \in C THEN @[n] \cup {v} ELSE @[n]]]
  BY DEF Modify, Main, File
<1>3. /\ SizeOK(size) /\ PinsOK(pins) /\ FaultsOK(faults) /\ OpOK(op, size, disk)
      /\ TailOK(op, may, size) /\ DirsOK(disk, size) /\ Store(lru, disk, may)
  BY Before
<1>4. /\ k \in Keys /\ op.held = <<k>> /\ Cached(lru, k) /\ op \in OpType /\ f0 \in Files
      /\ op.at # "idle" /\ CacheOK(lru, disk, may, nrpages, pins, {k}) /\ HeldBy(op) = {k}
  BY <1>1, HeldCached
<1>5. op.call \in {"write", "grow", "slot", "delete"}
  BY <1>1, <1>3 DEF OpOK, StageOK, Idle
<1>6. v \in Values
  BY <1>2, <1>5, Bounds DEF DataOf
<1>7. Grows(may, may') /\ \A n \in BlocksOf(f0) : n \in C => v \in may'[f0][n]
  <2>1. MayType(may)
    BY <1>3 DEF Store
  <2>2. may' = MayAlso(may, f0, C, v)
    BY <1>2 DEF MayAlso
  <2> HIDE DEF f0, C
  <2> QED BY <2>1, <2>2, <1>4, <1>6, MoreMay
<1>8. \A n \in C : n \in BlocksOf(f0) /\ n % PerPage \in Slots
  BY <1>3, <1>4, <1>5, ChunkBlocks
<1>9. /\ p \in Page /\ p.key = k /\ p.ref = PageAt(lru, k).ref /\ p.upt /\ GoodPage(p, may)
  BY <1>4, FilledFacts DEF Main
<1>10. DirtyMask(p) \subseteq Slots /\ (DirtyMask(p) = {} \/ \A n \in C : n % PerPage \in DirtyMask(p))
  <2> DEFINE M == {n % PerPage : n \in C}
  <2>1. M \subseteq Slots /\ \A n \in C : n % PerPage \in M
    BY <1>8
  <2>2. p.mask \subseteq Slots
    BY <1>9 DEF Page
  <2>3. DirtyMask(p) = {} \/ DirtyMask(p) = p.mask \cup M
    BY DEF DirtyMask
  <2> HIDE DEF M, p, C
  <2> QED BY <2>1, <2>2, <2>3
<1> DEFINE D == [i \in Slots |-> IF Block(k, i) \in C THEN v ELSE p.data[i]]
           q == [p EXCEPT !.dirty = TRUE, !.upt = TRUE, !.mask = DirtyMask(p), !.data = D]
<1> HIDE DEF p, C, k
<1>11. D \in [Slots -> Values \cup {Junk}]
  <2>1. p.data \in [Slots -> Values \cup {Junk}]
    BY <1>9 DEF Page
  <2> QED BY <2>1, <1>6
<1>12. lru' = Changed(lru, q)
  BY <1>2
<1> HIDE DEF D
<1>13. /\ q \in Page /\ q.key = k /\ q.ref = PageAt(lru, k).ref /\ q.upt /\ q.dirty
       /\ q.mask = DirtyMask(p) /\ q.data = D
  BY <1>9, <1>10, <1>11 DEF Page
<1> HIDE DEF q
<1>14. GoodPage(q, may')
  <2> SUFFICES ASSUME NEW i \in Slots PROVE q.data[i] \in may'[k[1]][Block(k, i)]
    BY <1>13 DEF GoodPage
  <2>1. Block(k, i) \in BlocksOf(k[1]) /\ k[1] = f0
    BY <1>4, KeyBlock DEF k
  <2>2. q.data[i] = IF Block(k, i) \in C THEN v ELSE p.data[i]
    BY <1>13 DEF D
  <2>3. CASE Block(k, i) \in C
    BY <2>1, <2>2, <2>3, <1>7
  <2>4. CASE Block(k, i) \notin C
    <3>1. p.data[i] \in may[k[1]][Block(k, i)]
      BY <1>9 DEF GoodPage
    <3> QED BY <2>1, <2>2, <2>4, <3>1, <1>4, <1>7 DEF Grows
  <2> QED BY <2>3, <2>4
<1>15. Store(lru, disk, may') /\ TailOK(op, may', size)
  BY <1>3, <1>7, GrowsGood
<1>16. CacheOK(lru, disk, may', nrpages, pins, {k})
  BY <1>4, <1>15 DEF CacheOK
<1>17. CacheOK(lru', disk, may', nrpages, pins, {k}) /\ PageAt(lru', k) = q
  BY <1>4, <1>12, <1>13, <1>14, <1>16, ChangedCache
<1>18. /\ Onward(op, op') /\ op'.at = "flush" /\ op'.held = op.held /\ op'.call = op.call
       /\ op'.key = op.key
  BY <1>1, <1>4 DEF Onward, OpType
<1>19. StageOK(op') /\ HeldOK(op') /\ HeldBy(op') = {k}
  <2>1. HeldOK(op)
    BY <1>3 DEF OpOK
  <2>2. StageOK(op')
    BY <1>5, <1>18 DEF StageOK
  <2>3. HeldOK(op')
    BY <2>1, <1>1, <1>18 DEF HeldOK
  <2>4. HeldBy(op') = HeldBy(op)
    BY <1>18 DEF HeldBy
  <2> QED BY <2>2, <2>3, <2>4, <1>4
<1>20. Mapped(op, disk)
  <2>1. Lands(disk, disk, may)
    BY <1>3, SameLands
  <2> QED BY <2>1, <1>1, <1>3, LandsMapped
<1>21. OpOK(op', size, disk) /\ TailOK(op', may', size) /\ Chunk(op') = C
  BY <1>3, <1>4, <1>15, <1>18, <1>19, <1>20, OnwardOK, OnwardFacts DEF C
<1>22. DirtyOK(op', lru')
  <2>1. PageAt(lru', op'.key) = q
    BY <1>17, <1>18 DEF k
  <2> QED BY <2>1, <1>10, <1>13, <1>21 DEF DirtyOK
<1> QED BY <1>1, <1>3, <1>17, <1>19, <1>21, <1>22, After
-----------------------------------------------------------------------------
(* Where the blocks of a call in its page end. *)
LEMMA EndFacts ==
  ASSUME NEW z, NEW d, NEW c, OpOK(c, z, d), c.at # "idle",
         c.call \in {"write", "scan", "slot", "delete", "grow"}, NEW e, e = Max(Chunk(c)) + 1
  PROVE  /\ e \in Nat /\ c.from < e /\ e <= c.to /\ c.from \in Nat /\ c.to \in Nat
         /\ \A n \in Chunk(c) : n < e
         /\ e < c.to => e = (c.key[2] + 1) * PerPage
<1> DEFINE q == c.key[2]
           B == (q + 1) * PerPage
           a == c.from
           b == c.to
           x == IF b <= B THEN b - 1 ELSE B - 1
<1>1. c \in OpType /\ c.key \in Keys /\ a < b /\ a \div PerPage = q /\ a \in Nat /\ b \in Nat
  BY DEF OpOK, KeyOK, RangeOK, OpType
<1>2. q \in Nat /\ PerPage \in Nat /\ PerPage > 0
  BY <1>1, KeyFacts, Bounds
<1> HIDE DEF q, a, b
<1>3. B = q * PerPage + PerPage /\ q * PerPage \in Nat
  BY <1>2
<1>4. a % PerPage \in Slots /\ q * PerPage + (a % PerPage) = a
  BY <1>1, Places
<1> DEFINE qP == q * PerPage
           ar == a % PerPage
<1>5. ar \in Nat /\ ar <= PerPage - 1
  BY <1>2, <1>4 DEF Slots
<1> HIDE DEF qP, ar, B
<1>6. qP <= a /\ a <= B - 1 /\ B \in Nat /\ qP \in Nat /\ B = qP + PerPage
  <2>1. B = qP + PerPage /\ qP \in Nat /\ qP + ar = a
    BY <1>3, <1>4 DEF qP, ar
  <2> QED BY <2>1, <1>1, <1>2, <1>5
<1>7. x \in Nat /\ a <= x /\ x <= b - 1 /\ x <= B - 1 /\ x - qP \in Slots /\ (x + 1 < b => x + 1 = B)
  BY <1>1, <1>2, <1>6 DEF Slots
<1>8. ASSUME NEW y \in Nat, qP <= y, y <= B - 1 PROVE y \div PerPage = q
  <2> DEFINE i == y - qP
  <2>1. i \in Slots /\ qP + i = y
    BY <1>2, <1>6, <1>8 DEF Slots
  <2> HIDE DEF i
  <2>2. (q * PerPage + i) \div PerPage = q
    BY <2>1, <1>2, Slot
  <2> QED BY <2>1, <2>2 DEF qP
<1> HIDE DEF x
<1>9. x \in Chunk(c)
  <2>1. x \div PerPage = q /\ x \in a .. b - 1
    BY <1>1, <1>6, <1>7, <1>8
  <2> QED BY <2>1 DEF Chunk, q, a, b
<1>10. ASSUME NEW n \in Chunk(c) PROVE n \in Nat /\ n <= x
  <2>1. n \in Nat /\ n < b /\ n \div PerPage = q
    BY <1>1, ChunkFacts DEF b, q
  <2>2. n % PerPage \in Slots /\ q * PerPage + (n % PerPage) = n
    BY <2>1, Places
  <2> DEFINE r == n % PerPage
  <2>3. qP + r = n /\ r \in Nat /\ r <= PerPage - 1
    BY <2>2, <1>2 DEF qP, Slots
  <2> HIDE DEF r
  <2>4. n <= B - 1
    BY <2>1, <2>3, <1>2, <1>6
  <2> QED BY <2>1, <2>4, <1>1, <1>6 DEF x
<1>11. Max(Chunk(c)) = x
  <2>1. \A y \in Chunk(c) : y \in Nat /\ x >= y
    BY <1>7, <1>10
  <2>2. \A w \in Chunk(c) : (\A y \in Chunk(c) : w >= y) => w = x
    BY <2>1, <1>7, <1>9
  <2> QED BY <2>1, <2>2, <1>9 DEF Max
<1>12. e = x + 1
  BY <1>11
<1>13. e \in Nat /\ a < e /\ e <= b /\ (e < b => e = B) /\ \A n \in Chunk(c) : n < e
  BY <1>1, <1>6, <1>7, <1>10, <1>12
<1> QED BY <1>1, <1>13 DEF a, b, B, q

(* The sizes z are the ones of before, but for f0 which reaches x at least. *)
Longer(z, f0, x) ==
  /\ SizeOK(z) /\ \A f \in Files : z[f] \in Nat /\ size[f] \in Nat /\ z[f] >= size[f]
  /\ \A f \in Files : f # f0 => z[f] = size[f]
  /\ z[f0] >= x /\ (z[f0] = size[f0] \/ z[f0] = x)

(* A file grows to x. *)
LEMMA MoreSize ==
  ASSUME SizeOK(size), NEW f0 \in Files, NEW x \in Nat, x <= Span[f0],
         NEW z, z = [size EXCEPT ![f0] = Max({@, x})]
  PROVE  Longer(z, f0, x)
<1> DEFINE y == Max({size[f0], x})
<1>1. size \in [Files -> Nat] /\ \A f \in Files : size[f] \in Nat /\ size[f] <= Span[f]
  BY DEF SizeOK
<1>2. y \in Nat /\ y \in {size[f0], x} /\ y >= size[f0] /\ y >= x
  BY <1>1, MaxPair
<1>3. z = [size EXCEPT ![f0] = y]
  OBVIOUS
<1> HIDE DEF y
<1>4. z \in [Files -> Nat] /\ \A f \in Files : z[f] = IF f = f0 THEN y ELSE size[f]
  BY <1>1, <1>2, <1>3
<1>5. SizeOK(z)
  BY <1>1, <1>2, <1>4 DEF SizeOK
<1> QED BY <1>1, <1>2, <1>4, <1>5 DEF Longer

(* The blocks of C hold what page p says, if they could be written. *)
MayNow(m, f0, C, p, ok) ==
  [m EXCEPT ![f0] = [n \in DOMAIN @ |-> IF ok /\ n \in C THEN {p.data[n % PerPage]} ELSE @[n]]]

(* From then on the blocks of C that were written read as in p, the others  *)
(* as before.                                                              *)
Settled(m, e, f0, C, p, ok) ==
  /\ MayType(e)
  /\ \A f \in Files : \A n \in BlocksOf(f) : ~(ok /\ f = f0 /\ n \in C) => e[f][n] = m[f][n]
  /\ \A n \in BlocksOf(f0) : ok /\ n \in C => e[f0][n] = {p.data[n % PerPage]}

(* A write that succeeded settles what may be read. *)
LEMMA MayNowFacts ==
  ASSUME NEW m, MayType(m), NEW f0 \in Files, NEW C, NEW p \in Page, NEW ok \in BOOLEAN
  PROVE  Settled(m, MayNow(m, f0, C, p, ok), f0, C, p, ok)
<1> DEFINE e == MayNow(m, f0, C, p, ok)
           r == [n \in BlocksOf(f0) |-> IF ok /\ n \in C THEN {p.data[n % PerPage]} ELSE m[f0][n]]
<1>1. \A f \in Files : DOMAIN m[f] = BlocksOf(f) /\ m[f] \in [BlocksOf(f) -> SUBSET (Values \cup {Junk})]
  BY DEF MayType
<1>2. DOMAIN m = Files
  BY DEF MayType
<1>3. DOMAIN e = Files /\ e[f0] = r /\ \A f \in Files : f # f0 => e[f] = m[f]
  BY <1>1, <1>2 DEF MayNow
<1>4. r \in [BlocksOf(f0) -> SUBSET (Values \cup {Junk})]
  <2>1. \A n \in BlocksOf(f0) : m[f0][n] \in SUBSET (Values \cup {Junk})
    BY <1>1
  <2>2. \A n \in BlocksOf(f0) : {p.data[n % PerPage]} \in SUBSET (Values \cup {Junk})
    BY BlockKey DEF Page
  <2> QED BY <2>1, <2>2
<1>5. \A n \in BlocksOf(f0) : /\ ~(ok /\ n \in C) => r[n] = m[f0][n]
                              /\ ok /\ n \in C => r[n] = {p.data[n % PerPage]}
  OBVIOUS
<1> HIDE DEF e, r
<1>6. MayType(e)
  BY <1>1, <1>3, <1>4 DEF MayType
<1>7. \A f \in Files : \A n \in BlocksOf(f) : ~(ok /\ f = f0 /\ n \in C) => e[f][n] = m[f][n]
  BY <1>3, <1>5
<1>8. \A n \in BlocksOf(f0) : ok /\ n \in C => e[f0][n] = {p.data[n % PerPage]}
  BY <1>3, <1>5
<1> QED BY <1>6, <1>7, <1>8 DEF e, Settled

(* The page of the call is written as far as g says. *)
LEMMA FlushStores ==
  ASSUME InvOf(op), op.at = "flush", NEW g \in Landings(lru, {op.key}),
         NEW ok \in BOOLEAN, ok <=> Failed(lru, g) = {}, NEW d, d = Stored(lru, g),
         NEW m, m = MayNow(may, op.key[1], Chunk(op), PageAt(lru, op.key), ok)
  PROVE  /\ Lands(disk, d, may)
         /\ Settled(may, m, op.key[1], Chunk(op), PageAt(lru, op.key), ok)
         /\ CacheOK(SyncPage(lru, op.key, ok), d, m, nrpages, pins, {op.key})
<1> DEFINE k == op.key
           f0 == op.key[1]
           C == Chunk(op)
           p == PageAt(lru, op.key)
<1>1. /\ Store(lru, disk, may) /\ Sound(lru) /\ OpOK(op, size, disk) /\ DirtyOK(op, lru)
  BY Before
<1>2. /\ k \in Keys /\ f0 \in Files /\ Cached(lru, k) /\ op \in OpType /\ op.at # "idle"
      /\ CacheOK(lru, disk, may, nrpages, pins, {k})
  BY HeldCached
<1>3. p \in Page /\ p.key = k
  BY <1>1, <1>2, CachedPage
<1>4. p.dirty /\ (p.mask = {} \/ \A n \in C : n % PerPage \in p.mask)
  BY <1>1 DEF DirtyOK
<1>5. /\ DiskType(disk) /\ MayType(may) /\ GoodDisk(disk, may) /\ GoodList(lru, may)
  BY <1>1, StoreIs
<1>6. p.upt /\ GoodPage(p, may)
  BY <1>2, <1>4, <1>5 DEF GoodList
<1>7. Landing(lru, g) /\ DOMAIN g = {k}
  <2> DEFINE K == {op.key}
  <2>1. g \in Landings(lru, K) /\ \A x \in K : Cached(lru, x)
    BY <1>2
  <2>2. DirtyIn(lru, K) = {k}
    BY <1>4 DEF DirtyIn
  <2> HIDE DEF K
  <2>3. Landing(lru, g) /\ DOMAIN g = DirtyIn(lru, K)
    BY <2>1, LandingIs
  <2> QED BY <2>2, <2>3
<1>8. /\ Lands(disk, d, may)
      /\ \A f \in Files : \A n \in BlocksOf(f) :
           <<f, n \div PerPage>> \in DOMAIN g /\ (n % PerPage) \in g[<<f, n \div PerPage>>] =>
             d[f][n] = PageAt(lru, <<f, n \div PerPage>>).data[n % PerPage]
  BY <1>1, <1>7, StoredFacts
<1>9. /\ MayType(m) /\ Settled(may, m, f0, C, p, ok)
      /\ \A f \in Files : \A n \in BlocksOf(f) : ~(ok /\ f = f0 /\ n \in C) => m[f][n] = may[f][n]
      /\ \A n \in BlocksOf(f0) : ok /\ n \in C => m[f0][n] = {p.data[n % PerPage]}
  <2> HIDE DEF f0, C, p
  <2>1. m = MayNow(may, f0, C, p, ok)
    BY DEF f0, C, p
  <2>2. f0 \in Files /\ p \in Page /\ MayType(may)
    BY <1>2, <1>3, <1>5
  <2>3. Settled(may, m, f0, C, p, ok)
    BY <2>1, <2>2, MayNowFacts
  <2> QED BY <2>3 DEF Settled
<1>10. DiskType(d)
  BY <1>8 DEF Lands
<1>11. CASE ~ok
  <2>1. SyncPage(lru, k, ok) = lru
    BY <1>11 DEF SyncPage
  <2>2. Grows(may, m)
    BY <1>9, <1>11 DEF Grows
  <2>3. Weaker(lru, lru)
    BY DEF Weaker, SameData
  <2>4. Store(lru, d, may)
    BY <1>1, <1>8, <2>3, StoreStep
  <2>5. Store(lru, d, m)
    BY <2>2, <2>4, GrowsGood
  <2>6. CacheOK(lru, d, m, nrpages, pins, {k})
    BY <2>5, <1>2 DEF CacheOK
  <2> QED BY <2>1, <2>6, <1>8, <1>9
<1>12. CASE ok
  <2> DEFINE q == [p EXCEPT !.dirty = FALSE, !.mask = {}, !.upt = TRUE]
             t == SyncPage(lru, k, ok)
  <2>1. t = Changed(lru, q)
    BY <1>12 DEF SyncPage
  <2>2. q \in Page /\ q.key = k /\ q.ref = p.ref /\ q.upt /\ ~q.dirty /\ q.data = p.data
    BY <1>3 DEF Page
  <2> HIDE DEF q, t
  <2>3. /\ Replaced(lru, t, q) /\ Sound(t) /\ CachedKeys(t) = CachedKeys(lru)
        /\ \A pn, H : RefsOK(lru, pn, H) => RefsOK(t, pn, H)
    BY <1>1, <1>2, <2>1, <2>2, ChangeStep
  <2>4. op.call \in {"write", "grow", "slot", "delete"}
    BY <1>1 DEF OpOK, StageOK, Idle
  <2>5. \A n \in C : n \in BlocksOf(f0) /\ k = <<f0, n \div PerPage>> /\ n % PerPage \in Slots
                     /\ n \div PerPage = k[2] /\ Block(k, n % PerPage) = n
    BY <1>1, <1>2, <2>4, ChunkBlocks
  <2>6. ASSUME NEW n \in C PROVE d[f0][n] = p.data[n % PerPage] /\ disk[f0][n] # Hole
    <3>1. disk[f0][n] # Hole
      BY <1>1, <2>4 DEF OpOK, MappedOK
    <3>2. n % PerPage \in ToWrite(p)
      <4>1. p.key[1] = f0 /\ Block(p.key, n % PerPage) = n /\ n % PerPage \in Slots
        BY <1>3, <2>5
      <4>2. p.mask = {} \/ n % PerPage \in p.mask
        BY <1>4
      <4> QED BY <3>1, <4>1, <4>2 DEF ToWrite
    <3>3. g[k] = ToWrite(p)
      BY <1>7, <1>12 DEF Failed
    <3>4. <<f0, n \div PerPage>> = k /\ n \in BlocksOf(f0)
      BY <2>5
    <3>5. n % PerPage \in g[k] /\ k \in DOMAIN g
      BY <3>2, <3>3, <1>7
    <3>6. d[f0][n] = PageAt(lru, k).data[n % PerPage]
      BY <3>4, <3>5, <1>2, <1>8
    <3> QED BY <3>1, <3>6
  <2>7. GoodDisk(d, m)
    <3> SUFFICES ASSUME NEW f \in Files, NEW n \in BlocksOf(f) PROVE GoodBlock(d, m, f, n)
      BY DEF GoodDisk
    <3>1. CASE f = f0 /\ n \in C
      <4>1. d[f0][n] \in m[f0][n] /\ d[f0][n] # Hole
        <5>1. m[f0][n] = {p.data[n % PerPage]} /\ d[f0][n] = p.data[n % PerPage] /\ disk[f0][n] # Hole
          BY <3>1, <2>6, <1>9, <1>12
        <5>2. d[f0][n] # Hole
          BY <5>1, <3>1, <1>2, <1>8 DEF Lands
        <5> QED BY <5>1, <5>2
      <4> QED BY <3>1, <4>1 DEF GoodBlock
    <3>2. CASE ~(f = f0 /\ n \in C)
      <4>1. m[f][n] = may[f][n]
        BY <3>2, <1>9
      <4>2. GoodBlock(disk, may, f, n)
        BY <1>5 DEF GoodDisk
      <4>3. (d[f][n] = Hole <=> disk[f][n] = Hole) /\ (d[f][n] # Hole => d[f][n] \in may[f][n])
        BY <1>8 DEF Lands
      <4> QED BY <4>1, <4>2, <4>3 DEF GoodBlock
    <3> QED BY <3>1, <3>2
  <2>8. ASSUME NEW x \in Keys, NEW i \in Slots, x[1] = f0, Block(x, i) \in C PROVE x = k
    <3>1. Block(x, i) \div PerPage = x[2] /\ x = <<x[1], x[2]>>
      BY KeyBlock, KeyFacts
    <3>2. k = <<f0, Block(x, i) \div PerPage>>
      BY <2>5, <2>8
    <3> QED BY <3>1, <3>2, <2>8
  <2>9. GoodPage(q, m)
    <3> SUFFICES ASSUME NEW i \in Slots PROVE p.data[i] \in m[f0][Block(k, i)]
      BY <2>2 DEF GoodPage
    <3>1. Block(k, i) \in BlocksOf(f0) /\ Block(k, i) % PerPage = i
      BY <1>2, KeyBlock
    <3>2. p.data[i] \in may[f0][Block(k, i)]
      BY <1>3, <1>6 DEF GoodPage
    <3> QED BY <3>1, <3>2, <1>2, <1>9
  <2>10. GoodList(t, m)
    <3> SUFFICES ASSUME NEW x \in Keys, Cached(t, x)
                 PROVE  /\ PageAt(t, x).dirty => PageAt(t, x).upt
                        /\ PageAt(t, x).upt => GoodPage(PageAt(t, x), m)
      BY DEF GoodList
    <3>1. CASE x = k
      BY <3>1, <2>2, <2>3, <2>9 DEF Replaced
    <3>2. CASE x # k
      <4>1. Cached(lru, x) /\ PageAt(t, x) = PageAt(lru, x)
        BY <3>2, <2>2, <2>3 DEF Replaced
      <4>2. PageAt(lru, x).key = x
        BY <4>1, <1>1, CachedPage
      <4>3. ASSUME PageAt(lru, x).upt, NEW i \in Slots
            PROVE  PageAt(lru, x).data[i] \in m[x[1]][Block(x, i)]
        <5>1. PageAt(lru, x).data[i] \in may[x[1]][Block(x, i)]
          BY <4>1, <4>2, <4>3, <1>5 DEF GoodList, GoodPage
        <5>2. x[1] \in Files /\ Block(x, i) \in BlocksOf(x[1])
          BY KeyFacts, KeyBlock
        <5>3. ~(x[1] = f0 /\ Block(x, i) \in C)
          BY <3>2, <2>8
        <5> QED BY <5>1, <5>2, <5>3, <1>9
      <4>4. PageAt(lru, x).upt => GoodPage(PageAt(lru, x), m)
        BY <4>2, <4>3 DEF GoodPage
      <4> QED BY <4>1, <4>4, <1>5 DEF GoodList
    <3> QED BY <3>1, <3>2
  <2>11. Store(t, d, m)
    BY <2>3, <2>7, <2>10, <1>9, <1>10, StoreIs
  <2>12. CacheOK(t, d, m, nrpages, pins, {k})
    BY <1>2, <2>3, <2>11, SameKeys DEF CacheOK
  <2> QED BY <2>12, <1>8, <1>9 DEF t
<1> QED BY <1>11, <1>12

(* Flush, with what reached the device, whether that was all, and the end of *)
(* the blocks of the call.                                                  *)
FlushWith(g, ok, end) ==
  /\ Faulty(IF ok THEN 0 ELSE 1)
  /\ disk' = Stored(lru, g)
  /\ ~ok /\ op.call = "delete" => pins[op.key] < MaxPins
  /\ pins' = IF ~ok /\ op.call = "delete" THEN [pins EXCEPT ![op.key] = @ + 1] ELSE pins
  /\ lru' = IF op.call = "delete" /\ ~ok THEN SyncPage(lru, op.key, ok)
            ELSE PutPage(SyncPage(lru, op.key, ok), op.key)
  /\ may' = MayNow(may, op.key[1], Chunk(op), PageAt(lru, op.key), ok)
  /\ IF op.call = "write"
     THEN IF ok /\ end < op.to
          THEN /\ op' = [op EXCEPT !.key = <<op.key[1], end \div PerPage>>,
                           !.held = <<>>, !.from = end, !.done = TRUE, !.at = "prepare"]
               /\ size' = size
          ELSE /\ op' = Idle
               /\ size' = IF ok \/ op.done
                          THEN [size EXCEPT ![op.key[1]] = Max({@, IF ok THEN end ELSE op.from})]
                          ELSE size
     ELSE /\ op' = Idle
          /\ size' = IF op.call = "grow" THEN [size EXCEPT ![op.key[1]] = Max({@, end})] ELSE size

(* The page of the call is written and put. *)
LEMMA FlushStep == ASSUME InvOf(op), Flush PROVE InvOf(op)'
<1> DEFINE k == op.key
           f0 == op.key[1]
           C == Chunk(op)
           end == Max(Chunk(op)) + 1
<1>1. op.at = "flush" /\ nrpages' = nrpages
  BY DEF Flush
<1>2. PICK g \in Landings(lru, {k}) : FlushWith(g, Failed(lru, g) = {}, end)
  BY DEF Flush, FlushWith, Main, File, Keeps, MayNow
<1> DEFINE ok == Failed(lru, g) = {}
<1>3. ok \in BOOLEAN /\ (ok <=> Failed(lru, g) = {}) /\ FlushWith(g, ok, end)
  BY <1>2
<1> HIDE DEF ok, end
<1>4. /\ SizeOK(size) /\ PinsOK(pins) /\ FaultsOK(faults) /\ OpOK(op, size, disk)
      /\ TailOK(op, may, size) /\ DirsOK(disk, size) /\ Store(lru, disk, may)
  BY Before
<1>5. k \in Keys /\ f0 \in Files /\ op \in OpType /\ op.at # "idle"
  BY <1>1, HeldCached
<1>6. op.call \in {"write", "grow", "slot", "delete"}
  BY <1>1, <1>4 DEF OpOK, StageOK, Idle
<1> DEFINE t == SyncPage(lru, k, ok)
<1>7. /\ Lands(disk, disk', may) /\ CacheOK(t, disk', may', nrpages, pins, {k})
      /\ \A f \in Files : \A n \in BlocksOf(f) : ~(ok /\ f = f0 /\ n \in C) => may'[f][n] = may[f][n]
  <2>1. /\ disk' = Stored(lru, g)
        /\ may' = MayNow(may, op.key[1], Chunk(op), PageAt(lru, op.key), ok)
    BY <1>3 DEF FlushWith
  <2>2. /\ Lands(disk, disk', may) /\ CacheOK(t, disk', may', nrpages, pins, {k})
        /\ Settled(may, may', op.key[1], Chunk(op), PageAt(lru, op.key), ok)
    BY <1>1, <1>2, <1>3, <2>1, FlushStores
  <2> QED BY <2>2 DEF Settled
<1> HIDE DEF t
<1>8. CacheOK(lru', disk', may', nrpages', pins', {}) /\ PinsOK(pins')
  <2>1. CASE op.call = "delete" /\ ~ok
    <3>1. lru' = t /\ pins[k] < MaxPins /\ pins' = [pins EXCEPT ![k] = @ + 1]
      BY <2>1, <1>3 DEF FlushWith, t
    <3>2. CacheOK(t, disk', may', nrpages, pins', {}) /\ PinsOK(pins')
      BY <3>1, <1>4, <1>5, <1>7, KeepRef
    <3> QED BY <3>1, <3>2, <1>1
  <2>2. CASE ~(op.call = "delete" /\ ~ok)
    <3>1. lru' = PutPage(t, k) /\ pins' = pins
      BY <2>2, <1>3 DEF FlushWith, t
    <3>2. CacheOK(lru', disk', may', nrpages, pins, {})
      BY <3>1, <1>4, <1>5, <1>7, PutMain
    <3> QED BY <3>1, <3>2, <1>1, <1>4
  <2> QED BY <2>1, <2>2
<1>9. FaultsOK(faults')
  <2>1. Faulty(IF ok THEN 0 ELSE 1)
    BY <1>3 DEF FlushWith
  <2> QED BY <2>1, <1>4, Bounds DEF Faulty, FaultsOK
<1>10. /\ end \in Nat /\ op.from < end /\ end <= op.to /\ op.from \in Nat /\ op.to \in Nat
       /\ \A n \in C : n < end
       /\ end < op.to => end = (k[2] + 1) * PerPage
  <2>1. end = Max(Chunk(op)) + 1
    BY DEF end
  <2> QED BY <2>1, <1>4, <1>5, <1>6, EndFacts
<1>11. op.to <= Span[f0] /\ Span[f0] \in Nat /\ (f0 \in Dirs <=> op.call # "write")
  BY <1>4, <1>5, <1>6, Bounds DEF OpOK, RangeOK, KeyOK
<1>12. \A n \in C : n \in BlocksOf(f0) /\ n \in Nat /\ disk'[f0][n] # Hole
  <2>1. \A n \in C : n \in BlocksOf(f0) /\ n \in Nat
    BY <1>4, <1>5, <1>6, ChunkBlocks
  <2>2. Mapped(op, disk')
    BY <1>1, <1>4, <1>7, LandsMapped
  <2> QED BY <2>1, <2>2, <1>6 DEF Mapped
<1>13. DirsOK(disk', size)
  BY <1>4, <1>7, LandsDirs
<1>14. \A f \in Files : \A n \in BlocksOf(f) : n \in Nat
  BY BlockKey
<1>15. \A f \in Files : size[f] \in Nat
  BY <1>4 DEF SizeOK
<1>16. CASE op.call = "write" /\ ok /\ end < op.to
  <2> DEFINE q == end \div PerPage
             k1 == <<f0, q>>
  <2>1. size' = size /\ op' = [op EXCEPT !.key = k1, !.held = <<>>, !.from = end, !.done = TRUE, !.at = "prepare"]
    BY <1>3, <1>16 DEF FlushWith
  <2>2. end = (k[2] + 1) * PerPage /\ k[2] + 1 \in Nat /\ 0 \in Slots
    BY <1>5, <1>10, <1>16, KeyFacts, Bounds DEF Slots
  <2>3. q = k[2] + 1
    <3> DEFINE a == k[2] + 1
    <3>1. a \in Nat /\ end = a * PerPage
      BY <2>2
    <3> HIDE DEF a
    <3>2. a * PerPage + 0 = end
      BY <3>1, <1>10
    <3>3. (a * PerPage + 0) \div PerPage = a
      BY <3>1, <2>2, Slot
    <3> QED BY <3>2, <3>3 DEF a
  <2>4. k1 \in Keys /\ q \in Nat
    <3>1. end \in Nat /\ end < Span[f0]
      BY <1>10, <1>11, <1>16
    <3>2. end \in BlocksOf(f0)
      BY <3>1, <1>5, SpanBlock
    <3> QED BY <3>2, <1>5, BlockKey
  <2>5. k1[1] = f0 /\ k1[2] = q
    OBVIOUS
  <2>6. end = q * PerPage
    BY <2>2, <2>3
  <2> HIDE DEF k1
  <2>7. /\ op' \in OpType /\ op'.call = "write" /\ op'.held = <<>> /\ op'.at = "prepare" /\ op'.key = k1
        /\ op'.from = end /\ op'.to = op.to /\ op'.done
    <3>1. <<>> \in Seq(Keys)
      OBVIOUS
    <3>2. op' \in OpType
      BY <3>1, <2>1, <2>4, <1>5, <1>10 DEF OpType
    <3> QED BY <3>2, <2>1, <1>5, <1>16 DEF OpType
  <2>8. StageOK(op') /\ HeldOK(op') /\ HeldBy(op') = {} /\ MappedOK(op', disk')
    BY <2>7 DEF StageOK, HeldOK, HeldBy, MappedOK
  <2>9. KeyOK(op')
    BY <2>4, <2>5, <2>7, <1>11, <1>16 DEF KeyOK
  <2>10. RangeOK(op', size)
    <3>1. end \div PerPage = k1[2] /\ end = k1[2] * PerPage
      BY <2>5, <2>6
    <3> HIDE DEF q
    <3>2. end < op.to /\ op.to <= Span[k1[1]]
      BY <2>5, <1>11, <1>16
    <3> QED BY <3>1, <3>2, <2>7 DEF RangeOK
  <2>11. OpOK(op', size, disk')
    BY <2>7, <2>8, <2>9, <2>10 DEF OpOK
  <2>12. DirtyOK(op', lru')
    BY <2>7 DEF DirtyOK
  <2>13. TailOK(op', may', size)
    <3> SUFFICES ASSUME NEW f \in Files, NEW n \in BlocksOf(f), n >= size[f], ~Unfinished(op', f, n)
                 PROVE  0 \in may'[f][n]
      BY DEF TailOK
    <3>1. n \in Nat
      BY <1>14
    <3>2. ~(f = f0 /\ n < end)
      BY <2>5, <2>7 DEF Unfinished
    <3>3. ~Unfinished(op, f, n) /\ ~(f = f0 /\ n \in C)
      BY <3>1, <3>2, <1>10 DEF Unfinished
    <3>4. 0 \in may[f][n]
      BY <3>3, <1>4 DEF TailOK
    <3> QED BY <3>3, <3>4, <1>7
  <2> QED BY <1>4, <1>8, <1>9, <1>13, <2>1, <2>8, <2>11, <2>12, <2>13, After
<1>17. ASSUME op' = Idle, SizeOK(size'), DirsOK(disk', size'), TailOK(Idle, may', size')
       PROVE  InvOf(op)'
  <2>1. HeldBy(op') = {} /\ OpOK(op', size', disk') /\ DirtyOK(op', lru') /\ TailOK(op', may', size')
    BY <1>17, IdleFacts
  <2> QED BY <2>1, <1>8, <1>9, <1>17, After
<1>18. CASE op.call = "write" /\ ~ok
  <2>1. op' = Idle /\ size' = IF op.done THEN [size EXCEPT ![f0] = Max({@, op.from})] ELSE size
    BY <1>3, <1>18 DEF FlushWith
  <2>2. Finish(op, op.from)
    BY <2>1, <1>18 DEF Finish
  <2>3. TailOK(op, may', size)
    BY <1>4, <1>7, <1>18 DEF TailOK
  <2>4. OpOK(op, size, disk')
    <3>1. MappedOK(op, disk')
      BY <1>12 DEF MappedOK
    <3> QED BY <3>1, <1>4 DEF OpOK
  <2>5. SizeOK(size') /\ TailOK(Idle, may', size') /\ DirsOK(disk', size')
    BY <2>2, <2>3, <2>4, <1>4, <1>5, <1>13, FinishStep
  <2> QED BY <2>1, <2>5, <1>17
<1>19. CASE (op.call = "write" /\ ok /\ ~(end < op.to)) \/ op.call = "grow"
  <2>1. op' = Idle /\ size' = [size EXCEPT ![f0] = Max({@, end})]
    BY <1>3, <1>19 DEF FlushWith
  <2>2. end <= Span[f0]
    BY <1>10, <1>11
  <2>3. /\ SizeOK(size') /\ \A f \in Files : size'[f] \in Nat /\ size[f] \in Nat /\ size'[f] >= size[f]
        /\ \A f \in Files : f # f0 => size'[f] = size[f]
        /\ size'[f0] >= end /\ (size'[f0] = size[f0] \/ size'[f0] = end)
    <3>1. Longer(size', f0, end)
      BY <2>1, <2>2, <1>4, <1>5, <1>10, MoreSize
    <3> QED BY <3>1 DEF Longer
  <2>4. TailOK(Idle, may', size')
    <3> SUFFICES ASSUME NEW f \in Files, NEW n \in BlocksOf(f), n >= size'[f] PROVE 0 \in may'[f][n]
      BY DEF TailOK
    <3>1. n \in Nat /\ n >= size[f] /\ ~(f = f0 /\ n < end)
      BY <2>3, <1>10, <1>14
    <3>2. ~Unfinished(op, f, n) /\ ~(f = f0 /\ n \in C)
      BY <3>1, <1>10 DEF Unfinished
    <3>3. 0 \in may[f][n]
      BY <3>1, <3>2, <1>4 DEF TailOK
    <3> QED BY <3>2, <3>3, <1>7
  <2>5. DirsOK(disk', size')
    <3> SUFFICES ASSUME NEW f \in Dirs, NEW n \in BlocksOf(f), n < size'[f] PROVE disk'[f][n] # Hole
      BY DEF DirsOK
    <3>1. f \in Files
      BY PageCacheAssumption
    <3>2. CASE n < size[f]
      BY <3>2, <1>13 DEF DirsOK
    <3>3. CASE ~(n < size[f])
      <4>1. f = f0 /\ n < end /\ n \in Nat
        BY <3>1, <3>3, <2>3, <1>14, <1>15
      <4>2. op.call = "grow"
        BY <4>1, <1>11, <1>19
      <4>3. op.from = size[f0] /\ op.to = op.from + 1 /\ op.from \div PerPage = k[2]
        BY <4>2, <1>4 DEF OpOK, RangeOK
      <4>4. n = op.from
        BY <4>1, <4>3, <3>3, <1>10, <1>15, <1>5
      <4>5. n \in C
        BY <4>3, <4>4, <1>10 DEF Chunk
      <4> QED BY <4>1, <4>5, <1>12
    <3> QED BY <3>2, <3>3
  <2> QED BY <2>1, <2>3, <2>4, <2>5, <1>17
<1>20. CASE op.call \in {"slot", "delete"}
  <2>1. op' = Idle /\ size' = size
    BY <1>3, <1>20 DEF FlushWith
  <2>2. op.to <= size[f0]
    BY <1>4, <1>20 DEF OpOK, RangeOK
  <2>3. TailOK(Idle, may', size)
    <3> SUFFICES ASSUME NEW f \in Files, NEW n \in BlocksOf(f), n >= size[f] PROVE 0 \in may'[f][n]
      BY DEF TailOK
    <3>1. ~(f = f0 /\ n \in C)
      BY <2>2, <1>5, <1>10, <1>14, <1>15
    <3>2. ~Unfinished(op, f, n)
      BY <1>20 DEF Unfinished
    <3>3. 0 \in may[f][n]
      BY <3>2, <1>4 DEF TailOK
    <3> QED BY <3>1, <3>3, <1>7
  <2> QED BY <2>1, <2>3, <1>4, <1>13, <1>17
<1> QED BY <1>6, <1>16, <1>18, <1>19, <1>20
-----------------------------------------------------------------------------
(* The lost references to the pages of a file that is dropped are gone. *)
Unpinned(pn, f) == [k \in Keys |-> IF k[1] = f THEN 0 ELSE pn[k]]

(* Between calls the pages of file f are dropped, and with them the          *)
(* references to them.                                                      *)
LEMMA DropRefs ==
  ASSUME NEW s, Sound(s), NEW pn, PinsOK(pn), RefsOK(s, pn, {}), BoundOK(s, pn),
         NEW f, NEW K, K = FilePages(s, f), NEW t, Removed(s, t, K)
  PROVE  RefsOK(t, Unpinned(pn, f), {}) /\ BoundOK(t, Unpinned(pn, f)) /\ PinsOK(Unpinned(pn, f))
<1> DEFINE pn1 == Unpinned(pn, f)
<1>1. \A k \in Keys : pn[k] \in 0 .. MaxPins /\ pn1[k] = IF k[1] = f THEN 0 ELSE pn[k]
  BY DEF PinsOK, Unpinned
<1>2. PinsOK(pn1)
  <2>1. \A k \in Keys : (IF k[1] = f THEN 0 ELSE pn[k]) \in 0 .. MaxPins
    BY <1>1, Bounds
  <2> QED BY <2>1 DEF PinsOK, Unpinned
<1> HIDE DEF pn1
<1>3. \A k \in Keys : k \in K <=> Cached(s, k) /\ k[1] = f
  BY DEF FilePages, CachedKeys
<1>4. RefsOK(t, pn1, {})
  <2> SUFFICES ASSUME NEW k \in Keys PROVE RefOf(t, k) = pn1[k] + 0
    BY DEF RefsOK
  <2>1. RefOf(s, k) = pn[k] + 0 /\ pn[k] \in Nat
    BY <1>1, Bounds DEF RefsOK
  <2>2. CASE k[1] = f
    <3>1. ~Cached(t, k)
      BY <2>2, <1>3 DEF Removed
    <3> QED BY <3>1, <2>2, <1>1 DEF RefOf
  <2>3. CASE k[1] # f
    <3>1. RefOf(t, k) = RefOf(s, k)
      BY <2>3, <1>3 DEF Removed, RefOf
    <3> QED BY <3>1, <2>1, <2>3, <1>1
  <2> QED BY <2>2, <2>3
<1>5. BoundOK(t, pn1)
  <2> DEFINE A == CachedKeys(s)
             B == CachedKeys(t)
             P == Pinned(pn)
             Q == Pinned(pn1)
  <2>1. A \subseteq Keys /\ B = A \ K /\ K \subseteq A /\ A = B \cup K /\ B \cap K = {}
    BY <1>3 DEF CachedKeys, Removed, FilePages
  <2>2. P \subseteq Q \cup K /\ Q \subseteq Keys
    <3> SUFFICES ASSUME NEW k \in Keys, pn[k] > 0, k[1] = f PROVE k \in K
      BY <1>1 DEF Pinned
    <3>1. RefOf(s, k) = pn[k] + 0 /\ pn[k] \in Nat
      BY <1>1, Bounds DEF RefsOK
    <3>2. Cached(s, k)
      BY <3>1 DEF RefOf
    <3> QED BY <3>2, <1>3
  <2>3. Cardinality(A) <= MaxPages \/ Cardinality(A) <= ReadAhead + Cardinality(P)
    BY DEF BoundOK
  <2> SUFFICES Cardinality(B) <= MaxPages \/ Cardinality(B) <= ReadAhead + Cardinality(Q)
    BY DEF BoundOK
  <2> HIDE DEF A, B, P, Q
  <2>4. IsFiniteSet(A) /\ IsFiniteSet(B) /\ IsFiniteSet(K) /\ IsFiniteSet(Q)
    <3>1. K \subseteq Keys /\ B \subseteq Keys
      BY <2>1
    <3> QED BY <3>1, <2>1, <2>2, KeysFinite, FS_Subset
  <2>5. Cardinality(A) \in Nat /\ Cardinality(B) \in Nat /\ Cardinality(K) \in Nat /\ Cardinality(Q) \in Nat
    BY <2>4, FS_CardinalityType
  <2>6. Cardinality(B \cup K) = Cardinality(B) + Cardinality(K) - Cardinality(B \cap K)
    BY <2>4, FS_Union
  <2>7. Cardinality(A) = Cardinality(B) + Cardinality(K)
    <3>1. Cardinality(B \cap K) = 0
      BY <2>1, FS_EmptySet
    <3>2. Cardinality(A) = Cardinality(B \cup K)
      BY <2>1
    <3> QED BY <3>1, <3>2, <2>5, <2>6
  <2>8. Cardinality(P) <= Cardinality(Q) + Cardinality(K) /\ Cardinality(P) \in Nat
    <3>1. IsFiniteSet(Q \cup K) /\ Cardinality(Q \cup K) = Cardinality(Q) + Cardinality(K) - Cardinality(Q \cap K)
      BY <2>4, FS_Union
    <3>2. Q \cap K \subseteq K /\ IsFiniteSet(Q \cap K) /\ Cardinality(Q \cap K) \in Nat
      BY <2>4, FS_Subset, FS_CardinalityType
    <3>3. Cardinality(P) <= Cardinality(Q \cup K) /\ IsFiniteSet(P)
      BY <3>1, <2>2, FS_Subset
    <3>4. Cardinality(P) \in Nat
      BY <3>3, FS_CardinalityType
    <3> DEFINE cp == Cardinality(P)
               cu == Cardinality(Q \cup K)
               cn == Cardinality(Q \cap K)
    <3>5. cp <= cu /\ cu = Cardinality(Q) + Cardinality(K) - cn /\ cn \in Nat /\ cp \in Nat
      BY <3>1, <3>2, <3>3, <3>4
    <3> HIDE DEF cp, cu, cn
    <3>6. cp <= Cardinality(Q) + Cardinality(K)
      BY <3>5, <2>5
    <3> QED BY <3>6, <3>4 DEF cp
  <2> QED BY <2>3, <2>5, <2>7, <2>8, Bounds
<1> QED BY <1>2, <1>4, <1>5 DEF pn1

(* The pages of an inode are evicted. *)
LEMMA EvictInodeStep == ASSUME InvOf(op), NEW f \in Files, EvictInode(f) PROVE InvOf(op)'
<1> DEFINE K == OfFile(f)
<1>1. op.at = "idle" /\ UNCHANGED <<size, op, may>> /\ pins' = Unpinned(pins, f)
  BY DEF EvictInode, Unpinned
<1>2. PICK g \in Landings(lru, K) : Released(lru, nrpages, K, g)
  BY DEF EvictInode
<1>3. /\ CacheOK(lru, disk, may, nrpages, pins, HeldBy(op)) /\ Store(lru, disk, may) /\ Sound(lru)
      /\ SizeOK(size) /\ PinsOK(pins) /\ FaultsOK(faults) /\ OpOK(op, size, disk)
      /\ TailOK(op, may, size) /\ DirsOK(disk, size)
  BY Before
<1>4. op = Idle
  BY <1>1, <1>3, NotCalled
<1>5. CountsOK(lru, nrpages) /\ RefsOK(lru, pins, {}) /\ BoundOK(lru, pins)
  BY <1>3, <1>4, IdleFacts DEF CacheOK
<1>6. K = FilePages(lru, f) /\ K \in SUBSET CachedKeys(lru)
  BY <1>3, OfFileIs DEF FilePages
<1> HIDE DEF K
<1>7. /\ lru' = Without(lru, K) /\ disk' = Stored(lru, g) /\ nrpages' = Dropped(nrpages, K)
      /\ Faulty(Cardinality(Failed(lru, g)))
  BY <1>2 DEF Released, Dropped
<1>8. /\ Store(lru', disk', may) /\ Removed(lru, lru', K) /\ Lands(disk, disk', may)
      /\ CountsOK(lru', nrpages') /\ Cardinality(Failed(lru, g)) \in Nat
  BY <1>2, <1>3, <1>5, <1>6, <1>7, ReleaseStep
<1>9. RefsOK(lru', pins', {}) /\ BoundOK(lru', pins') /\ PinsOK(pins')
  BY <1>1, <1>3, <1>5, <1>6, <1>8, DropRefs
<1>10. FaultsOK(faults')
  BY <1>3, <1>7, <1>8, Bounds DEF Faulty, FaultsOK
<1>11. DirsOK(disk', size)
  BY <1>3, <1>8, LandsDirs
<1>12. CacheOK(lru', disk', may, nrpages', pins', {})
  BY <1>8, <1>9 DEF CacheOK
<1>13. op' = Idle /\ TailOK(Idle, may, size)
  BY <1>1, <1>3, <1>4
<1> QED BY <1>1, <1>3, <1>9, <1>10, <1>11, <1>12, <1>13, IdleFacts, After

(* The blocks of an unlinked file are freed. *)
LEMMA FreeBlocksStep == ASSUME InvOf(op), NEW f \in Files \ Dirs, FreeBlocks(f) PROVE InvOf(op)'
<1> DEFINE K == OfFile(f)
<1>1. /\ op.at = "idle" /\ UNCHANGED <<op, faults>> /\ pins' = Unpinned(pins, f)
      /\ lru' = Without(lru, K) /\ nrpages' = [nrpages EXCEPT ![f] = 0]
      /\ disk' = [disk EXCEPT ![f] = [n \in BlocksOf(f) |-> Hole]]
      /\ size' = [size EXCEPT ![f] = 0]
      /\ may' = [may EXCEPT ![f] = [n \in BlocksOf(f) |-> {0}]]
  BY DEF FreeBlocks, Unpinned
<1>2. /\ CacheOK(lru, disk, may, nrpages, pins, HeldBy(op)) /\ Store(lru, disk, may) /\ Sound(lru)
      /\ SizeOK(size) /\ PinsOK(pins) /\ FaultsOK(faults) /\ OpOK(op, size, disk)
      /\ TailOK(op, may, size) /\ DirsOK(disk, size)
  BY Before
<1>3. op = Idle
  BY <1>1, <1>2, NotCalled
<1>4. CountsOK(lru, nrpages) /\ RefsOK(lru, pins, {}) /\ BoundOK(lru, pins)
  BY <1>2, <1>3, IdleFacts DEF CacheOK
<1>5. K = FilePages(lru, f)
  BY <1>2, OfFileIs DEF FilePages
<1> HIDE DEF K
<1>6. Removed(lru, lru', K)
  BY <1>1, <1>2, WithoutFacts
<1>7. RefsOK(lru', pins', {}) /\ BoundOK(lru', pins') /\ PinsOK(pins')
  BY <1>1, <1>2, <1>4, <1>5, <1>6, DropRefs
<1>8. \A k \in Keys : Cached(lru', k) <=> Cached(lru, k) /\ k[1] # f
  BY <1>5, <1>6 DEF Removed, FilePages, CachedKeys
<1>9. CountsOK(lru', nrpages')
  <2>1. \A x \in Files : nrpages[x] = Cardinality(FilePages(lru, x)) /\ DOMAIN nrpages = Files
    BY <1>4 DEF CountsOK
  <2>2. FilePages(lru', f) = {}
    BY <1>8 DEF FilePages, CachedKeys
  <2>3. ASSUME NEW x \in Files, x # f PROVE FilePages(lru', x) = FilePages(lru, x)
    BY <1>8, <2>3 DEF FilePages, CachedKeys
  <2>4. DOMAIN nrpages' = Files /\ \A x \in Files : nrpages'[x] = IF x = f THEN 0 ELSE nrpages[x]
    BY <1>1, <2>1
  <2>5. \A x \in Files : nrpages'[x] = Cardinality(FilePages(lru', x))
    BY <2>1, <2>2, <2>3, <2>4, FS_EmptySet
  <2>6. nrpages' = [x \in DOMAIN nrpages' |-> nrpages'[x]]
    BY <1>1
  <2> QED BY <2>4, <2>5, <2>6 DEF CountsOK
<1>10. DiskType(disk) /\ MayType(may) /\ GoodDisk(disk, may) /\ GoodList(lru, may)
  BY <1>2, StoreIs
<1>11. /\ DOMAIN disk' = Files /\ disk'[f] = [n \in BlocksOf(f) |-> Hole]
       /\ \A x \in Files : x # f => disk'[x] = disk[x]
  BY <1>1, <1>10 DEF DiskType
<1>12. /\ DOMAIN may' = Files /\ may'[f] = [n \in BlocksOf(f) |-> {0}]
       /\ \A x \in Files : x # f => may'[x] = may[x]
  BY <1>1, <1>10 DEF MayType
<1>13. DiskType(disk')
  BY <1>10, <1>11 DEF DiskType
<1>14. MayType(may')
  <2>1. [n \in BlocksOf(f) |-> {0}] \in [BlocksOf(f) -> SUBSET (Values \cup {Junk})]
    BY Bounds
  <2> QED BY <2>1, <1>10, <1>12 DEF MayType
<1>15. GoodDisk(disk', may')
  <2> SUFFICES ASSUME NEW x \in Files, NEW n \in BlocksOf(x) PROVE GoodBlock(disk', may', x, n)
    BY DEF GoodDisk
  <2>1. CASE x = f
    BY <2>1, <1>11, <1>12 DEF GoodBlock
  <2>2. CASE x # f
    BY <2>2, <1>10, <1>11, <1>12 DEF GoodDisk, GoodBlock
  <2> QED BY <2>1, <2>2
<1>16. GoodList(lru', may')
  <2> SUFFICES ASSUME NEW k \in Keys, Cached(lru', k)
               PROVE  /\ PageAt(lru', k).dirty => PageAt(lru', k).upt
                      /\ PageAt(lru', k).upt => GoodPage(PageAt(lru', k), may')
    BY DEF GoodList
  <2>1. Cached(lru, k) /\ k[1] # f /\ PageAt(lru', k) = PageAt(lru, k) /\ k[1] \in Files
    BY <1>6, <1>8, KeyFacts DEF Removed
  <2>2. PageAt(lru, k).key = k
    BY <2>1, <1>2, CachedPage
  <2>3. may'[k[1]] = may[k[1]]
    BY <2>1, <1>12
  <2> QED BY <2>1, <2>2, <2>3, <1>10 DEF GoodList, GoodPage
<1>17. Store(lru', disk', may')
  BY <1>6, <1>13, <1>14, <1>15, <1>16, StoreIs DEF Removed
<1>18. size' \in [Files -> Nat] /\ \A x \in Files : size'[x] = IF x = f THEN 0 ELSE size[x]
  BY <1>1, <1>2 DEF SizeOK
<1>19. SizeOK(size')
  BY <1>2, <1>18, Bounds DEF SizeOK
<1>20. TailOK(Idle, may', size')
  <2> SUFFICES ASSUME NEW x \in Files, NEW n \in BlocksOf(x), n >= size'[x] PROVE 0 \in may'[x][n]
    BY DEF TailOK
  <2>1. CASE x = f
    BY <2>1, <1>12
  <2>2. CASE x # f
    <3>1. 0 \in may[x][n]
      BY <2>2, <1>2, <1>3, <1>18, IdleFacts DEF TailOK
    <3> QED BY <2>2, <3>1, <1>12
  <2> QED BY <2>1, <2>2
<1>21. DirsOK(disk', size')
  BY <1>2, <1>11, <1>18, PageCacheAssumption DEF DirsOK
<1>22. CacheOK(lru', disk', may', nrpages', pins', {})
  BY <1>7, <1>9, <1>17 DEF CacheOK
<1>23. op' = Idle /\ FaultsOK(faults')
  BY <1>1, <1>2, <1>3
<1> QED BY <1>7, <1>19, <1>20, <1>21, <1>22, <1>23, IdleFacts, After

(* Some pages get good data where they stand. *)
Renewed(s, t, m) ==
  /\ t \in Seq(Page) /\ DOMAIN t = DOMAIN s
  /\ \A j \in DOMAIN s : /\ t[j].key = s[j].key /\ t[j].ref = s[j].ref
                         /\ t[j] = s[j] \/ (t[j].upt /\ GoodPage(t[j], m))

(* The cache stays in order. *)
LEMMA RenewedCache ==
  ASSUME NEW s, NEW d, NEW m, NEW nr, NEW pn, NEW H, CacheOK(s, d, m, nr, pn, H),
         NEW t, Renewed(s, t, m)
  PROVE  CacheOK(t, d, m, nr, pn, H)
<1>1. Store(s, d, m) /\ CountsOK(s, nr) /\ RefsOK(s, pn, H) /\ BoundOK(s, pn)
  BY DEF CacheOK
<1>2. Sound(s) /\ DiskType(d) /\ MayType(m) /\ GoodDisk(d, m) /\ GoodList(s, m)
  BY <1>1, StoreIs
<1>3. /\ t \in Seq(Page) /\ DOMAIN t = DOMAIN s
      /\ \A j \in DOMAIN s : t[j].key = s[j].key /\ t[j].ref = s[j].ref
  BY DEF Renewed
<1>4. /\ Sound(t) /\ \A k : Cached(t, k) <=> Cached(s, k)
      /\ \A j \in DOMAIN s : PageAt(t, s[j].key) = t[j]
  BY <1>2, <1>3, InPlace
<1>5. ASSUME NEW k, Cached(s, k)
      PROVE  \E j \in DOMAIN s : PageAt(s, k) = s[j] /\ PageAt(t, k) = t[j]
  BY <1>2, <1>4, <1>5, CachedPage
<1>6. GoodList(t, m)
  <2> SUFFICES ASSUME NEW k \in Keys, Cached(t, k)
               PROVE  /\ PageAt(t, k).dirty => PageAt(t, k).upt
                      /\ PageAt(t, k).upt => GoodPage(PageAt(t, k), m)
    BY DEF GoodList
  <2>1. Cached(s, k)
    BY <1>4
  <2>2. PICK j \in DOMAIN s : PageAt(s, k) = s[j] /\ PageAt(t, k) = t[j]
    BY <2>1, <1>5
  <2>3. t[j] = s[j] \/ (t[j].upt /\ GoodPage(t[j], m))
    BY DEF Renewed
  <2> QED BY <2>1, <2>2, <2>3, <1>2 DEF GoodList
<1>7. CachedKeys(t) = CachedKeys(s)
  BY <1>4 DEF CachedKeys
<1>8. \A k : RefOf(t, k) = RefOf(s, k)
  BY <1>3, <1>4, <1>5 DEF RefOf
<1>9. Store(t, d, m) /\ RefsOK(t, pn, H)
  BY <1>1, <1>2, <1>4, <1>6, <1>8, StoreIs DEF RefsOK
<1> QED BY <1>1, <1>7, <1>9, SameKeys DEF CacheOK

(* The write-back of a page fails before anything is freed. *)
LEMMA FreeBlocksFailsStep ==
  ASSUME InvOf(op), NEW f \in Files, FreeBlocksFails(f) PROVE InvOf(op)'
<1>1. op.at = "idle" /\ Faulty(1) /\ UNCHANGED <<nrpages, size, op, may, pins>>
  BY DEF FreeBlocksFails
<1>2. /\ CacheOK(lru, disk, may, nrpages, pins, HeldBy(op)) /\ Store(lru, disk, may) /\ Sound(lru)
      /\ SizeOK(size) /\ PinsOK(pins) /\ FaultsOK(faults) /\ OpOK(op, size, disk)
      /\ TailOK(op, may, size) /\ DirsOK(disk, size)
  BY Before
<1>3. op = Idle
  BY <1>1, <1>2, NotCalled
<1>4. PICK bad \in DOMAIN lru :
        /\ lru[bad].dirty
        /\ \E part \in SUBSET ToWrite(lru[bad]) :
             LET before == {k \in DirtyIn(lru, OfFile(f)) : \E j \in 1 .. bad - 1 : lru[j].key = k}
                 g == [k \in before \cup {lru[bad].key} |->
                         IF k \in before THEN ToWrite(PageAt(lru, k)) ELSE part]
             IN /\ disk' = Stored(lru, g)
                /\ lru' = [j \in DOMAIN lru |->
                             IF lru[j].key \in before
                             THEN [lru[j] EXCEPT !.dirty = FALSE, !.mask = {}, !.upt = TRUE]
                             ELSE lru[j]]
  BY DEF FreeBlocksFails
<1> DEFINE before == {k \in DirtyIn(lru, OfFile(f)) : \E j \in 1 .. bad - 1 : lru[j].key = k}
<1>5. PICK part \in SUBSET ToWrite(lru[bad]) :
        /\ disk' = Stored(lru, [k \in before \cup {lru[bad].key} |->
                                  IF k \in before THEN ToWrite(PageAt(lru, k)) ELSE part])
        /\ lru' = [j \in DOMAIN lru |->
                     IF lru[j].key \in before
                     THEN [lru[j] EXCEPT !.dirty = FALSE, !.mask = {}, !.upt = TRUE]
                     ELSE lru[j]]
  BY <1>4
<1>6. \A k \in before : Cached(lru, k) /\ PageAt(lru, k).dirty /\ k \in Keys
  BY <1>2, OfFileIs DEF DirtyIn, CachedKeys
<1> DEFINE g == [k \in before \cup {lru[bad].key} |->
                   IF k \in before THEN ToWrite(PageAt(lru, k)) ELSE part]
<1>7. disk' = Stored(lru, g)
  BY <1>5
<1> HIDE DEF before
<1>8. Landing(lru, g)
  <2>1. Cached(lru, lru[bad].key) /\ PageAt(lru, lru[bad].key) = lru[bad] /\ lru[bad].dirty
    BY <1>2, <1>4, PageIs
  <2> SUFFICES ASSUME NEW k \in before \cup {lru[bad].key}
               PROVE  Cached(lru, k) /\ PageAt(lru, k).dirty /\ g[k] \subseteq ToWrite(PageAt(lru, k))
    BY DEF Landing
  <2>2. g[k] = IF k \in before THEN ToWrite(PageAt(lru, k)) ELSE part
    OBVIOUS
  <2>3. k \notin before => k = lru[bad].key
    OBVIOUS
  <2> HIDE DEF g
  <2> QED BY <2>1, <2>2, <2>3, <1>5, <1>6
<1> HIDE DEF g
<1>9. Lands(disk, disk', may)
  BY <1>2, <1>7, <1>8, StoredFacts
<1>10. Weaker(lru, lru)
  BY DEF Weaker, SameData
<1>11. CacheOK(lru, disk', may, nrpages, pins, {})
  <2>1. Store(lru, disk', may)
    BY <1>2, <1>9, <1>10, StoreStep
  <2> QED BY <2>1, <1>2, <1>3, IdleFacts DEF CacheOK
<1>12. Renewed(lru, lru', may)
  <2>1. lru \in Seq(Page) /\ \A j \in DOMAIN lru : lru[j] \in Page
    BY <1>2 DEF Sound
  <2>2. GoodList(lru, may)
    BY <1>2, StoreIs
  <2>3. ASSUME NEW j \in DOMAIN lru
        PROVE  /\ lru'[j] \in Page /\ lru'[j].key = lru[j].key /\ lru'[j].ref = lru[j].ref
               /\ lru'[j] = lru[j] \/ (lru'[j].upt /\ GoodPage(lru'[j], may))
    <3>1. CASE lru[j].key \notin before
      <4>1. lru'[j] = lru[j]
        BY <3>1, <1>5
      <4> QED BY <4>1, <2>1
    <3>2. CASE lru[j].key \in before
      <4> DEFINE p == lru[j]
                 q == [p EXCEPT !.dirty = FALSE, !.mask = {}, !.upt = TRUE]
      <4>1. lru'[j] = q /\ p \in Page
        BY <3>2, <1>5, <2>1
      <4>2. PageAt(lru, p.key) = p
        BY <1>2, PageIs
      <4>3. Cached(lru, p.key) /\ p.key \in Keys /\ p.dirty
        BY <3>2, <4>2, <1>6
      <4>4. GoodPage(p, may)
        BY <4>2, <4>3, <2>2 DEF GoodList
      <4> HIDE DEF p
      <4>5. q \in Page /\ q.key = p.key /\ q.ref = p.ref /\ q.upt /\ q.data = p.data
        BY <4>1 DEF Page
      <4> HIDE DEF q
      <4>6. GoodPage(q, may)
        BY <4>4, <4>5 DEF GoodPage
      <4> QED BY <4>1, <4>5, <4>6 DEF p
    <3> QED BY <3>1, <3>2
  <2>4. DOMAIN lru' = DOMAIN lru /\ lru' = [j \in DOMAIN lru |-> lru'[j]]
    BY <1>5
  <2>5. Len(lru) \in Nat /\ DOMAIN lru = 1 .. Len(lru)
    BY <2>1
  <2>6. lru' \in Seq(Page)
    BY <2>3, <2>4, <2>5
  <2> QED BY <2>3, <2>4, <2>6 DEF Renewed
<1>13. CacheOK(lru', disk', may, nrpages, pins, {})
  BY <1>11, <1>12, RenewedCache
<1>14. FaultsOK(faults')
  BY <1>1, <1>2, Bounds DEF Faulty, FaultsOK
<1>15. DirsOK(disk', size)
  BY <1>2, <1>9, LandsDirs
<1>16. op' = Idle /\ TailOK(Idle, may, size)
  BY <1>1, <1>2, <1>3
<1> QED BY <1>1, <1>2, <1>13, <1>14, <1>15, <1>16, IdleFacts, After
-----------------------------------------------------------------------------
(* Nothing is cached, and a directory has the block mkdir gave it. *)
LEMMA InitIInv == Init => IInv
<1> SUFFICES ASSUME Init PROVE InvOf(op)
  BY DEF IInv
<1>1. /\ lru = <<>> /\ nrpages = [f \in Files |-> 0] /\ op = Idle /\ faults = 0
      /\ pins = [k \in Keys |-> 0] /\ size = [f \in Files |-> IF f \in Dirs THEN 1 ELSE 0]
  BY DEF Init
<1>2. /\ DOMAIN disk = Files /\ DOMAIN may = Files
      /\ \A f \in Files : disk[f] = [n \in BlocksOf(f) |-> IF f \in Dirs /\ n = 0 THEN 1 ELSE Hole]
      /\ \A f \in Files : may[f] = [n \in BlocksOf(f) |-> IF f \in Dirs /\ n = 0 THEN {1} ELSE {0}]
  BY DEF Init
<1>2a. ASSUME NEW f \in Files, NEW n \in BlocksOf(f)
       PROVE  /\ disk[f][n] = IF f \in Dirs /\ n = 0 THEN 1 ELSE Hole
              /\ may[f][n] = IF f \in Dirs /\ n = 0 THEN {1} ELSE {0}
  <2>1. disk[f] = [x \in BlocksOf(f) |-> IF f \in Dirs /\ x = 0 THEN 1 ELSE Hole]
    BY <1>2
  <2>2. may[f] = [x \in BlocksOf(f) |-> IF f \in Dirs /\ x = 0 THEN {1} ELSE {0}]
    BY <1>2
  <2>3. disk[f][n] = IF f \in Dirs /\ n = 0 THEN 1 ELSE Hole
    BY <2>1
  <2>4. may[f][n] = IF f \in Dirs /\ n = 0 THEN {1} ELSE {0}
    BY <2>2
  <2> QED BY <2>3, <2>4
<1>3. DiskType(disk) /\ MayType(may)
  <2>1. ASSUME NEW f \in Files
        PROVE  [n \in BlocksOf(f) |-> IF f \in Dirs /\ n = 0 THEN 1 ELSE Hole] \in [BlocksOf(f) -> Values \cup {Hole, Junk}]
    BY Bounds
  <2>2. ASSUME NEW f \in Files
        PROVE  [n \in BlocksOf(f) |-> IF f \in Dirs /\ n = 0 THEN {1} ELSE {0}] \in [BlocksOf(f) -> SUBSET (Values \cup {Junk})]
    BY Bounds
  <2> QED BY <2>1, <2>2, <1>2 DEF DiskType, MayType
<1>4. GoodDisk(disk, may)
  <2> SUFFICES ASSUME NEW f \in Files, NEW n \in BlocksOf(f) PROVE GoodBlock(disk, may, f, n)
    BY DEF GoodDisk
  <2>1. /\ disk[f][n] = IF f \in Dirs /\ n = 0 THEN 1 ELSE Hole
        /\ may[f][n] = IF f \in Dirs /\ n = 0 THEN {1} ELSE {0}
    BY <1>2a
  <2>2. 1 # Hole
    BY Bounds
  <2> QED BY <2>1, <2>2 DEF GoodBlock
<1>5. Sound(lru) /\ \A k : ~Cached(lru, k)
  BY <1>1 DEF Sound, Cached
<1>6. Store(lru, disk, may)
  BY <1>3, <1>4, <1>5, StoreIs DEF GoodList
<1>7. CachedKeys(lru) = {} /\ \A f \in Files : FilePages(lru, f) = {}
  BY <1>5 DEF CachedKeys, FilePages
<1>8. CountsOK(lru, nrpages) /\ BoundOK(lru, pins)
  <2>1. Cardinality({}) = 0 /\ 0 <= MaxPages
    BY FS_EmptySet, Bounds
  <2>2. \A f \in Files : Cardinality(FilePages(lru, f)) = 0
    BY <1>7, <2>1
  <2> QED BY <2>1, <2>2, <1>1, <1>7 DEF CountsOK, BoundOK
<1>9. RefsOK(lru, pins, {})
  BY <1>1, <1>5 DEF RefsOK, RefOf
<1>10. SizeOK(size)
  BY <1>1, Bounds DEF SizeOK
<1>11. PinsOK(pins) /\ FaultsOK(faults)
  BY <1>1, Bounds DEF PinsOK, FaultsOK
<1>12. TailOK(Idle, may, size)
  <2> SUFFICES ASSUME NEW f \in Files, NEW n \in BlocksOf(f), n >= size[f] PROVE 0 \in may[f][n]
    BY DEF TailOK
  <2>1. /\ may[f][n] = IF f \in Dirs /\ n = 0 THEN {1} ELSE {0}
        /\ size[f] = IF f \in Dirs THEN 1 ELSE 0
    BY <1>1, <1>2a
  <2> QED BY <2>1
<1>13. DirsOK(disk, size)
  <2> SUFFICES ASSUME NEW f \in Dirs, NEW n \in BlocksOf(f), n < size[f] PROVE disk[f][n] # Hole
    BY DEF DirsOK
  <2>1. f \in Files /\ n \in Nat
    BY BlockKey, PageCacheAssumption
  <2>2. n = 0
    BY <2>1, <1>1
  <2> QED BY <2>1, <2>2, <1>2, Bounds
<1> QED BY <1>1, <1>6, <1>8, <1>9, <1>10, <1>11, <1>12, <1>13, IdleFacts DEF InvOf

(* Every step keeps the invariant. *)
LEMMA NextIInv == IInv /\ [Next]_vars => IInv'
<1> SUFFICES ASSUME InvOf(op), [Next]_vars PROVE InvOf(op)'
  BY DEF IInv
<1>1. CASE UNCHANGED vars
  <2>1. /\ CacheOK(lru, disk, may, nrpages, pins, HeldBy(op)) /\ SizeOK(size) /\ PinsOK(pins)
        /\ FaultsOK(faults) /\ OpOK(op, size, disk) /\ DirtyOK(op, lru)
        /\ TailOK(op, may, size) /\ DirsOK(disk, size)
    BY Before
  <2>2. UNCHANGED <<lru, nrpages, disk, size, op, may, pins, faults>>
    BY <1>1 DEF vars
  <2> QED BY <2>1, <2>2, After
<1>2. ASSUME NEW c \in Pending, Prepare(c) \/ PrepareFails(c) \/ Grab(c) \/ GrabFails(c)
      PROVE  InvOf(op)'
  <2>1. InvOf(c)
    BY PendingFacts
  <2> QED BY <1>2, <2>1, PrepareStep, PrepareFailsStep, GrabStep, GrabFailsStep
<1>3. CASE Ahead \/ AheadEnds \/ ReadIn
  BY <1>3, AheadStep, AheadEndsStep, ReadInStep
<1>4. CASE Fill \/ FillFails \/ Leave \/ LookupMisses \/ DeleteMisses
  BY <1>4, FillStep, FillFailsStep, LeaveStep, LookupMissesStep, DeleteMissesStep
<1>5. CASE Modify \/ Flush
  BY <1>5, ModifyStep, FlushStep
<1>6. ASSUME NEW f \in Files, EvictInode(f) PROVE InvOf(op)'
  BY <1>6, EvictInodeStep
<1>7. ASSUME NEW f \in Files \ Dirs, FreeBlocks(f) \/ FreeBlocksFails(f) PROVE InvOf(op)'
  BY <1>7, FreeBlocksStep, FreeBlocksFailsStep
<1> QED BY <1>1, <1>2, <1>3, <1>4, <1>5, <1>6, <1>7 DEF Next

(* The invariant holds throughout. *)
LEMMA Invariance == Spec => []IInv
BY InitIInv, NextIInv, PTL DEF Spec
-----------------------------------------------------------------------------
(* A call holds a page at most once, and holds the pages of HeldBy. *)
LEMMA HeldCount ==
  ASSUME IInv, NEW k \in Keys
  PROVE  Cardinality({j \in DOMAIN op.held : op.held[j] = k}) = IF k \in HeldBy(op) THEN 1 ELSE 0
<1> DEFINE h == op.held
           J == {j \in DOMAIN op.held : op.held[j] = k}
<1>1. InvOf(op) /\ OpOK(op, size, disk)
  BY Before DEF IInv
<1>2. h \in Seq(Keys) /\ \A i, j \in 1 .. Len(h) : h[i] = h[j] => i = j
  <2>1. CASE op.at \in {"ahead", "readin"}
    BY <2>1, <1>1, WindowFacts
  <2>2. CASE op.at \notin {"ahead", "readin"}
    <3>1. op \in OpType /\ HeldOK(op)
      BY <1>1 DEF OpOK
    <3>2. h \in Seq(Keys) /\ (h = <<>> \/ h = <<op.key>>)
      BY <2>2, <3>1 DEF OpType, HeldOK
    <3>3. Len(h) = 0 \/ Len(h) = 1
      <4>1. CASE h = <<>>
        BY <4>1
      <4>2. CASE h = <<op.key>>
        BY <4>2
      <4> QED BY <3>2, <4>1, <4>2
    <3> QED BY <3>2, <3>3
  <2> QED BY <2>1, <2>2
<1>3. DOMAIN h = 1 .. Len(h)
  BY <1>2
<1>4. CASE k \in HeldBy(op)
  <2>1. PICK a \in 1 .. Len(h) : h[a] = k
    BY <1>4 DEF HeldBy
  <2>2. J = {a}
    BY <2>1, <1>2, <1>3
  <2>3. Cardinality({a}) = 1
    BY FS_Singleton
  <2> QED BY <2>2, <2>3, <1>4
<1>5. CASE k \notin HeldBy(op)
  <2>1. J = {}
    BY <1>3, <1>5 DEF HeldBy
  <2> QED BY <2>1, <1>5, FS_EmptySet
<1> QED BY <1>4, <1>5

(* The types and bounds of the cache. *)
LEMMA TypeIs == IInv => TypeOK
<1> SUFFICES ASSUME IInv PROVE TypeOK
  OBVIOUS
<1>1. InvOf(op)
  BY DEF IInv
<1>2. /\ Store(lru, disk, may) /\ Sound(lru) /\ SizeOK(size) /\ PinsOK(pins) /\ FaultsOK(faults)
      /\ CountsOK(lru, nrpages)
  BY <1>1, Before DEF CacheOK
<1>3. lru \in Seq(Page) /\ Len(lru) <= Cardinality(Keys)
  BY <1>2, LenIs DEF Sound
<1>4. ASSUME NEW f \in Files PROVE nrpages[f] \in 0 .. LastPage(f) + 1
  <2>1. nrpages[f] = Cardinality(FilePages(lru, f))
    BY <1>2 DEF CountsOK
  <2>2. FilePages(lru, f) \in SUBSET Keys /\ \A k \in FilePages(lru, f) : k[1] = f
    BY DEF FilePages, CachedKeys
  <2>3. Cardinality(FilePages(lru, f)) \in 0 .. LastPage(f) + 1
    BY <2>2, KeysFinite
  <2> QED BY <2>1, <2>3
<1>5. nrpages \in [Files -> Nat]
  <2>1. nrpages = [f \in Files |-> nrpages[f]]
    BY <1>2 DEF CountsOK
  <2>2. \A f \in Files : nrpages[f] \in Nat
    BY <1>4, LastPageType
  <2> QED BY <2>1, <2>2
<1>6. size \in [Files -> Nat] /\ \A f \in Files : size[f] \in 0 .. Span[f]
  BY <1>2, Bounds DEF SizeOK
<1>7. /\ DOMAIN disk = Files /\ \A f \in Files : disk[f] \in [BlocksOf(f) -> Values \cup {Hole, Junk}]
      /\ DOMAIN may = Files /\ \A f \in Files : may[f] \in [BlocksOf(f) -> SUBSET (Values \cup {Junk})]
  BY <1>2 DEF Store, DiskType, MayType
<1>8. pins \in [Keys -> 0 .. MaxPins] /\ faults \in 0 .. MaxFaults
  BY <1>2 DEF PinsOK, FaultsOK
<1> QED BY <1>3, <1>4, <1>5, <1>6, <1>7, <1>8 DEF TypeOK

(* For any files and limits: a page is in the cache once, mapping->nrpages   *)
(* is the number of a file's pages, a reference count is the number of       *)
(* holders, and a dirty page is uptodate, whatever requests fail and         *)
(* whenever pagecache_get_page reclaims.                                     *)
THEOREM CacheStaysSound == Spec => []CacheIsSound
<1>1. IInv => CacheIsSound
  <2> SUFFICES ASSUME IInv PROVE CacheIsSound
    OBVIOUS
  <2>1. InvOf(op)
    BY DEF IInv
  <2>2. /\ Store(lru, disk, may) /\ Sound(lru) /\ CountsOK(lru, nrpages) /\ DirtyUpt(lru)
        /\ RefsOK(lru, pins, HeldBy(op))
    BY <2>1, Before DEF CacheOK, Store
  <2>3. \A i, j \in DOMAIN lru : lru[i].key = lru[j].key => i = j
    BY <2>2 DEF Sound
  <2>4. ASSUME NEW f \in Files PROVE nrpages[f] = Cardinality(OfFile(f))
    <3>1. OfFile(f) = FilePages(lru, f)
      BY <2>2, OfFileIs DEF FilePages
    <3> QED BY <3>1, <2>2 DEF CountsOK
  <2>5. ASSUME NEW j \in DOMAIN lru, lru[j].dirty PROVE lru[j].upt
    <3>1. lru[j].key \in Keys /\ Cached(lru, lru[j].key) /\ PageAt(lru, lru[j].key) = lru[j]
      BY <2>2, PageIs
    <3> QED BY <3>1, <2>2, <2>5 DEF DirtyUpt
  <2>6. RefsAreHeld
    BY <2>2, HeldCount DEF RefsAreHeld, RefsOK, RefOf
  <2> QED BY <2>3, <2>4, <2>5, <2>6, TypeIs DEF CacheIsSound
<1> QED BY <1>1, Invariance, PTL

(* A block in front of the end of its file, and its page. *)
LEMMA BlockInFile ==
  ASSUME IInv, NEW f \in Files, NEW n \in 0 .. size[f] - 1
  PROVE  /\ n \in BlocksOf(f) /\ <<f, n \div PerPage>> \in Keys /\ n % PerPage \in Slots
         /\ Block(<<f, n \div PerPage>>, n % PerPage) = n
         /\ Content(<<f, n \div PerPage>>, n % PerPage) \in may[f][n]
<1>1. SizeOK(size) /\ Store(lru, disk, may)
  BY Before DEF IInv
<1>2. size[f] \in Nat /\ size[f] <= Span[f] /\ Span[f] \in Nat
  BY <1>1, Bounds DEF SizeOK
<1>3. n \in Nat /\ n < size[f] /\ n < Span[f]
  BY <1>2
<1>4. n \in BlocksOf(f)
  BY <1>3, SpanBlock
<1>5. <<f, n \div PerPage>> \in Keys /\ n % PerPage \in Slots
  BY <1>4, BlockKey
<1> DEFINE k == <<f, n \div PerPage>>
           i == n % PerPage
<1>6. k[1] = f /\ k[2] = n \div PerPage
  OBVIOUS
<1>7. Block(k, i) = n
  BY <1>3, <1>6, Places DEF Block
<1> HIDE DEF k, i
<1>8. Content(k, i) = IF n >= size[f] \/ disk[f][n] = Hole THEN 0 ELSE disk[f][n]
  BY <1>6, <1>7 DEF Content
<1>9. GoodBlock(disk, may, f, n)
  BY <1>1, <1>4, StoreIs DEF GoodDisk
<1>10. Content(k, i) \in may[f][n]
  BY <1>2, <1>3, <1>8, <1>9 DEF GoodBlock
<1> QED BY <1>4, <1>5, <1>7, <1>10 DEF k, i

(* For any files and limits: a read returns the data of the last write that  *)
(* succeeded, or of one that failed since, from the cache or from the        *)
(* device, across read-ahead, reclaim, eviction, growth past holes and the   *)
(* freeing of the file.                                                      *)
THEOREM LastWritesAreRead == Spec => []ReadsReturnWrites
<1>1. IInv => ReadsReturnWrites
  <2> SUFFICES ASSUME IInv, NEW f \in Files, NEW n \in 0 .. size[f] - 1
               PROVE  Visible(f, n) \in may[f][n]
    BY DEF ReadsReturnWrites
  <2> DEFINE k == <<f, n \div PerPage>>
             i == n % PerPage
  <2>1. n \in BlocksOf(f) /\ k \in Keys /\ i \in Slots /\ Block(k, i) = n /\ Content(k, i) \in may[f][n]
    BY BlockInFile
  <2>2. Visible(f, n) = IF Cached(lru, k) /\ PageAt(lru, k).upt THEN PageAt(lru, k).data[i] ELSE Content(k, i)
    BY DEF Visible
  <2>3. Store(lru, disk, may)
    BY Before DEF IInv
  <2>4. BlockOK(lru, disk, may, f, n)
    BY <2>1, <2>3 DEF Store
  <2>5. Cached(lru, k) /\ PageAt(lru, k).upt => PageAt(lru, k).data[i] \in may[f][n]
    BY <2>4 DEF BlockOK
  <2> HIDE DEF k, i
  <2> QED BY <2>1, <2>2, <2>5
<1> QED BY <1>1, Invariance, PTL

(* For any files and limits: reclaim or invalidation may drop any page, and  *)
(* dirty ones whose write-back fails, and what the device then gives is the  *)
(* last write that succeeded or one that failed since.                       *)
THEOREM PagesCanBeDropped == Spec => []DropsAreSafe
<1>1. IInv => DropsAreSafe
  BY BlockInFile DEF DropsAreSafe
<1> QED BY <1>1, Invariance, PTL

(* For any limits: reclaim in pagecache_get_page keeps the cache within      *)
(* PAGECACHE_MAX_PAGES, but for a read-ahead window and the pages whose      *)
(* references were lost.                                                     *)
THEOREM CacheStaysBounded == Spec => []CacheIsBounded
<1>1. IInv => CacheIsBounded
  <2> SUFFICES ASSUME IInv PROVE CacheIsBounded
    OBVIOUS
  <2> DEFINE b == ReadAhead + Cardinality(Pinned(pins))
  <2>1. Sound(lru) /\ BoundOK(lru, pins)
    BY Before DEF IInv, CacheOK
  <2>2. Len(lru) \in Nat /\ Len(lru) = Cardinality(CachedKeys(lru))
    BY <2>1, LenIs
  <2>3. Len(lru) <= MaxPages \/ Len(lru) <= b
    BY <2>1, <2>2 DEF BoundOK
  <2>4. b \in Nat /\ MaxPages \in Nat
    <3>1. Pinned(pins) \subseteq Keys
      BY DEF Pinned
    <3>2. Cardinality(Pinned(pins)) \in Nat
      BY <3>1, KeysFinite, FS_Subset, FS_CardinalityType
    <3> QED BY <3>2, Bounds
  <2>5. CacheIsBounded <=> Len(lru) <= Max({MaxPages, b})
    BY DEF CacheIsBounded, Pinned
  <2> HIDE DEF b
  <2>6. Max({MaxPages, b}) \in Nat /\ Max({MaxPages, b}) >= MaxPages /\ Max({MaxPages, b}) >= b
    BY <2>4, MaxPair
  <2> QED BY <2>2, <2>3, <2>4, <2>5, <2>6
<1> QED BY <1>1, Invariance, PTL
=============================================================================
