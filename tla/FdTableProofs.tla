---------------------------- MODULE FdTableProofs ----------------------------
(***************************************************************************)
(* The descriptor tables and open files of fs/file.c for any number of     *)
(* tasks, tables, files and descriptors: tables are counted exactly and    *)
(* outlive their users, f_count is exact, and a file is released when and  *)
(* only when nothing refers to it.                                         *)
(***************************************************************************)
EXTENDS FdTable, FiniteSetTheorems, WellFoundedInduction, TLAPS

TabType ==
  [live : BOOLEAN, ref : Nat, fd : [Fds -> MaybeFile], open : SUBSET Fds, next : 0 .. NFds]

(* The types; the bounds of ref and released follow from the counts. *)
Types ==
  /\ tab \in [Tables -> TabType]
  /\ count \in [Files -> Nat] /\ released \in [Files -> Nat]
  /\ files \in [Tasks -> Tables \cup {None}]
  /\ call \in [Tasks -> Calls]
  /\ lost \in [Files -> Nat] /\ dropped \subseteq Files /\ made \subseteq Files

(* Which fields a call uses at each of its steps. *)
Putting(c) == c.at \in {"put", "last"}

Shape(c) ==
  /\ c.file # None <=> \/ c.at \in {"alloc", "attach", "steal", "drop"}
                       \/ Putting(c) /\ c.then = "attach"
  /\ c.old # None <=> Putting(c)
  /\ c.table # None <=> \/ c.at \in {"puttable", "dectable", "sweep"}
                        \/ Putting(c) /\ c.then = "sweep"
  /\ Putting(c) => c.then \in {"idle", "attach", "sweep", "cloexec"}
  /\ c.at = "alloc" => c.then \in {"open", "dup"}
  /\ ~Putting(c) /\ c.at # "alloc" => c.then = "idle"

(* An exec from the unsharing of the table to its last close; F: its table. *)
Lone(c, F) ==
  \/ c.at = "cloexec" \/ (Putting(c) /\ c.then = "cloexec")
  \/ c.table # None /\ F # None

(* A call works on the table of a task that has one; an exec is alone on its. *)
CallOK(t) ==
  /\ Shape(call[t])
  /\ call[t].at # "idle" /\ call[t].table = None => files[t] # None
  /\ files[t] # None => files[t] # call[t].table
  /\ Lone(call[t], files[t]) => Users(files[t]) = {t}

(* Slots and bitmap of table T agree, but for a descriptor being attached. *)
SlotsOK(T) ==
  \A i \in Fds :
    /\ tab[T].fd[i] # None => i \in tab[T].open
    /\ i \in tab[T].open /\ tab[T].fd[i] = None =>
         \/ \E t \in Tasks : files[t] = T /\ call[t].at = "attach" /\ call[t].fd = i
         \/ Closing(T) # {}

(* Table T is counted, live while it is used, and closed by its last user. *)
TabOK(T) ==
  /\ ~tab[T].live => tab[T] = Empty
  /\ tab[T].ref = Cardinality(Users(T))
  /\ Users(T) # {} => tab[T].live
  /\ tab[T].live => SlotsOK(T)
  /\ \A t \in Closing(T) : Users(T) = {t}

TInv == Types /\ (\A t \in Tasks : CallOK(t)) /\ \A T \in Tables : TabOK(T)

-----------------------------------------------------------------------------
(* The set of users is finite, and empty when the count is 0. *)
LEMMA UsersFinite ==
  ASSUME NEW T PROVE /\ IsFiniteSet(Users(T)) /\ Cardinality(Users(T)) \in Nat
                     /\ Cardinality(Users(T)) = 0 => Users(T) = {}
                     /\ Cardinality(Users(T)) <= Cardinality(Tasks)
<1>1. Users(T) \in SUBSET Tasks
  BY DEF Users
<1> QED BY <1>1, FdTableAssumption, FS_Subset, FS_CardinalityType, FS_EmptySet

(* A table that is not live is used by nobody. *)
LEMMA UnusedTable ==
  ASSUME TInv, NEW T \in Tables, ~tab[T].live
  PROVE  Users(T) = {} /\ tab[T] = Empty
BY UsersFinite DEF TInv, TabOK, Empty

(* A step of task t that moves no task to another table.  Closers stay      *)
(* closers, and a new one is the table's only user.                        *)
LEMMA OwnStep ==
  ASSUME TInv, Types', NEW t \in Tasks, NEW c \in Calls, Goes(t, c), UNCHANGED files,
         Shape(c), c.at # "idle" => call[t].at # "idle" \/ files[t] # None,
         c.table = call[t].table,
         c.at \in {"sweep", "put", "last"} /\ c.table # None => Users(c.table) = {t},
         Lone(c, files[t]) => Users(files[t]) = {t},
         \A T \in Tables :
           /\ tab'[T].live = tab[T].live /\ tab'[T].ref = tab[T].ref
           /\ ~tab[T].live => tab'[T] = tab[T]
           /\ tab[T].live /\ SlotsOK(T) => SlotsOK(T)'
  PROVE  TInv'
<1>1. /\ call'[t] = c /\ \A u \in Tasks : u # t => call'[u] = call[u]
  BY DEF Goes, TInv, Types
<1>2. \A T : Users(T)' = Users(T)
  BY <1>1 DEF Users
<1>4. ASSUME NEW u \in Tasks PROVE CallOK(u)'
  <2>1. CASE u = t
    BY <1>1, <1>2, <2>1 DEF TInv, CallOK
  <2>2. CASE u # t
    BY <1>1, <1>2, <2>2 DEF TInv, CallOK
  <2> QED BY <2>1, <2>2
<1>5. ASSUME NEW T \in Tables PROVE TabOK(T)'
  <2>1. ASSUME NEW u \in Closing(T)' PROVE Users(T)' = {u}
    <3>1. CASE u = t
      BY <1>1, <1>2, <2>1, <3>1, FdTableAssumption DEF Closing
    <3>2. CASE u # t
      BY <1>1, <1>2, <2>1, <3>2 DEF Closing, TInv, TabOK
    <3> QED BY <3>1, <3>2
  <2>2. TabOK(T)
    BY DEF TInv
  <2> QED BY <1>2, <2>1, <2>2 DEF TabOK
<1> QED BY <1>4, <1>5 DEF TInv

(* A step of one call that leaves tables and tasks alone. *)
LEMMA CallStep ==
  ASSUME TInv, Types', NEW t \in Tasks, NEW c \in Calls, Goes(t, c), UNCHANGED <<tab, files>>,
         Shape(c), c.at # "idle" => call[t].at # "idle" \/ files[t] # None,
         call[t].at # "attach", c.table = call[t].table,
         c.table # None /\ t \in Closing(c.table) => c.at \in {"sweep", "put", "last"},
         c.at \in {"sweep", "put", "last"} /\ c.table # None => Users(c.table) = {t},
         Lone(c, files[t]) => Users(files[t]) = {t}
  PROVE  TInv'
<1>1. /\ call'[t] = c /\ \A u \in Tasks : u # t => call'[u] = call[u]
  BY DEF Goes, TInv, Types
<1>2. ASSUME NEW T \in Tables PROVE Closing(T) \subseteq Closing(T)'
  BY <1>1, FdTableAssumption DEF Closing
<1>3. ASSUME NEW T \in Tables PROVE SlotsOK(T) => SlotsOK(T)'
  BY <1>1, <1>2 DEF SlotsOK
<1> QED BY <1>3, OwnStep

(* What the record at step c holds is of the right types. *)
LEMMA IdleCall == Idle \in Calls /\ Shape(Idle) /\ Idle.table = None
<1>1. 0 \in Fds
  BY FdTableAssumption DEF Fds
<1> QED BY <1>1 DEF Idle, Calls, MaybeFile, Shape, Putting

(* sys_open makes a file. *)
LEMMA OpenStep == ASSUME TInv, NEW t \in Tasks, Open(t) PROVE TInv'
<1>1. PICK f \in Files \ made :
        /\ count' = [count EXCEPT ![f] = 1] /\ made' = made \cup {f}
        /\ Goes(t, [Idle EXCEPT !.at = "alloc", !.file = f, !.then = "open"])
  BY DEF Open
<1> DEFINE c == [Idle EXCEPT !.at = "alloc", !.file = f, !.then = "open"]
<1>2. c \in Calls /\ Shape(c) /\ c.at = "alloc" /\ c.table = None
  BY IdleCall, FdTableAssumption DEF Idle, Calls, MaybeFile, Shape, Putting
<1>3. Types'
  BY <1>1, <1>2 DEF Types, TInv, Open, Goes
<1>4. call[t].at = "idle" /\ call[t].table = None /\ files[t] # None /\ ~Lone(c, files[t])
  BY <1>2 DEF Open, Free, TInv, CallOK, Shape, Lone, Putting
<1>5. Goes(t, c)
  BY <1>1
<1> HIDE DEF c
<1> QED BY <1>2, <1>3, <1>4, <1>5, CallStep DEF Open, Closing

(* A call starts with a reference taken through a slot. *)
LEMMA GetStep ==
  ASSUME TInv, NEW t \in Tasks, NEW i \in Fds, NEW b \in Calls, GetFile(t, i, b),
         b.at \in {"alloc", "steal", "drop"}, b.old = None, b.table = None,
         b.then = IF b.at = "alloc" THEN "dup" ELSE "idle"
  PROVE  TInv'
<1> DEFINE f == Mine(t).fd[i]
           c == [b EXCEPT !.file = f]
<1>1. files[t] \in Tables /\ call[t].at = "idle" /\ f \in Files /\ f # None
  BY FdTableAssumption DEF GetFile, Free, TInv, Types, Mine, InUse, TabType, MaybeFile
<1>2. c \in Calls /\ Shape(c) /\ c.at = b.at /\ c.table = None /\ ~Lone(c, files[t])
  BY <1>1 DEF Calls, MaybeFile, Shape, Putting, Lone
<1>3. Goes(t, c)
  BY DEF GetFile
<1>4. Types'
  BY <1>1, <1>2, <1>3 DEF Types, TInv, GetFile, Goes
<1>5. call[t].table = None
  BY <1>1 DEF TInv, CallOK, Shape, Putting
<1> HIDE DEF c, f
<1> QED BY <1>1, <1>2, <1>3, <1>4, <1>5, FdTableAssumption, CallStep DEF GetFile, Closing

(* dup, fcntl, dup2 and the calls that hold a file. *)
LEMMA DupStep ==
  ASSUME TInv, NEW t \in Tasks, NEW i \in Fds, NEW j \in Fds,
         Dup(t, i, j) \/ Dup2(t, i, j) \/ Hold(t, i)
  PROVE  TInv'
<1>1. CASE Dup(t, i, j)
  <2> DEFINE b == [Idle EXCEPT !.at = "alloc", !.start = j, !.then = "dup"]
  <2>1. b \in Calls /\ b.at = "alloc" /\ b.old = None /\ b.table = None /\ b.then = "dup"
    BY IdleCall DEF Idle, Calls, MaybeFile
  <2>2. GetFile(t, i, b)
    BY <1>1 DEF Dup
  <2> HIDE DEF b
  <2> QED BY <2>1, <2>2, GetStep
<1>2. CASE Dup2(t, i, j)
  <2> DEFINE b == [Idle EXCEPT !.at = "steal", !.fd = j]
  <2>1. b \in Calls /\ b.at = "steal" /\ b.old = None /\ b.table = None /\ b.then = "idle"
    BY IdleCall DEF Idle, Calls, MaybeFile
  <2>2. GetFile(t, i, b)
    BY <1>2 DEF Dup2
  <2> HIDE DEF b
  <2> QED BY <2>1, <2>2, GetStep
<1>3. CASE Hold(t, i)
  <2> DEFINE b == [Idle EXCEPT !.at = "drop"]
  <2>1. b \in Calls /\ b.at = "drop" /\ b.old = None /\ b.table = None /\ b.then = "idle"
    BY IdleCall DEF Idle, Calls, MaybeFile
  <2>2. GetFile(t, i, b)
    BY <1>3 DEF Hold
  <2> HIDE DEF b
  <2> QED BY <2>1, <2>2, GetStep
<1> QED BY <1>1, <1>2, <1>3

(* The table is full. *)
LEMMA AllocFailsStep == ASSUME TInv, NEW t \in Tasks, AllocFails(t) PROVE TInv'
<1>0. /\ call[t] \in Calls /\ Shape(call[t]) /\ call[t].at = "alloc" /\ call[t].table = None
      /\ call[t].file \in Files /\ call[t].file # None
  BY DEF AllocFails, TInv, Types, CallOK, Shape, Putting, Calls, MaybeFile
<1>1. CASE call[t].then = "open"
  <2>1. Types'
    BY <1>0, <1>1, IdleCall DEF Types, TInv, AllocFails, Goes
  <2>2. ~Lone(Idle, files[t]) /\ Idle.at = "idle"
    BY DEF Lone, Idle, Putting
  <2> QED BY <1>0, <1>1, <2>1, <2>2, IdleCall, CallStep DEF AllocFails, Closing
<1>2. CASE call[t].then # "open"
  <2> DEFINE c == [Idle EXCEPT !.at = "drop", !.file = call[t].file]
  <2>1. c \in Calls /\ Shape(c) /\ c.at = "drop" /\ c.table = None
    <3>1. c \in Calls
      BY <1>0, IdleCall DEF Calls, MaybeFile
    <3>2. /\ c.at = "drop" /\ c.file = call[t].file /\ c.old = None /\ c.then = "idle" /\ c.table = None
      BY DEF Idle
    <3> HIDE DEF c
    <3>3. Shape(c)
      BY <1>0, <3>2, FdTableAssumption DEF Shape, Putting
    <3> QED BY <3>1, <3>2, <3>3
  <2>2. Types' /\ Goes(t, c)
    BY <1>0, <1>2, <2>1 DEF Types, TInv, AllocFails, Goes
  <2>3. ~Lone(c, files[t])
    BY <2>1 DEF Lone, Putting
  <2> HIDE DEF c
  <2> QED BY <1>0, <2>1, <2>2, <2>3, CallStep DEF AllocFails, Closing
<1> QED BY <1>1, <1>2

(* put_file of what was in a slot. *)
LEMMA PutStep == ASSUME TInv, NEW t \in Tasks, Put(t) PROVE TInv'
<1> DEFINE c == [call[t] EXCEPT !.at = "last"]
<1>0. /\ call[t] \in Calls /\ Shape(call[t]) /\ call[t].at = "put"
      /\ call[t].old \in Files
  BY DEF Put, TInv, Types, CallOK, Shape, Putting, Calls, MaybeFile
<1>1. c \in Calls /\ Shape(c) /\ c.at = "last" /\ c.table = call[t].table /\ c.then = call[t].then
  BY <1>0 DEF Calls, Shape, Putting
<1>2. Types'
  BY <1>0, <1>1 DEF Types, TInv, Put, Goes
<1>3. Lone(c, files[t]) => Lone(call[t], files[t])
  BY <1>0, <1>1 DEF Lone, Putting
<1>4. c.table # None => t \in Closing(c.table) /\ c.table \in Tables
  BY <1>0, <1>1 DEF Closing, Calls
<1>5. Goes(t, c)
  BY DEF Put
<1> HIDE DEF c
<1> QED BY <1>0, <1>1, <1>2, <1>3, <1>4, <1>5, CallStep DEF Put, TInv, CallOK, TabOK

(* The second look at the count. *)
LEMMA LastStep == ASSUME TInv, NEW t \in Tasks, Last(t) PROVE TInv'
<1> DEFINE c == [call[t] EXCEPT !.at = call[t].then, !.old = None, !.then = "idle"]
<1>0. /\ call[t] \in Calls /\ Shape(call[t]) /\ call[t].at = "last"
      /\ call[t].old \in Files /\ call[t].then \in {"idle", "attach", "sweep", "cloexec"}
  BY DEF Last, TInv, Types, CallOK, Shape, Putting, Calls, MaybeFile
<1>1. /\ c \in Calls /\ Shape(c) /\ c.at = call[t].then /\ c.table = call[t].table
      /\ c.then = "idle" /\ (c.table # None <=> c.at = "sweep")
  BY <1>0 DEF Calls, Shape, Putting, MaybeFile
<1>2. Types'
  BY <1>0, <1>1 DEF Types, TInv, Last, Goes
<1>3. Lone(c, files[t]) => Lone(call[t], files[t])
  BY <1>0, <1>1 DEF Lone, Putting
<1>4. c.table # None => t \in Closing(c.table) /\ c.table \in Tables
  BY <1>0, <1>1 DEF Closing, Calls
<1>5. Goes(t, c)
  BY DEF Last
<1>6. c.table # None => c.at \in {"sweep", "put", "last"}
  BY <1>1
<1> HIDE DEF c
<1> QED BY <1>0, <1>1, <1>2, <1>3, <1>4, <1>5, <1>6, CallStep DEF Last, TInv, CallOK, TabOK

(* fd_put_file. *)
LEMMA DropStep == ASSUME TInv, NEW t \in Tasks, Drop(t) PROVE TInv'
<1>0. /\ call[t] \in Calls /\ Shape(call[t]) /\ call[t].at = "drop" /\ call[t].table = None
      /\ call[t].file \in Files /\ call[t].file # None
  BY DEF Drop, TInv, Types, CallOK, Shape, Putting, Calls, MaybeFile
<1>1. Types'
  BY <1>0, IdleCall DEF Types, TInv, Drop, Goes
<1>2. ~Lone(Idle, files[t]) /\ Idle.at = "idle"
  BY DEF Lone, Idle, Putting
<1> QED BY <1>0, <1>1, <1>2, IdleCall, CallStep DEF Drop, Closing

(* put_files_struct sees one user: it is the caller. *)
LEMMA OnlyUser ==
  ASSUME TInv, NEW T \in Tables, NEW t \in Users(T), tab[T].ref <= 1
  PROVE  Users(T) = {t}
<1>1. tab[T].ref = Cardinality(Users(T)) /\ IsFiniteSet(Users(T)) /\ Cardinality(Users(T)) \in Nat
  BY UsersFinite DEF TInv, TabOK
<1>2. IsFiniteSet(Users(T) \ {t}) /\ Cardinality(Users(T) \ {t}) = Cardinality(Users(T)) - 1
  BY <1>1, FS_RemoveElement
<1>3. Cardinality(Users(T) \ {t}) = 0
  BY <1>1, <1>2, FS_CardinalityType
<1> QED BY <1>2, <1>3, FS_EmptySet

(* put_files_struct looks at the count. *)
LEMMA PutTableStep == ASSUME TInv, NEW t \in Tasks, PutTable(t) PROVE TInv'
<1> DEFINE a == IF tab[call[t].table].ref > 1 THEN "dectable" ELSE "sweep"
           c == [call[t] EXCEPT !.at = a]
<1>0. /\ call[t] \in Calls /\ Shape(call[t]) /\ call[t].at = "puttable"
      /\ call[t].table \in Tables /\ call[t].table # None
  BY DEF PutTable, TInv, Types, CallOK, Shape, Putting, Calls
<1>1. a \in {"dectable", "sweep"} /\ (a = "sweep" => ~(tab[call[t].table].ref > 1))
  OBVIOUS
<1>2. Goes(t, c)
  BY DEF PutTable
<1> HIDE DEF a
<1>3. c \in Calls /\ Shape(c) /\ c.at = a /\ c.table = call[t].table /\ c.then = "idle"
  BY <1>0, <1>1 DEF Calls, Shape, Putting
<1>4. Types'
  BY <1>2, <1>3 DEF Types, TInv, PutTable, Goes
<1>5. Lone(c, files[t]) => Lone(call[t], files[t])
  BY <1>0, <1>1, <1>3 DEF Lone, Putting
<1>6. t \in Users(c.table) /\ tab[c.table].ref \in Nat
  BY <1>0, <1>3 DEF Users, TInv, Types, TabType
<1>7. a = "sweep" => Users(c.table) = {t}
  BY <1>0, <1>1, <1>3, <1>6, OnlyUser
<1>8. t \notin Closing(c.table)
  BY <1>0 DEF Closing
<1> HIDE DEF c
<1> QED BY <1>0, <1>1, <1>2, <1>3, <1>4, <1>5, <1>7, <1>8, CallStep DEF PutTable, TInv, CallOK

-----------------------------------------------------------------------------
(* Steps that change the slots of a table. *)

(* A set of natural numbers has a least one. *)
LEMMA LeastNumber ==
  ASSUME NEW S \in SUBSET Nat, S # {} PROVE Min(S) \in S /\ \A y \in S : Min(S) <= y
<1> DEFINE R == {ss \in Nat \X Nat : ss[1] < ss[2]}
<1>1. R = OpToRel(<, Nat)
  BY DEF OpToRel
<1>2. IsWellFoundedOn(R, Nat)
  BY <1>1, NatLessThanWellFounded
<1>3. PICK x \in S : \A y \in S : <<y, x>> \notin R
  <2> HIDE DEF R
  <2> QED BY <1>2, WFMin
<1>4. \A y \in S : y \in Nat /\ x \in Nat /\ ~(y < x)
  BY <1>3
<1>5. \E z \in S : \A y \in S : z <= y
  BY <1>4
<1> QED BY <1>5 DEF Min

(* The lesser and the greater of two numbers. *)
LEMMA PairBounds ==
  ASSUME NEW a \in Nat, NEW b \in Nat
  PROVE  Min({a, b}) \in {a, b} /\ Min({a, b}) <= a /\ Max({a, b}) \in {a, b}
<1>1. \E z \in {a, b} : \A y \in {a, b} : z <= y
  BY DEF Min
<1>2. \E z \in {a, b} : \A y \in {a, b} : z >= y
  OBVIOUS
<1> QED BY <1>1, <1>2 DEF Min, Max

(* The descriptor __alloc_fd takes is a free one. *)
LEMMA FreeIsAFd ==
  ASSUME NEW T \in TabType, NEW n \in Fds, FreeFds(T, n) # {}
  PROVE  Min(FreeFds(T, n)) \in Fds /\ Min(FreeFds(T, n)) \notin T.open
<1>1. T.next \in Nat /\ n \in Nat /\ NFds \in Nat
  BY FdTableAssumption DEF TabType, Fds
<1>2. Max({n, T.next}) \in Nat
  BY <1>1, PairBounds
<1> DEFINE m == Max({n, T.next})
<1>3. FreeFds(T, n) = {k \in m .. NFds - 1 : k \notin T.open} /\ m \in Nat
  BY <1>2 DEF FreeFds
<1> HIDE DEF m
<1>4. FreeFds(T, n) \in SUBSET Nat /\ FreeFds(T, n) \subseteq Fds
  BY <1>1, <1>3 DEF Fds
<1> QED BY <1>3, <1>4, LeastNumber

(* A table with a descriptor reserved. *)
LEMMA ReservedTable ==
  ASSUME NEW T \in TabType, NEW i \in Fds
  PROVE  /\ Reserved(T, i) \in TabType
         /\ Reserved(T, i).live = T.live /\ Reserved(T, i).ref = T.ref
         /\ Reserved(T, i).open = T.open \cup {i}
         /\ Reserved(T, i).fd = [T.fd EXCEPT ![i] = None]
<1>1. i + 1 \in 0 .. NFds
  BY FdTableAssumption DEF Fds
<1> QED BY <1>1 DEF Reserved, TabType, MaybeFile

(* A table with a descriptor closed. *)
LEMMA VacatedTable ==
  ASSUME NEW T \in TabType, NEW i \in Fds
  PROVE  /\ Vacated(T, i) \in TabType
         /\ Vacated(T, i).live = T.live /\ Vacated(T, i).ref = T.ref
         /\ Vacated(T, i).open = T.open \ {i}
         /\ Vacated(T, i).fd = [T.fd EXCEPT ![i] = None]
<1>1. T.next \in 0 .. NFds /\ i \in 0 .. NFds /\ NFds \in Nat
  BY FdTableAssumption DEF TabType, Fds
<1>2. Min({T.next, i}) \in 0 .. NFds
  BY <1>1, PairBounds
<1> DEFINE m == Min({T.next, i})
<1>3. m \in 0 .. NFds
  BY <1>2
<1>4. Vacated(T, i) = [T EXCEPT !.fd[i] = None, !.open = @ \ {i}, !.next = m]
  BY DEF Vacated
<1> HIDE DEF m
<1>5. T.fd \in [Fds -> MaybeFile] /\ [T.fd EXCEPT ![i] = None] \in [Fds -> MaybeFile]
  BY DEF TabType, MaybeFile
<1>6. Vacated(T, i) = [live |-> T.live, ref |-> T.ref, fd |-> [T.fd EXCEPT ![i] = None],
                       open |-> T.open \ {i}, next |-> m]
  BY <1>4, <1>5 DEF TabType
<1> QED BY <1>3, <1>5, <1>6 DEF TabType

(* __alloc_fd. *)
LEMMA AllocStep == ASSUME TInv, NEW t \in Tasks, Alloc(t) PROVE TInv'
<1> DEFINE F == files[t]
           i == Min(FreeFds(Mine(t), call[t].start))
           c == [Idle EXCEPT !.at = "attach", !.file = call[t].file, !.fd = i]
<1>0. /\ call[t] \in Calls /\ Shape(call[t]) /\ call[t].at = "alloc" /\ call[t].table = None
      /\ call[t].file \in Files /\ call[t].file # None /\ call[t].start \in Fds
      /\ F \in Tables /\ tab[F] \in TabType /\ tab \in [Tables -> TabType]
  BY DEF Alloc, TInv, Types, CallOK, Shape, Putting, Calls, MaybeFile
<1>1. i \in Fds
  BY <1>0, FreeIsAFd DEF Alloc, Mine
<1>2. tab' = [tab EXCEPT ![F] = Reserved(tab[F], i)] /\ Goes(t, c)
  BY <1>0 DEF Alloc
<1> HIDE DEF i
<1>3. c \in Calls /\ Shape(c) /\ c.at = "attach" /\ c.table = None /\ c.fd = i
  <2>1. c \in Calls
    BY <1>0, <1>1, IdleCall DEF Calls, MaybeFile
  <2>2. /\ c.at = "attach" /\ c.file = call[t].file /\ c.old = None /\ c.then = "idle" /\ c.table = None /\ c.fd = i
    BY DEF Idle
  <2> HIDE DEF c
  <2>3. Shape(c)
    BY <1>0, <2>2, FdTableAssumption DEF Shape, Putting
  <2> QED BY <2>1, <2>2, <2>3
<1>4. ~Lone(c, F) /\ t \in Users(F) /\ TabOK(F)
  BY <1>0, <1>3 DEF Lone, Putting, Users, TInv
<1> HIDE DEF c
<1> DEFINE R == Reserved(tab[F], i)
<1>r. /\ R \in TabType /\ R.live = tab[F].live /\ R.ref = tab[F].ref
      /\ R.open = tab[F].open \cup {i} /\ R.fd = [tab[F].fd EXCEPT ![i] = None]
  BY <1>0, <1>1, ReservedTable
<1>s. tab' = [tab EXCEPT ![F] = R]
  BY <1>2
<1> HIDE DEF R
<1>5. Types'
  BY <1>0, <1>s, <1>r, <1>2, <1>3 DEF Types, TInv, Alloc, Goes
<1>6. /\ call'[t] = c /\ \A u \in Tasks : u # t => call'[u] = call[u]
  BY <1>2 DEF Goes, TInv, Types
<1>7. /\ tab'[F] = R /\ \A T \in Tables \ {F} : tab'[T] = tab[T]
      /\ files' = files
  BY <1>0, <1>s DEF Alloc
<1>8. ASSUME NEW T \in Tables, SlotsOK(T) PROVE SlotsOK(T)'
  <2>1. Closing(T) \subseteq Closing(T)'
    BY <1>0, <1>6, FdTableAssumption DEF Closing
  <2>2. CASE T # F
    BY <1>0, <1>6, <1>7, <1>8, <2>1, <2>2 DEF SlotsOK
  <2>3. CASE T = F
    <3> SUFFICES ASSUME NEW k \in Fds
                 PROVE  /\ tab'[T].fd[k] # None => k \in tab'[T].open
                        /\ k \in tab'[T].open /\ tab'[T].fd[k] = None =>
                             \/ \E u \in Tasks : files'[u] = T /\ call'[u].at = "attach" /\ call'[u].fd = k
                             \/ Closing(T)' # {}
      BY DEF SlotsOK
    <3>0. tab'[T].open = tab[T].open \cup {i} /\ tab'[T].fd = [tab[T].fd EXCEPT ![i] = None]
      BY <1>7, <1>r, <2>3
    <3>1. CASE k = i
      BY <1>0, <1>1, <1>3, <1>6, <1>7, <2>3, <3>0, <3>1 DEF TabType
    <3>2. CASE k # i
      <4>1. tab'[T].fd[k] = tab[T].fd[k] /\ (k \in tab'[T].open <=> k \in tab[T].open)
        BY <1>0, <3>0, <3>2 DEF TabType
      <4> QED BY <1>0, <1>6, <1>7, <1>8, <2>1, <2>3, <4>1 DEF SlotsOK
    <3> QED BY <3>1, <3>2
  <2> QED BY <2>2, <2>3
<1>9. ASSUME NEW T \in Tables
      PROVE  /\ tab'[T].live = tab[T].live /\ tab'[T].ref = tab[T].ref
             /\ ~tab[T].live => tab'[T] = tab[T]
  BY <1>0, <1>r, <1>4, <1>7 DEF TabOK
<1> QED BY <1>0, <1>2, <1>3, <1>4, <1>5, <1>7, <1>8, <1>9, OwnStep

(* attach_fd. *)
LEMMA AttachStep == ASSUME TInv, NEW t \in Tasks, Attach(t) PROVE TInv'
<1> DEFINE F == files[t]
           i == call[t].fd
           R == [tab[F] EXCEPT !.open = @ \cup {i}, !.fd = [@ EXCEPT ![i] = call[t].file]]
<1>0. /\ call[t] \in Calls /\ Shape(call[t]) /\ call[t].at = "attach" /\ call[t].table = None
      /\ call[t].file \in Files /\ call[t].file # None /\ i \in Fds
      /\ F \in Tables /\ tab[F] \in TabType /\ tab \in [Tables -> TabType]
  BY DEF Attach, TInv, Types, CallOK, Shape, Putting, Calls, MaybeFile
<1>2. tab' = [tab EXCEPT ![F] = R] /\ Goes(t, Idle)
  BY <1>0 DEF Attach, TabType
<1>3. /\ R \in TabType /\ R.live = tab[F].live /\ R.ref = tab[F].ref
      /\ R.open = tab[F].open \cup {i} /\ R.fd = [tab[F].fd EXCEPT ![i] = call[t].file]
  BY <1>0 DEF TabType, MaybeFile
<1>4. ~Lone(Idle, F) /\ t \in Users(F) /\ TabOK(F) /\ Idle.at = "idle"
  BY <1>0 DEF Lone, Putting, Users, TInv, Idle
<1> HIDE DEF R
<1>5. Types'
  <2>1. lost' \in [Files -> Nat]
    BY DEF Attach, TInv, Types
  <2>2. UNCHANGED <<count, released, files, dropped, made>>
    BY DEF Attach
  <2>3. tab' \in [Tables -> TabType] /\ call' \in [Tasks -> Calls]
    BY <1>0, <1>2, <1>3, IdleCall DEF Types, TInv, Goes
  <2> QED BY <2>1, <2>2, <2>3 DEF Types, TInv
<1>6. /\ call'[t] = Idle /\ \A u \in Tasks : u # t => call'[u] = call[u]
  BY <1>2 DEF Goes, TInv, Types
<1>7. /\ tab'[F] = R /\ \A T \in Tables \ {F} : tab'[T] = tab[T]
      /\ files' = files
  BY <1>0, <1>2 DEF Attach
<1>8. ASSUME NEW T \in Tables, SlotsOK(T) PROVE SlotsOK(T)'
  <2>1. Closing(T) \subseteq Closing(T)'
    BY <1>0, <1>6, FdTableAssumption DEF Closing
  <2>2. CASE T # F
    BY <1>0, <1>6, <1>7, <1>8, <2>1, <2>2 DEF SlotsOK
  <2>3. CASE T = F
    <3> SUFFICES ASSUME NEW k \in Fds
                 PROVE  /\ tab'[T].fd[k] # None => k \in tab'[T].open
                        /\ k \in tab'[T].open /\ tab'[T].fd[k] = None =>
                             \/ \E u \in Tasks : files'[u] = T /\ call'[u].at = "attach" /\ call'[u].fd = k
                             \/ Closing(T)' # {}
      BY DEF SlotsOK
    <3>0. tab'[T].open = tab[T].open \cup {i} /\ tab'[T].fd = [tab[T].fd EXCEPT ![i] = call[t].file]
      BY <1>7, <1>3, <2>3
    <3>1. CASE k = i
      BY <1>0, <2>3, <3>0, <3>1 DEF TabType
    <3>2. CASE k # i
      <4>1. tab'[T].fd[k] = tab[T].fd[k] /\ (k \in tab'[T].open <=> k \in tab[T].open)
        BY <1>0, <2>3, <3>0, <3>2 DEF TabType
      <4> QED BY <1>0, <1>6, <1>7, <1>8, <2>1, <2>3, <3>2, <4>1 DEF SlotsOK
    <3> QED BY <3>1, <3>2
  <2> QED BY <2>2, <2>3
<1>9. ASSUME NEW T \in Tables
      PROVE  /\ tab'[T].live = tab[T].live /\ tab'[T].ref = tab[T].ref
             /\ ~tab[T].live => tab'[T] = tab[T]
  BY <1>0, <1>3, <1>4, <1>7 DEF TabOK
<1> QED BY <1>0, <1>2, <1>4, <1>5, <1>7, <1>8, <1>9, IdleCall, OwnStep

(* __close_fd. *)
LEMMA VacateStep ==
  ASSUME TInv, NEW t \in Tasks, NEW i \in Fds, NEW b \in Calls, Vacate(t, i, b),
         files[t] # None, Mine(t).fd[i] # None, call[t].table = None, b.table = None,
         call[t].at # "attach",
         b.then \in {"idle", "attach", "cloexec"}, b.file # None <=> b.then = "attach",
         b.then = "cloexec" => call[t].at = "cloexec"
  PROVE  TInv'
<1> DEFINE F == files[t]
           R == Vacated(tab[F], i)
           c == [b EXCEPT !.at = "put", !.old = Mine(t).fd[i]]
<1>0. /\ F \in Tables /\ tab[F] \in TabType /\ tab \in [Tables -> TabType]
      /\ Mine(t).fd[i] \in Files /\ Mine(t).fd[i] # None
  BY DEF TInv, Types, TabType, MaybeFile, Mine
<1>2. tab' = [tab EXCEPT ![F] = R] /\ Goes(t, c)
  BY <1>0 DEF Vacate
<1>1. /\ R \in TabType /\ R.live = tab[F].live /\ R.ref = tab[F].ref
      /\ R.open = tab[F].open \ {i} /\ R.fd = [tab[F].fd EXCEPT ![i] = None]
  BY <1>0, VacatedTable
<1>3. c \in Calls /\ Shape(c) /\ c.at = "put" /\ c.table = None /\ c.then = b.then
  BY <1>0 DEF Calls, Shape, Putting, MaybeFile
<1>4. /\ Lone(c, F) => Lone(call[t], F)
      /\ t \in Users(F) /\ TabOK(F)
  BY <1>0, <1>3 DEF Lone, Putting, Users, TInv
<1> HIDE DEF R, c
<1>5. Types'
  BY <1>0, <1>1, <1>2, <1>3 DEF Types, TInv, Vacate, Goes
<1>6. /\ call'[t] = c /\ \A u \in Tasks : u # t => call'[u] = call[u]
  BY <1>2 DEF Goes, TInv, Types
<1>7. /\ tab'[F] = R /\ \A T \in Tables \ {F} : tab'[T] = tab[T]
      /\ files' = files
  BY <1>0, <1>2 DEF Vacate
<1>8. ASSUME NEW T \in Tables, SlotsOK(T) PROVE SlotsOK(T)'
  <2>1. Closing(T) \subseteq Closing(T)'
    BY <1>0, <1>6, FdTableAssumption DEF Closing
  <2>2. CASE T # F
    BY <1>0, <1>6, <1>7, <1>8, <2>1, <2>2 DEF SlotsOK
  <2>3. CASE T = F
    <3> SUFFICES ASSUME NEW k \in Fds
                 PROVE  /\ tab'[T].fd[k] # None => k \in tab'[T].open
                        /\ k \in tab'[T].open /\ tab'[T].fd[k] = None =>
                             \/ \E u \in Tasks : files'[u] = T /\ call'[u].at = "attach" /\ call'[u].fd = k
                             \/ Closing(T)' # {}
      BY DEF SlotsOK
    <3>0. tab'[T].open = tab[T].open \ {i} /\ tab'[T].fd = [tab[T].fd EXCEPT ![i] = None]
      BY <1>7, <1>1, <2>3
    <3>1. CASE k = i
      BY <1>0, <2>3, <3>0, <3>1 DEF TabType
    <3>2. CASE k # i
      <4>1. tab'[T].fd[k] = tab[T].fd[k] /\ (k \in tab'[T].open <=> k \in tab[T].open)
        BY <1>0, <2>3, <3>0, <3>2 DEF TabType
      <4> QED BY <1>0, <1>6, <1>7, <1>8, <2>1, <2>3, <4>1 DEF SlotsOK
    <3> QED BY <3>1, <3>2
  <2> QED BY <2>2, <2>3
<1>9. ASSUME NEW T \in Tables
      PROVE  /\ tab'[T].live = tab[T].live /\ tab'[T].ref = tab[T].ref
             /\ ~tab[T].live => tab'[T] = tab[T]
  BY <1>0, <1>1, <1>4, <1>7 DEF TabOK
<1>10. CallOK(t)
  BY DEF TInv
<1> QED BY <1>0, <1>2, <1>3, <1>4, <1>5, <1>7, <1>8, <1>9, <1>10, OwnStep DEF CallOK

(* close_files empties a slot. *)
LEMMA SweepSlotStep ==
  ASSUME TInv, NEW t \in Tasks, Sweep(t), InUse(tab[call[t].table]) # {}
  PROVE  TInv'
<1> DEFINE F == call[t].table
           i == Min(InUse(tab[F]))
           R == [tab[F] EXCEPT !.fd = [@ EXCEPT ![i] = None]]
           c == [call[t] EXCEPT !.at = "put", !.then = "sweep", !.old = tab[F].fd[i]]
<1>0. /\ call[t] \in Calls /\ Shape(call[t]) /\ call[t].at = "sweep"
      /\ F \in Tables /\ F # None /\ tab[F] \in TabType /\ tab \in [Tables -> TabType]
  BY DEF Sweep, TInv, Types, CallOK, Shape, Putting, Calls
<1>a. InUse(tab[F]) \in SUBSET Nat /\ InUse(tab[F]) \subseteq Fds
  BY <1>0 DEF InUse, TabType, Fds
<1>b. i \in InUse(tab[F])
  BY <1>a, LeastNumber
<1> HIDE DEF i
<1>c. i \in Fds /\ tab[F].fd[i] \in Files /\ tab[F].fd[i] # None
  BY <1>0, <1>a, <1>b DEF InUse, TabType, MaybeFile
<1>2. tab' = [tab EXCEPT ![F] = R] /\ Goes(t, c)
  BY <1>0 DEF Sweep, TabType, i
<1>1. /\ R \in TabType /\ R.live = tab[F].live /\ R.ref = tab[F].ref
      /\ R.open = tab[F].open /\ R.fd = [tab[F].fd EXCEPT ![i] = None]
  BY <1>0, <1>c DEF TabType, MaybeFile
<1>3. c \in Calls /\ Shape(c) /\ c.at = "put" /\ c.table = F /\ c.then = "sweep"
  BY <1>0, <1>c DEF Calls, Shape, Putting, MaybeFile
<1>4. /\ Lone(c, files[t]) => Lone(call[t], files[t])
      /\ t \in Closing(F) /\ TabOK(F) /\ t \in Users(F)
  BY <1>0, <1>3 DEF Lone, Putting, Users, Closing, TInv
<1> HIDE DEF R, c
<1>5. Types'
  BY <1>0, <1>1, <1>2, <1>3 DEF Types, TInv, Sweep, Goes
<1>6. /\ call'[t] = c /\ \A u \in Tasks : u # t => call'[u] = call[u]
  BY <1>2 DEF Goes, TInv, Types
<1>7. /\ tab'[F] = R /\ \A T \in Tables \ {F} : tab'[T] = tab[T]
      /\ files' = files
  BY <1>0, <1>2 DEF Sweep
<1>8. ASSUME NEW T \in Tables, SlotsOK(T) PROVE SlotsOK(T)'
  <2>1. Closing(T) \subseteq Closing(T)'
    BY <1>0, <1>3, <1>6, FdTableAssumption DEF Closing
  <2>2. CASE T # F
    BY <1>0, <1>6, <1>7, <1>8, <2>1, <2>2 DEF SlotsOK
  <2>3. CASE T = F
    <3>1. Closing(T)' # {}
      BY <1>4, <2>1, <2>3
    <3>2. tab'[T].open = tab[T].open /\ tab'[T].fd = [tab[T].fd EXCEPT ![i] = None]
      BY <1>7, <1>1, <2>3
    <3>3. \A k \in Fds : tab'[T].fd[k] # None => tab[T].fd[k] # None
      BY <1>0, <2>3, <3>2 DEF TabType
    <3> QED BY <1>8, <3>1, <3>2, <3>3 DEF SlotsOK
  <2> QED BY <2>2, <2>3
<1>9. ASSUME NEW T \in Tables
      PROVE  /\ tab'[T].live = tab[T].live /\ tab'[T].ref = tab[T].ref
             /\ ~tab[T].live => tab'[T] = tab[T]
  BY <1>0, <1>1, <1>4, <1>7 DEF TabOK
<1>10. CallOK(t)
  BY DEF TInv
<1> QED BY <1>0, <1>2, <1>3, <1>4, <1>5, <1>7, <1>8, <1>9, <1>10, OwnStep DEF CallOK, TabOK

-----------------------------------------------------------------------------
(* Tasks and their tables. *)

(* A call that is idle puts no table; a table somebody is alone with is    *)
(* not an idle task's.                                                     *)
LEMMA IdleTask ==
  ASSUME TInv, NEW t \in Tasks, call[t].at = "idle"
  PROVE  /\ call[t].table = None /\ ~Lone(call[t], files[t])
         /\ files[t] # None =>
              /\ files[t] \in Tables /\ t \in Users(files[t]) /\ tab[files[t]].live
              /\ Closing(files[t]) = {}
              /\ \A u \in Tasks : files[u] = files[t] => ~Lone(call[u], files[u])
<1>1. call[t].table = None /\ ~Lone(call[t], files[t])
  BY DEF TInv, CallOK, Shape, Lone, Putting
<1>2. ASSUME files[t] # None
      PROVE  files[t] \in Tables /\ t \in Users(files[t]) /\ tab[files[t]].live
  <2>1. files[t] \in Tables /\ t \in Users(files[t])
    BY <1>2 DEF TInv, Types, Users
  <2>2. TabOK(files[t])
    BY <2>1 DEF TInv
  <2> QED BY <2>1, <2>2 DEF TabOK
<1>3. ASSUME files[t] # None, NEW u \in Closing(files[t]) PROVE FALSE
  <2>1. Users(files[t]) = {u}
    BY <1>2, <1>3 DEF TInv, TabOK
  <2> QED BY <1>1, <1>2, <1>3, <2>1 DEF Closing
<1>4. ASSUME files[t] # None, NEW u \in Tasks, files[u] = files[t], Lone(call[u], files[u])
      PROVE  FALSE
  <2>1. Users(files[t]) = {u}
    BY <1>4 DEF TInv, CallOK
  <2> QED BY <1>1, <1>2, <1>4, <2>1
<1> QED BY <1>1, <1>2, <1>3, <1>4

(* A child that shares its parent's table. *)
LEMMA ForkSharedStep ==
  ASSUME TInv, NEW t \in Tasks, NEW c \in Tasks, ForkShared(t, c)
  PROVE  TInv'
<1> DEFINE F == files[t]
           R == [tab[F] EXCEPT !.ref = @ + 1]
<1>0. /\ call[t].at = "idle" /\ F # None /\ files[c] = None /\ call[c].at = "idle" /\ c # t
      /\ call[c].table = None
  BY IdleTask DEF ForkShared, Free
<1>1. /\ F \in Tables /\ tab[F] \in TabType /\ tab \in [Tables -> TabType]
      /\ t \in Users(F) /\ tab[F].live /\ Closing(F) = {}
      /\ \A u \in Tasks : files[u] = F => ~Lone(call[u], files[u])
  BY <1>0, IdleTask DEF TInv, Types
<1>2. /\ R \in TabType /\ R.live = tab[F].live /\ R.ref = tab[F].ref + 1
      /\ R.open = tab[F].open /\ R.fd = tab[F].fd
  <2>1. tab[F].ref + 1 \in Nat
    BY <1>1 DEF TabType
  <2> QED BY <1>1, <2>1 DEF TabType
<1>3. tab' = [tab EXCEPT ![F] = R] /\ call' = call /\ files' = [files EXCEPT ![c] = F]
  BY <1>1 DEF ForkShared
<1> HIDE DEF R
<1>4. Types'
  BY <1>1, <1>2, <1>3 DEF TInv, Types, ForkShared
<1>5. /\ tab'[F] = R /\ \A T \in Tables \ {F} : tab'[T] = tab[T]
      /\ files'[c] = F /\ \A u \in Tasks \ {c} : files'[u] = files[u]
  BY <1>1, <1>3 DEF TInv, Types
<1>6. \A T \in Tables : T # F => Users(T)' = Users(T)
  BY <1>0, <1>3, <1>5, FdTableAssumption DEF Users
<1>7. ASSUME NEW T, T = F PROVE Users(T)' = Users(T) \cup {c} /\ c \notin Users(T)
  BY <1>0, <1>3, <1>5, <1>7 DEF Users
<1>8. \A T : Closing(T)' = Closing(T)
  BY <1>3 DEF Closing
<1>9. ASSUME NEW u \in Tasks PROVE CallOK(u)'
  <2>1. CASE u = c
    <3>1. ~Lone(call[c], F)
      BY <1>0 DEF Lone, TInv, CallOK, Shape, Putting
    <3> QED BY <1>0, <1>3, <1>5, <2>1, <3>1 DEF TInv, CallOK
  <2>2. CASE u # c
    <3>1. CallOK(u) /\ files[u] \in Tables \cup {None}
      BY DEF TInv, Types
    <3>2. ASSUME Lone(call[u], files[u]) PROVE Users(files[u])' = {u}
      <4>1. files[u] # F /\ files[u] # None /\ Users(files[u]) = {u}
        BY <1>1, <3>1, <3>2 DEF CallOK, Lone, Shape, Putting
      <4>2. files'[u] = files[u] /\ files[u] \in Tables
        BY <1>5, <2>2, <3>1, <4>1
      <4> QED BY <1>6, <4>1, <4>2
    <3> QED BY <1>3, <1>5, <2>2, <3>1, <3>2 DEF CallOK
  <2> QED BY <2>1, <2>2
<1>10. ASSUME NEW T \in Tables PROVE TabOK(T)'
  <2>1. TabOK(T)
    BY DEF TInv
  <2>2. SlotsOK(T) => SlotsOK(T)'
    <3>1. tab'[T].fd = tab[T].fd /\ tab'[T].open = tab[T].open
      BY <1>2, <1>5
    <3>2. \A u \in Tasks : files[u] = T => files'[u] = T
      BY <1>0, <1>5, FdTableAssumption
    <3> QED BY <1>3, <1>8, <3>1, <3>2 DEF SlotsOK
  <2>3. CASE T # F
    BY <1>5, <1>6, <1>8, <2>1, <2>2, <2>3 DEF TabOK
  <2>4. CASE T = F
    <3>1. Cardinality(Users(T) \cup {c}) = Cardinality(Users(T)) + 1
      BY <1>7, <2>4, UsersFinite, FS_AddElement
    <3> QED BY <1>1, <1>2, <1>5, <1>7, <1>8, <2>1, <2>2, <2>4, <3>1 DEF TabOK
  <2> QED BY <2>3, <2>4
<1> QED BY <1>4, <1>9, <1>10 DEF TInv

(* The copy of a table holds the open files and nothing reserved. *)
LEMMA CopiedTable ==
  ASSUME NEW T \in TabType
  PROVE  LET R == Copied(T).T
         IN  /\ R \in TabType /\ R.live /\ R.ref = 1 /\ R.open = InUse(T)
             /\ InUse(T) \subseteq Fds /\ InUse(T) \subseteq T.open
             /\ \A i \in Fds : R.fd[i] = (IF i \in InUse(T) THEN T.fd[i] ELSE None)
             /\ \A i \in Fds : i \in InUse(T) <=> i \in T.open /\ T.fd[i] # None
<1>1. 0 \in 0 .. NFds
  BY FdTableAssumption
<1>2. InUse(T) \subseteq Fds /\ InUse(T) \subseteq T.open
      /\ \A i \in Fds : i \in InUse(T) <=> i \in T.open /\ T.fd[i] # None
  BY DEF InUse, TabType
<1> HIDE DEF InUse
<1> QED BY <1>1, <1>2 DEF Copied, Empty, TabType, MaybeFile

(* A task starts to use a copy: nobody used the new table. *)
LEMMA NewTable ==
  ASSUME TInv, Types', NEW c \in Tasks, NEW N \in Tables, ~tab[N].live,
         NEW T0 \in TabType, tab' = [tab EXCEPT ![N] = Copied(T0).T],
         files' = [files EXCEPT ![c] = N],
         \A u \in Tasks \ {c} : call'[u] = call[u],
         call[c].at = "idle", Shape(call'[c]),
         \/ files[c] = None /\ call'[c] = call[c]
         \/ /\ files[c] # None
            /\ call'[c].table = files[c] /\ call'[c].at = "puttable"
  PROVE  TInv'
<1> DEFINE R == Copied(T0).T
<1>1. /\ R \in TabType /\ R.live /\ R.ref = 1
      /\ \A i \in Fds : /\ R.fd[i] # None => i \in R.open
                        /\ i \in R.open => R.fd[i] # None
  BY CopiedTable
<1>2. tab' = [tab EXCEPT ![N] = R]
  OBVIOUS
<1> HIDE DEF R
<1>3. Users(N) = {} /\ tab[N] = Empty
  BY UnusedTable
<1>4. call[c].table = None /\ (files[c] # None => files[c] \in Tables)
  BY IdleTask
<1>5. /\ tab'[N] = R /\ \A T \in Tables \ {N} : tab'[T] = tab[T]
      /\ files'[c] = N /\ \A u \in Tasks \ {c} : files'[u] = files[u]
  BY <1>2 DEF TInv, Types
<1>6. \A T \in Tables : T # N => Users(T)' = Users(T)
  BY <1>4, <1>5, FdTableAssumption DEF Users
<1>7. Users(N)' = {c}
  BY <1>3, <1>5 DEF Users
<1>8. \A T \in Tables : Closing(T)' = Closing(T)
  BY <1>4, FdTableAssumption DEF Closing
<1>9. ASSUME NEW u \in Tasks PROVE CallOK(u)'
  <2>1. CASE u = c
    <3>1. N # call'[c].table
      BY <1>3, <1>4, FdTableAssumption DEF Users
    <3>2. N # None
      BY FdTableAssumption
    <3> QED BY <1>5, <1>7, <2>1, <3>1, <3>2 DEF TInv, CallOK
  <2>2. CASE u # c
    <3>1. CallOK(u) /\ files[u] \in Tables \cup {None} /\ files[u] # N
      BY <1>3 DEF TInv, Types, Users
    <3>2. ASSUME Lone(call[u], files[u]) PROVE Users(files[u])' = {u}
      <4>1. files[u] # None /\ Users(files[u]) = {u}
        BY <3>1, <3>2 DEF CallOK, Lone, Shape, Putting
      <4>2. files'[u] = files[u] /\ files[u] \in Tables
        BY <1>5, <2>2, <3>1, <4>1
      <4> QED BY <1>6, <3>1, <4>1, <4>2
    <3> QED BY <1>5, <2>2, <3>1, <3>2 DEF CallOK
  <2> QED BY <2>1, <2>2
<1>10. ASSUME NEW T \in Tables PROVE TabOK(T)'
  <2>1. TabOK(T)
    BY DEF TInv
  <2>2. CASE T # N
    <3>1. SlotsOK(T) => SlotsOK(T)'
      <4>1. ASSUME NEW u \in Tasks, files[u] = T, call[u].at = "attach"
            PROVE  files'[u] = T /\ call'[u] = call[u]
        BY <1>5, <4>1
      <4> QED BY <1>5, <1>8, <2>2, <4>1 DEF SlotsOK
    <3> QED BY <1>5, <1>6, <1>8, <2>1, <2>2, <3>1 DEF TabOK
  <2>3. CASE T = N
    <3>1. Cardinality({c}) = 1
      BY FS_Singleton
    <3>2. SlotsOK(T)'
      BY <1>1, <1>5, <2>3 DEF SlotsOK
    <3>3. Closing(T) = {}
      BY <1>3, <2>3 DEF Users, Closing
    <3> QED BY <1>1, <1>5, <1>7, <1>8, <2>3, <3>1, <3>2, <3>3 DEF TabOK
  <2> QED BY <2>2, <2>3
<1> QED BY <1>9, <1>10 DEF TInv

(* dup_fd adds to the counts. *)
LEMMA CopiedCounts ==
  ASSUME count \in [Files -> Nat], NEW T \in TabType
  PROVE  Copied(T).c \in [Files -> Nat]
<1>1. IsFiniteSet(Fds)
  BY FdTableAssumption, FS_Interval DEF Fds
<1>2. ASSUME NEW f \in Files PROVE Cardinality({i \in InUse(T) : T.fd[i] = f}) \in Nat
  <2>1. {i \in InUse(T) : T.fd[i] = f} \subseteq Fds
    BY DEF InUse, TabType
  <2> QED BY <1>1, <2>1, FS_Subset, FS_CardinalityType
<1> QED BY <1>2 DEF Copied

(* A child with a copy of its parent's table. *)
LEMMA ForkCopyStep ==
  ASSUME TInv, NEW t \in Tasks, NEW c \in Tasks, ForkCopy(t, c)
  PROVE  TInv'
<1>0. call[t].at = "idle" /\ files[t] # None /\ files[c] = None /\ call[c].at = "idle"
  BY DEF ForkCopy, Free
<1>1. Mine(t) \in TabType
  BY <1>0 DEF TInv, Types, Mine
<1>2. PICK N \in Tables : /\ ~tab[N].live
                          /\ tab' = [tab EXCEPT ![N] = Copied(Mine(t)).T]
                          /\ count' = Copied(Mine(t)).c
                          /\ files' = [files EXCEPT ![c] = N]
  BY DEF ForkCopy
<1>3. Copied(Mine(t)).T \in TabType /\ Copied(Mine(t)).c \in [Files -> Nat]
  BY <1>1, CopiedTable, CopiedCounts DEF TInv, Types
<1>4. UNCHANGED <<released, call, lost, dropped, made>>
  BY DEF ForkCopy
<1>5. Types'
  BY <1>2, <1>3, <1>4 DEF TInv, Types
<1>6. Shape(call'[c])
  BY <1>4 DEF TInv, CallOK
<1> QED BY <1>0, <1>1, <1>2, <1>4, <1>5, <1>6, NewTable

(* unshare_files_struct. *)
LEMMA ExecStep == ASSUME TInv, NEW t \in Tasks, Exec(t) PROVE TInv'
<1>0. /\ call[t].at = "idle" /\ files[t] # None /\ call[t].table = None
      /\ files[t] \in Tables /\ t \in Users(files[t])
  BY IdleTask DEF Exec, Free
<1>1. Mine(t) \in TabType /\ Mine(t).ref \in Nat
  BY <1>0 DEF TInv, Types, Mine, TabType
<1>2. CASE Mine(t).ref <= 1
  <2> DEFINE c == [Idle EXCEPT !.at = "cloexec"]
  <2>1. c \in Calls /\ Shape(c) /\ c.at = "cloexec" /\ c.table = None
    BY IdleCall DEF Idle, Calls, Shape, Putting
  <2>2. Goes(t, c) /\ UNCHANGED <<tab, count, files, released, lost, dropped, made>>
    BY <1>1, <1>2 DEF Exec
  <2>3. Types'
    BY <2>1, <2>2 DEF TInv, Types, Goes
  <2>4. Users(files[t]) = {t}
    BY <1>0, <1>2, OnlyUser DEF Mine
  <2> HIDE DEF c
  <2> QED BY <1>0, <2>1, <2>2, <2>3, <2>4, CallStep
<1>3. CASE Mine(t).ref > 1
  <2> DEFINE c == [Idle EXCEPT !.at = "puttable", !.table = files[t]]
  <2>1. PICK N \in Tables : /\ ~tab[N].live
                            /\ tab' = [tab EXCEPT ![N] = Copied(Mine(t)).T]
                            /\ count' = Copied(Mine(t)).c
                            /\ files' = [files EXCEPT ![t] = N]
    BY <1>1, <1>3 DEF Exec
  <2>2. Goes(t, c) /\ UNCHANGED <<released, lost, dropped, made>>
    BY <1>1, <1>3 DEF Exec
  <2>3. Copied(Mine(t)).T \in TabType /\ Copied(Mine(t)).c \in [Files -> Nat]
    BY <1>1, CopiedTable, CopiedCounts DEF TInv, Types
  <2>4. c \in Calls /\ Shape(c) /\ c.at = "puttable" /\ c.table = files[t]
    <3>1. c \in Calls
      BY <1>0, IdleCall DEF Calls, MaybeFile
    <3>2. /\ c.at = "puttable" /\ c.file = None /\ c.old = None /\ c.then = "idle" /\ c.table = files[t]
      BY DEF Idle
    <3> HIDE DEF c
    <3>3. Shape(c)
      BY <1>0, <3>2, FdTableAssumption DEF Shape, Putting
    <3> QED BY <3>1, <3>2, <3>3
  <2> HIDE DEF c
  <2>5. Types'
    BY <2>1, <2>2, <2>3, <2>4 DEF TInv, Types, Goes
  <2>6. call'[t] = c /\ \A u \in Tasks \ {t} : call'[u] = call[u]
    BY <2>2 DEF TInv, Types, Goes
  <2> QED BY <1>0, <1>1, <2>1, <2>4, <2>5, <2>6, NewTable
<1> QED BY <1>1, <1>2, <1>3

(* An exiting task still counts until it has put its table. *)
LEMMA ExitStep == ASSUME TInv, NEW t \in Tasks, Exit(t) PROVE TInv'
<1> DEFINE c == [Idle EXCEPT !.at = "puttable", !.table = files[t]]
<1>0. /\ call[t].at = "idle" /\ files[t] # None /\ call[t].table = None
      /\ files[t] \in Tables /\ t \in Users(files[t])
  BY IdleTask DEF Exit, Free
<1>1. c \in Calls /\ Shape(c) /\ c.at = "puttable" /\ c.table = files[t]
  <2>1. c \in Calls
    BY <1>0, IdleCall DEF Calls, MaybeFile
  <2>2. /\ c.at = "puttable" /\ c.file = None /\ c.old = None /\ c.then = "idle" /\ c.table = files[t]
    BY DEF Idle
  <2> HIDE DEF c
  <2>3. Shape(c)
    BY <1>0, <2>2, FdTableAssumption DEF Shape, Putting
  <2> QED BY <2>1, <2>2, <2>3
<1>2. /\ Goes(t, c) /\ UNCHANGED <<tab, count, released, lost, dropped, made>>
      /\ files' = [files EXCEPT ![t] = None]
  BY DEF Exit
<1> HIDE DEF c
<1>3. Types'
  BY <1>1, <1>2 DEF TInv, Types, Goes
<1>4. /\ call'[t] = c /\ \A u \in Tasks \ {t} : call'[u] = call[u]
      /\ files'[t] = None /\ \A u \in Tasks \ {t} : files'[u] = files[u]
  BY <1>2 DEF TInv, Types, Goes
<1>5. \A T \in Tables : Users(T)' = Users(T) /\ Closing(T)' = Closing(T)
  BY <1>0, <1>1, <1>4, FdTableAssumption DEF Users, Closing
<1>6. ASSUME NEW u \in Tasks PROVE CallOK(u)'
  <2>1. CASE u = t
    BY <1>0, <1>1, <1>4, <2>1 DEF CallOK, Lone, Putting
  <2>2. CASE u # t
    <3>1. CallOK(u) /\ files[u] \in Tables \cup {None}
      BY DEF TInv, Types
    <3>2. Lone(call[u], files[u]) => files[u] # None
      BY <3>1 DEF CallOK, Lone, Shape, Putting
    <3> QED BY <1>4, <1>5, <2>2, <3>1, <3>2 DEF CallOK
  <2> QED BY <2>1, <2>2
<1>7. ASSUME NEW T \in Tables PROVE TabOK(T)'
  <2>1. SlotsOK(T) => SlotsOK(T)'
    <3>1. ASSUME NEW u \in Tasks, files[u] = T, call[u].at = "attach"
          PROVE  files'[u] = T /\ call'[u] = call[u]
      BY <1>0, <1>4, <3>1
    <3> QED BY <1>2, <1>5, <3>1 DEF SlotsOK
  <2>2. TabOK(T)
    BY DEF TInv
  <2> QED BY <1>2, <1>5, <2>1, <2>2 DEF TabOK
<1> QED BY <1>3, <1>6, <1>7 DEF TInv

(* A table is left: it loses one user, the rest of the system none. *)
LEMMA LeaveTable ==
  ASSUME TInv, Types', NEW t \in Tasks, NEW T0 \in Tables, call[t].table = T0,
         call[t].at \in {"dectable", "sweep"}, files' = files,
         Goes(t, AfterTable(t)), tab'[T0].ref = Cardinality(Users(T0)) - 1,
         \/ /\ call[t].at = "dectable" /\ tab'[T0].live = tab[T0].live
            /\ tab'[T0].fd = tab[T0].fd /\ tab'[T0].open = tab[T0].open
         \/ tab'[T0] = Empty /\ Users(T0) = {t},
         \A T \in Tables \ {T0} : tab'[T] = tab[T]
  PROVE  TInv'
<1> DEFINE c == AfterTable(t)
<1>0. /\ CallOK(t) /\ TabOK(T0) /\ T0 # None /\ files[t] # T0 /\ t \in Users(T0)
  BY FdTableAssumption DEF TInv, CallOK, Users
<1>1. /\ c \in Calls /\ Shape(c) /\ c.table = None /\ c.at # "attach"
      /\ c.at = IF files[t] = None THEN "idle" ELSE "cloexec"
  BY IdleCall DEF AfterTable, Idle, Calls, Shape, Putting
<1>2. call'[t] = c /\ \A u \in Tasks \ {t} : call'[u] = call[u]
  BY DEF Goes, TInv, Types
<1> HIDE DEF c
<1>3. Users(T0)' = Users(T0) \ {t}
  BY <1>0, <1>1, <1>2 DEF Users
<1>4. \A T \in Tables : T # T0 => Users(T)' = Users(T) /\ Closing(T)' = Closing(T)
  BY <1>1, <1>2, FdTableAssumption DEF Users, Closing
<1>5. Closing(T0)' = {}
  <2>1. ASSUME NEW u \in Closing(T0)' PROVE FALSE
    <3>1. u \in Tasks /\ u # t
      BY <1>0, <1>1, <1>2, <2>1 DEF Closing
    <3>2. u \in Closing(T0)
      BY <1>2, <2>1, <3>1 DEF Closing
    <3> QED BY <1>0, <3>1, <3>2 DEF TabOK
  <2> QED BY <2>1
<1>6. ASSUME NEW u \in Tasks PROVE CallOK(u)'
  <2>1. CASE u = t
    <3>1. files[t] # None => Users(files[t]) = {t} /\ files[t] \in Tables
      BY <1>0 DEF CallOK, Lone, TInv, Types
    <3>2. files[t] # None => Users(files[t])' = {t}
      BY <1>0, <1>4, <3>1
    <3>3. files[t] = None => ~Lone(c, files[t])
      BY <1>1 DEF Lone, Putting
    <3> QED BY <1>1, <1>2, <2>1, <3>2, <3>3, FdTableAssumption DEF CallOK
  <2>2. CASE u # t
    <3>1. CallOK(u) /\ files[u] \in Tables \cup {None}
      BY DEF TInv, Types
    <3>2. ASSUME Lone(call[u], files[u]) PROVE Users(files[u])' = {u}
      <4>1. files[u] # None /\ Users(files[u]) = {u} /\ files[u] \in Tables
        BY <3>1, <3>2 DEF CallOK, Lone, Shape, Putting
      <4>2. files[u] # T0
        BY <1>0, <2>2, <4>1
      <4> QED BY <1>4, <4>1, <4>2
    <3> QED BY <1>2, <2>2, <3>1, <3>2 DEF CallOK
  <2> QED BY <2>1, <2>2
<1>7. ASSUME NEW T \in Tables PROVE TabOK(T)'
  <2>1. TabOK(T)
    BY DEF TInv
  <2>2. CASE T # T0
    <3>1. SlotsOK(T) => SlotsOK(T)'
      BY <1>2, <1>4, <2>2 DEF SlotsOK
    <3> QED BY <1>4, <2>1, <2>2, <3>1 DEF TabOK
  <2>3. CASE T = T0
    <3>1. Cardinality(Users(T0) \ {t}) = Cardinality(Users(T0)) - 1
      BY <1>0, UsersFinite, FS_RemoveElement
    <3>2. CASE tab'[T0] = Empty /\ Users(T0) = {t}
      <4>1. ~tab'[T0].live
        BY <3>2 DEF Empty
      <4> QED BY <1>3, <1>5, <2>3, <3>1, <3>2, <4>1 DEF TabOK
    <3>3. CASE ~(tab'[T0] = Empty /\ Users(T0) = {t})
      <4>1. /\ tab'[T0].live = tab[T0].live /\ tab'[T0].fd = tab[T0].fd
            /\ tab'[T0].open = tab[T0].open /\ call[t].at = "dectable"
        BY <3>3
      <4>2. tab[T0].live
        BY <1>0 DEF TabOK
      <4>3. Closing(T0) = {}
        BY <1>0, <4>1 DEF TabOK, Closing
      <4>4. SlotsOK(T0)'
        <5>1. ASSUME NEW k \in Fds, NEW u \in Tasks,
                     files[u] = T0, call[u].at = "attach", call[u].fd = k
              PROVE  files'[u] = T0 /\ call'[u].at = "attach" /\ call'[u].fd = k
          BY <1>2, <4>1, <5>1
        <5> QED BY <1>0, <4>1, <4>2, <4>3, <5>1 DEF TabOK, SlotsOK
      <4> QED BY <1>3, <1>5, <2>3, <3>1, <4>1, <4>2, <4>4 DEF TabOK
    <3> QED BY <3>2, <3>3
  <2> QED BY <2>2, <2>3
<1> QED BY <1>6, <1>7 DEF TInv

(* put_files_struct lowers the count. *)
LEMMA DecTableStep == ASSUME TInv, NEW t \in Tasks, DecTable(t) PROVE TInv'
<1> DEFINE T0 == call[t].table
           R == [tab[T0] EXCEPT !.ref = @ - 1]
<1>0. /\ call[t] \in Calls /\ Shape(call[t]) /\ call[t].at = "dectable"
      /\ T0 \in Tables /\ T0 # None /\ tab[T0] \in TabType /\ tab \in [Tables -> TabType]
      /\ TabOK(T0) /\ t \in Users(T0)
  BY DEF DecTable, TInv, Types, CallOK, Shape, Putting, Calls, Users
<1>1. /\ tab[T0].ref = Cardinality(Users(T0)) /\ tab[T0].ref - 1 \in Nat
  <2>1. Cardinality(Users(T0)) \in Nat /\ Cardinality(Users(T0)) # 0
    BY <1>0, UsersFinite
  <2> QED BY <1>0, <2>1 DEF TabOK
<1>2. /\ tab' = [tab EXCEPT ![T0] = R] /\ Goes(t, AfterTable(t))
      /\ UNCHANGED <<count, released, files, lost, dropped, made>>
  BY <1>0 DEF DecTable
<1>3. /\ R \in TabType /\ R.ref = tab[T0].ref - 1 /\ R.live = tab[T0].live
      /\ R.open = tab[T0].open /\ R.fd = tab[T0].fd
  BY <1>0, <1>1 DEF TabType
<1>4. AfterTable(t) \in Calls
  BY IdleCall DEF AfterTable, Idle, Calls
<1> HIDE DEF R
<1>5. Types'
  BY <1>0, <1>2, <1>3, <1>4 DEF TInv, Types, Goes
<1>6. tab'[T0] = R /\ \A T \in Tables \ {T0} : tab'[T] = tab[T]
  BY <1>0, <1>2
<1> QED BY <1>0, <1>1, <1>2, <1>3, <1>5, <1>6, LeaveTable

(* close_files, done. *)
LEMMA SweepEndStep ==
  ASSUME TInv, NEW t \in Tasks, Sweep(t), InUse(tab[call[t].table]) = {}
  PROVE  TInv'
<1> DEFINE T0 == call[t].table
<1>0. /\ call[t] \in Calls /\ Shape(call[t]) /\ call[t].at = "sweep"
      /\ T0 \in Tables /\ T0 # None /\ tab[T0] \in TabType /\ tab \in [Tables -> TabType]
      /\ TabOK(T0) /\ t \in Closing(T0)
  BY DEF Sweep, TInv, Types, CallOK, Shape, Putting, Calls, Closing
<1>1. Users(T0) = {t} /\ Cardinality(Users(T0)) = 1
  BY <1>0, FS_Singleton DEF TabOK
<1>2. /\ tab' = [tab EXCEPT ![T0] = Empty] /\ Goes(t, AfterTable(t))
      /\ UNCHANGED <<count, released, files, lost, dropped, made>>
  BY <1>0 DEF Sweep
<1>3. Empty \in TabType /\ Empty.ref = 0
  BY FdTableAssumption DEF Empty, TabType, MaybeFile
<1>4. AfterTable(t) \in Calls
  BY IdleCall DEF AfterTable, Idle, Calls
<1>5. Types'
  BY <1>0, <1>2, <1>3, <1>4 DEF TInv, Types, Goes
<1>6. tab'[T0] = Empty /\ \A T \in Tables \ {T0} : tab'[T] = tab[T]
  BY <1>0, <1>2
<1>7. tab'[T0].ref = Cardinality(Users(T0)) - 1
  BY <1>1, <1>3, <1>6
<1> QED BY <1>0, <1>1, <1>2, <1>5, <1>6, <1>7, LeaveTable

(* sys_close, dup2 and exec close a descriptor. *)
LEMMA CloseStep ==
  ASSUME TInv, NEW t \in Tasks,
         Steal(t) \/ CloseOnExec(t) \/ \E i \in Fds : Close(t, i)
  PROVE  TInv'
<1>0. call[t] \in Calls /\ CallOK(t) /\ Shape(call[t])
  BY DEF TInv, Types, CallOK
<1>1. ASSUME NEW i \in Fds, Close(t, i) PROVE TInv'
  <2>1. call[t].at = "idle" /\ files[t] # None /\ call[t].table = None
    BY <1>1, IdleTask DEF Close, Free
  <2>2. Idle.then = "idle" /\ Idle.file = None
    BY DEF Idle
  <2> QED BY <1>1, <2>1, <2>2, IdleCall, VacateStep DEF Close
<1>2. CASE Steal(t)
  <2>0. call[t].at = "steal" /\ call[t].table = None /\ files[t] # None
        /\ call[t].file # None /\ call[t].fd \in Fds /\ call[t].then = "idle"
    BY <1>0, <1>2 DEF Steal, Shape, Putting, CallOK, Calls
  <2>1. CASE Mine(t).fd[call[t].fd] # None
    <3> DEFINE b == [call[t] EXCEPT !.then = "attach"]
    <3>1. b \in Calls /\ b.table = None /\ b.then = "attach" /\ b.file # None
      BY <1>0, <2>0 DEF Calls
    <3>2. Vacate(t, call[t].fd, b)
      BY <1>2, <2>1 DEF Steal
    <3> HIDE DEF b
    <3> QED BY <2>0, <2>1, <3>1, <3>2, VacateStep
  <2>2. CASE Mine(t).fd[call[t].fd] = None
    <3> DEFINE c == [call[t] EXCEPT !.at = "attach"]
    <3>1. c \in Calls /\ Shape(c) /\ c.at = "attach" /\ c.table = None
      BY <1>0, <2>0 DEF Calls, Shape, Putting
    <3>2. Goes(t, c) /\ UNCHANGED <<tab, count, released, files, lost, dropped, made>>
      BY <1>2, <2>2 DEF Steal
    <3>3. ~Lone(c, files[t])
      BY <3>1 DEF Lone, Putting
    <3> HIDE DEF c
    <3>4. Types'
      BY <3>1, <3>2 DEF TInv, Types, Goes
    <3> QED BY <2>0, <3>1, <3>2, <3>3, <3>4, CallStep
  <2> QED BY <2>1, <2>2
<1>3. CASE CloseOnExec(t)
  <2>0. call[t].at = "cloexec" /\ call[t].table = None /\ files[t] # None
        /\ call[t].file = None /\ files[t] \in Tables /\ Mine(t) \in TabType
    BY <1>0, <1>3 DEF CloseOnExec, Shape, Putting, CallOK, Calls, TInv, Types, Mine
  <2>1. ASSUME NEW i \in InUse(Mine(t)), Vacate(t, i, [call[t] EXCEPT !.then = "cloexec"])
        PROVE  TInv'
    <3> DEFINE b == [call[t] EXCEPT !.then = "cloexec"]
    <3>1. b \in Calls /\ b.table = None /\ b.then = "cloexec" /\ b.file = None
      BY <1>0, <2>0 DEF Calls
    <3>2. i \in Fds /\ Mine(t).fd[i] # None
      BY <2>0 DEF InUse, TabType
    <3>3. Vacate(t, i, b)
      BY <2>1
    <3> HIDE DEF b
    <3> QED BY <2>0, <3>1, <3>2, <3>3, VacateStep
  <2>2. CASE Goes(t, Idle) /\ UNCHANGED <<tab, count, released, files, lost, dropped, made>>
    <3>1. Types'
      BY <2>2, IdleCall DEF TInv, Types, Goes
    <3>2. ~Lone(Idle, files[t]) /\ Idle.at = "idle"
      BY DEF Lone, Putting, Idle
    <3> QED BY <2>0, <2>2, <3>1, <3>2, IdleCall, CallStep
  <2> QED BY <1>3, <2>1, <2>2 DEF CloseOnExec
<1> QED BY <1>1, <1>2, <1>3

(* Every step keeps the tables. *)
LEMMA TablesKept == TInv /\ [Next]_vars => TInv'
<1> SUFFICES ASSUME TInv, [Next]_vars PROVE TInv'
  OBVIOUS
<1>1. CASE UNCHANGED vars
  <2>1. UNCHANGED <<tab, count, released, files, call, lost, dropped, made>>
    BY <1>1 DEF vars
  <2>2. \A T : Users(T)' = Users(T) /\ Closing(T)' = Closing(T)
    BY <2>1 DEF Users, Closing
  <2>3. \A T : SlotsOK(T)' <=> SlotsOK(T)
    BY <2>1, <2>2 DEF SlotsOK
  <2>4. \A T : TabOK(T)' <=> TabOK(T)
    BY <2>1, <2>2, <2>3 DEF TabOK
  <2>5. ASSUME NEW t \in Tasks PROVE CallOK(t)'
    BY <2>1, <2>2 DEF TInv, CallOK
  <2>6. Types'
    BY <2>1 DEF TInv, Types
  <2> QED BY <2>4, <2>5, <2>6 DEF TInv
<1>2. ASSUME NEW t \in Tasks, NEW i \in Fds, Hold(t, i) PROVE TInv'
  BY <1>2, DupStep
<1>3. ASSUME NEW t \in Tasks, Sweep(t) PROVE TInv'
  BY <1>3, SweepSlotStep, SweepEndStep
<1> QED BY <1>1, <1>2, <1>3, OpenStep, AllocStep, AllocFailsStep, AttachStep, PutStep, LastStep,
           DropStep, CloseStep, DupStep, ForkSharedStep, ForkCopyStep, ExitStep, ExecStep,
           PutTableStep, DecTableStep DEF Next

(* At the start Root alone uses Table0, and nothing is open. *)
LEMMA TablesInit == Init => TInv
<1> SUFFICES ASSUME Init PROVE TInv
  OBVIOUS
<1>1. Idle \in Calls /\ Shape(Idle) /\ Idle.table = None /\ Idle.at = "idle"
  BY IdleCall DEF Idle
<1> DEFINE E == [Empty EXCEPT !.live = TRUE, !.ref = 1]
<1>2. /\ Empty \in TabType /\ ~Empty.live /\ Empty.ref = 0 /\ Empty.open = {}
      /\ \A i \in Fds : Empty.fd[i] = None
  BY FdTableAssumption DEF Empty, TabType, MaybeFile
<1>e. E \in TabType /\ E.live /\ E.ref = 1 /\ E.open = {} /\ \A i \in Fds : E.fd[i] = None
  <2>1. E.live /\ E.ref = 1 /\ E.open = Empty.open /\ E.fd = Empty.fd
    BY DEF Empty
  <2>3. E \in TabType
    BY <1>2 DEF TabType
  <2> QED BY <1>2, <2>1, <2>3
<1>3. /\ tab[Table0] = E
      /\ \A T \in Tables \ {Table0} : tab[T] = Empty
      /\ \A t \in Tasks : call[t] = Idle /\ files[t] = IF t = Root THEN Table0 ELSE None
  BY FdTableAssumption DEF Init
<1>4. Types
  <2>1. tab \in [Tables -> TabType]
    BY <1>2, <1>e, FdTableAssumption DEF Init
  <2> QED BY <1>1, <2>1, FdTableAssumption DEF Init, Types
<1>5. /\ Users(Table0) = {Root} /\ \A T \in Tables \ {Table0} : Users(T) = {}
      /\ \A T \in Tables : Closing(T) = {}
  BY <1>1, <1>3, FdTableAssumption DEF Users, Closing
<1>6. \A t \in Tasks : CallOK(t)
  BY <1>1, <1>3, FdTableAssumption DEF CallOK, Lone, Putting
<1>7. ASSUME NEW T \in Tables PROVE TabOK(T)
  <2> HIDE DEF E
  <2>1. \A i \in Fds : tab[T].fd[i] = None
    BY <1>2, <1>e, <1>3
  <2>2. tab[T].open = {} /\ (T # Table0 => ~tab[T].live /\ tab[T].ref = 0)
        /\ (T = Table0 => tab[T].live /\ tab[T].ref = 1)
    BY <1>2, <1>e, <1>3
  <2>3. Cardinality({Root}) = 1 /\ Cardinality({}) = 0
    BY FS_Singleton, FS_EmptySet
  <2> QED BY <1>3, <1>5, <2>1, <2>2, <2>3 DEF TabOK, SlotsOK
<1> QED BY <1>4, <1>6, <1>7 DEF TInv

(* do_close_on_exec, which dereferences every open slot, runs on a table    *)
(* that no other task uses and that has no reserved slot, whatever forks,  *)
(* exits and execs of the sharers went before.                             *)
THEOREM ExecRunsAlone == Spec => []ExecIsAlone
<1>1. ASSUME TInv PROVE ExecIsAlone
  <2> SUFFICES ASSUME NEW t \in Tasks, call[t].at = "cloexec"
               PROVE  /\ \A u \in Tasks \ {t} : files[u] # files[t]
                      /\ InUse(Mine(t)) = Mine(t).open
    BY DEF ExecIsAlone
  <2>1. /\ Users(files[t]) = {t} /\ files[t] # None /\ call[t].table = None
        /\ files[t] \in Tables /\ tab[files[t]] \in TabType /\ t \in Users(files[t])
    BY <1>1 DEF TInv, Types, CallOK, Lone, Shape, Putting, Users
  <2>2. TabOK(files[t]) /\ Closing(files[t]) = {}
    BY <1>1, <2>1 DEF TInv, TabOK, Closing
  <2>3. SlotsOK(files[t])
    BY <2>1, <2>2 DEF TabOK
  <2>4. \A u \in Tasks : files[u] = files[t] => u = t
    BY <2>1 DEF Users
  <2>5. \A i \in Fds : i \in tab[files[t]].open => tab[files[t]].fd[i] # None
    BY <2>2, <2>3, <2>4 DEF SlotsOK
  <2> QED BY <2>1, <2>4, <2>5 DEF InUse, Mine, TabType
<1> QED BY <1>1, TablesInit, TablesKept, PTL DEF Spec

-----------------------------------------------------------------------------
(* The counts of the files. *)

(* The calls that have put f and look at its count next. *)
Lasters(f) == {t \in Tasks : call[t].at = "last" /\ call[t].old = f}

(* The numbers of slots, of holders, of putters and of calls that look. *)
NS(f) == Cardinality(Slots(f))
NH(f) == Cardinality(Holders(f))
NP(f) == Cardinality(Putters(f))
NL(f) == Cardinality(Lasters(f))

FileOK(f) ==
  /\ count[f] = NS(f) + NH(f) + NP(f) + lost[f]
  /\ f \notin made => NS(f) = 0 /\ NH(f) = 0 /\ NP(f) = 0 /\ NL(f) = 0 /\ lost[f] = 0
                        /\ released[f] = 0
  /\ released[f] > 0 => NS(f) = 0 /\ NH(f) = 0 /\ NP(f) = 0
  /\ released[f] + NL(f) <= Cardinality(Tasks)
  /\ f \in made => count[f] > 0 \/ released[f] > 0 \/ f \in dropped \/ NL(f) > 0

(* sys_open's file is nobody else's until it is attached. *)
Fresh(t, f) ==
  /\ Holders(f) = {t} /\ NS(f) = 0 /\ NP(f) = 0 /\ NL(f) = 0
  /\ lost[f] = 0 /\ released[f] = 0
Opening(c) == c.at = "alloc" /\ c.then = "open"

RInv ==
  /\ \A f \in Files : FileOK(f)
  /\ \A t \in Tasks : Opening(call[t]) => Fresh(t, call[t].file)

(* Nothing about file f changes. *)
Same(f) ==
  /\ Slots(f)' = Slots(f) /\ Holders(f)' = Holders(f)
  /\ Putters(f)' = Putters(f) /\ Lasters(f)' = Lasters(f)
  /\ count'[f] = count[f] /\ lost'[f] = lost[f] /\ released'[f] = released[f]
  /\ (f \in made' <=> f \in made) /\ (f \in dropped => f \in dropped')

B(p) == IF p THEN 1 ELSE 0

(* Two sets that differ at most in x. *)
LEMMA OneMember ==
  ASSUME NEW S, NEW S2, NEW x, IsFiniteSet(S), \A y : y # x => (y \in S2 <=> y \in S)
  PROVE  /\ IsFiniteSet(S2) /\ Cardinality(S) \in Nat /\ Cardinality(S2) \in Nat
         /\ Cardinality(S2) = Cardinality(S) - B(x \in S) + B(x \in S2)
<1>1. Cardinality(S) \in Nat
  BY FS_CardinalityType
<1>2. CASE (x \in S <=> x \in S2)
  <2>1. S2 = S
    BY <1>2
  <2> QED BY <1>1, <1>2, <2>1 DEF B
<1>3. CASE x \in S /\ x \notin S2
  <2>1. S2 = S \ {x}
    BY <1>3
  <2>2. IsFiniteSet(S2) /\ Cardinality(S2) = Cardinality(S) - 1
    BY <1>3, <2>1, FS_RemoveElement
  <2> QED BY <1>1, <1>3, <2>2, FS_CardinalityType DEF B
<1>4. CASE x \notin S /\ x \in S2
  <2>1. S2 = S \cup {x}
    BY <1>4
  <2>2. IsFiniteSet(S2) /\ Cardinality(S2) = Cardinality(S) + 1
    BY <1>4, <2>1, FS_AddElement
  <2> QED BY <1>1, <1>4, <2>2, FS_CardinalityType DEF B
<1> QED BY <1>2, <1>3, <1>4

(* The sets that are counted are finite. *)
LEMMA RefsFinite ==
  ASSUME NEW f
  PROVE  /\ IsFiniteSet(Slots(f)) /\ IsFiniteSet(Holders(f))
         /\ IsFiniteSet(Putters(f)) /\ IsFiniteSet(Lasters(f))
         /\ NS(f) \in Nat /\ NH(f) \in Nat /\ NP(f) \in Nat /\ NL(f) \in Nat
         /\ NL(f) <= Cardinality(Tasks) /\ Cardinality(Tasks) \in Nat \ {0}
         /\ (NS(f) = 0 <=> Slots(f) = {}) /\ (NH(f) = 0 <=> Holders(f) = {})
         /\ (NP(f) = 0 <=> Putters(f) = {}) /\ (NL(f) = 0 <=> Lasters(f) = {})
<1>1. IsFiniteSet(Fds)
  BY FdTableAssumption, FS_Interval DEF Fds
<1>2. IsFiniteSet(Tables \X Fds)
  BY <1>1, FdTableAssumption, FS_Product
<1>3. Slots(f) \subseteq Tables \X Fds
  BY DEF Slots
<1>4. Holders(f) \subseteq Tasks /\ Putters(f) \subseteq Tasks /\ Lasters(f) \subseteq Tasks
  BY DEF Holders, Putters, Lasters
<1>5. IsFiniteSet(Slots(f))
  BY <1>2, <1>3, FS_Subset
<1>6. /\ IsFiniteSet(Holders(f)) /\ IsFiniteSet(Putters(f)) /\ IsFiniteSet(Lasters(f))
      /\ Cardinality(Lasters(f)) <= Cardinality(Tasks)
  BY <1>4, FdTableAssumption, FS_Subset
<1> QED BY <1>5, <1>6, FdTableAssumption, FS_CardinalityType, FS_EmptySet DEF NS, NH, NP, NL

(* What a step of one call does to the calls that refer to f. *)
LEMMA CallMoves ==
  ASSUME TInv, NEW t \in Tasks, NEW c, Goes(t, c), NEW f
  PROVE  /\ NH(f) \in Nat /\ NP(f) \in Nat /\ NL(f) \in Nat
         /\ NH(f)' \in Nat /\ NP(f)' \in Nat /\ NL(f)' \in Nat
         /\ NH(f)' = NH(f) - B(call[t].file = f) + B(c.file = f)
         /\ NP(f)' = NP(f) - B(call[t].at = "put" /\ call[t].old = f) + B(c.at = "put" /\ c.old = f)
         /\ NL(f)' = NL(f) - B(call[t].at = "last" /\ call[t].old = f) + B(c.at = "last" /\ c.old = f)
<1>1. call'[t] = c /\ \A u \in Tasks : u # t => call'[u] = call[u]
  BY DEF TInv, Types, Goes
<1>2. /\ \A u : u # t => (u \in Holders(f)' <=> u \in Holders(f))
      /\ t \in Holders(f) <=> call[t].file = f
      /\ t \in Holders(f)' <=> c.file = f
  BY <1>1 DEF Holders
<1>3. /\ \A u : u # t => (u \in Putters(f)' <=> u \in Putters(f))
      /\ t \in Putters(f) <=> call[t].at = "put" /\ call[t].old = f
      /\ t \in Putters(f)' <=> c.at = "put" /\ c.old = f
  BY <1>1 DEF Putters
<1>4. /\ \A u : u # t => (u \in Lasters(f)' <=> u \in Lasters(f))
      /\ t \in Lasters(f) <=> call[t].at = "last" /\ call[t].old = f
      /\ t \in Lasters(f)' <=> c.at = "last" /\ c.old = f
  BY <1>1 DEF Lasters
<1>5. IsFiniteSet(Holders(f)) /\ IsFiniteSet(Putters(f)) /\ IsFiniteSet(Lasters(f))
  BY RefsFinite
<1>6. /\ NH(f) \in Nat /\ NH(f)' \in Nat
      /\ NH(f)' = NH(f) - B(call[t].file = f) + B(c.file = f)
  <2> DEFINE S == Holders(f)
             S2 == Holders(f)'
  <2>1. /\ Cardinality(S) \in Nat /\ Cardinality(S2) \in Nat
        /\ Cardinality(S2) = Cardinality(S) - B(t \in S) + B(t \in S2)
    <3>1. IsFiniteSet(S) /\ \A u : u # t => (u \in S2 <=> u \in S)
      BY <1>2, <1>5
    <3> HIDE DEF S, S2
    <3> QED BY <3>1, OneMember
  <2> QED BY <1>2, <2>1 DEF NH, B
<1>7. /\ NP(f) \in Nat /\ NP(f)' \in Nat
      /\ NP(f)' = NP(f) - B(call[t].at = "put" /\ call[t].old = f) + B(c.at = "put" /\ c.old = f)
  <2> DEFINE S == Putters(f)
             S2 == Putters(f)'
  <2>1. /\ Cardinality(S) \in Nat /\ Cardinality(S2) \in Nat
        /\ Cardinality(S2) = Cardinality(S) - B(t \in S) + B(t \in S2)
    <3>1. IsFiniteSet(S) /\ \A u : u # t => (u \in S2 <=> u \in S)
      BY <1>3, <1>5
    <3> HIDE DEF S, S2
    <3> QED BY <3>1, OneMember
  <2> QED BY <1>3, <2>1 DEF NP, B
<1>8. /\ NL(f) \in Nat /\ NL(f)' \in Nat
      /\ NL(f)' = NL(f) - B(call[t].at = "last" /\ call[t].old = f) + B(c.at = "last" /\ c.old = f)
  <2> DEFINE S == Lasters(f)
             S2 == Lasters(f)'
  <2>1. /\ Cardinality(S) \in Nat /\ Cardinality(S2) \in Nat
        /\ Cardinality(S2) = Cardinality(S) - B(t \in S) + B(t \in S2)
    <3>1. IsFiniteSet(S) /\ \A u : u # t => (u \in S2 <=> u \in S)
      BY <1>4, <1>5
    <3> HIDE DEF S, S2
    <3> QED BY <3>1, OneMember
  <2> QED BY <1>4, <2>1 DEF NL, B
<1> QED BY <1>6, <1>7, <1>8

(* A step of one call that leaves f alone. *)
LEMMA CallSame ==
  ASSUME TInv, NEW t \in Tasks, NEW c, Goes(t, c), NEW f,
         c.file = f <=> call[t].file = f,
         c.at \in {"put", "last"} /\ c.old = f <=> call[t].at \in {"put", "last"} /\ call[t].old = f,
         call[t].old = f /\ call[t].at \in {"put", "last"} => c.at = call[t].at
  PROVE  Holders(f)' = Holders(f) /\ Putters(f)' = Putters(f) /\ Lasters(f)' = Lasters(f)
<1>1. call'[t] = c /\ \A u \in Tasks : u # t => call'[u] = call[u]
  BY DEF TInv, Types, Goes
<1> QED BY <1>1 DEF Holders, Putters, Lasters

(* One slot changes. *)
LEMMA SlotMoves ==
  ASSUME NEW T \in Tables, NEW k \in Fds, NEW g, tab'[T].fd[k] = g,
         \A i \in Fds : i # k => tab'[T].fd[i] = tab[T].fd[i],
         \A U \in Tables \ {T} : tab'[U].fd = tab[U].fd, NEW f
  PROVE  /\ NS(f) \in Nat /\ NS(f)' \in Nat
         /\ NS(f)' = NS(f) - B(tab[T].fd[k] = f) + B(g = f)
         /\ tab[T].fd[k] # f /\ g # f => Slots(f)' = Slots(f)
<1> DEFINE S == Slots(f)
           S2 == Slots(f)'
           x == <<T, k>>
<1>1. ASSUME NEW y, y # x PROVE y \in S2 <=> y \in S
  <2>1. CASE y \in Tables \X Fds
    <3>1. PICK U \in Tables, i \in Fds : y = <<U, i>>
      BY <2>1
    <3>2. tab'[U].fd[i] = tab[U].fd[i]
      BY <1>1, <3>1
    <3> QED BY <3>1, <3>2 DEF Slots
  <2>2. CASE y \notin Tables \X Fds
    BY <2>2 DEF Slots
  <2> QED BY <2>1, <2>2
<1>2. (x \in S <=> tab[T].fd[k] = f) /\ (x \in S2 <=> g = f)
  BY DEF Slots
<1>3. IsFiniteSet(S)
  BY RefsFinite
<1>4. NS(f) = Cardinality(S) /\ NS(f)' = Cardinality(S2)
  BY DEF NS
<1>5. tab[T].fd[k] # f /\ g # f => S2 = S
  <2> HIDE DEF S, S2, x
  <2> QED BY <1>1, <1>2
<1>6. /\ Cardinality(S) \in Nat /\ Cardinality(S2) \in Nat
      /\ Cardinality(S2) = Cardinality(S) - B(x \in S) + B(x \in S2)
  <2> HIDE DEF S, S2, x
  <2> QED BY <1>1, <1>3, OneMember
<1>7. B(x \in S) = B(tab[T].fd[k] = f) /\ B(x \in S2) = B(g = f)
  <2> HIDE DEF S, S2, x
  <2> QED BY <1>2 DEF B
<1> QED BY <1>4, <1>5, <1>6, <1>7

(* A step touches the files X; no other call is opening one of them. *)
LEMMA RefStep ==
  ASSUME TInv, RInv, NEW t \in Tasks, NEW c, NEW X \in SUBSET Files,
         call'[t] = c, \A u \in Tasks \ {t} : call'[u] = call[u],
         \A f \in Files \ X : Same(f),
         \A f \in X : FileOK(f)',
         \A f \in X : f \notin made \/ NS(f) > 0 \/ NP(f) > 0 \/ NL(f) > 0 \/ call[t].file = f,
         Opening(c) => Fresh(t, c.file)'
  PROVE  RInv'
<1>1. ASSUME NEW f \in Files \ X PROVE FileOK(f)'
  <2>1. Same(f) /\ FileOK(f)
    BY <1>1 DEF RInv
  <2>2. NS(f)' = NS(f) /\ NH(f)' = NH(f) /\ NP(f)' = NP(f) /\ NL(f)' = NL(f)
    BY <2>1 DEF Same, NS, NH, NP, NL
  <2> QED BY <2>1, <2>2 DEF FileOK, Same
<1>2. ASSUME NEW u \in Tasks, Opening(call'[u]), u # t PROVE Fresh(u, call[u].file)'
  <2> DEFINE f == call[u].file
  <2>1. call'[u] = call[u] /\ Opening(call[u]) /\ Fresh(u, f)
    BY <1>2 DEF RInv
  <2>2. f \in Files
    BY <2>1 DEF TInv, Types, CallOK, Shape, Calls, MaybeFile, Opening
  <2>3. call[t].file # f
    BY <1>2, <2>1 DEF Fresh, Holders
  <2>4. f \in made
    <3>1. NH(f) # 0
      BY <2>1, RefsFinite DEF Fresh
    <3> QED BY <2>2, <3>1 DEF RInv, FileOK
  <2>5. f \notin X
    BY <2>1, <2>2, <2>3, <2>4 DEF Fresh
  <2>6. Same(f)
    BY <2>2, <2>5
  <2>7. call'[u].file = call[u].file
    BY <2>1
  <2>8. Fresh(u, f)'
    <3>1. ASSUME NEW g, g = f PROVE Fresh(u, g)'
      <4>1. Same(g) /\ Fresh(u, g)
        BY <2>1, <2>6, <3>1
      <4>2. NS(g)' = NS(g) /\ NP(g)' = NP(g) /\ NL(g)' = NL(g)
        BY <4>1 DEF Same, NS, NP, NL
      <4> QED BY <4>1, <4>2 DEF Fresh, Same
    <3> QED BY <2>7, <3>1
  <2> QED BY <2>8
<1>3. ASSUME NEW u \in Tasks, Opening(call[u])' PROVE Fresh(u, call[u].file)'
  <2>1. CASE u = t
    BY <1>3, <2>1
  <2>2. CASE u # t
    BY <1>2, <1>3, <2>2
  <2> QED BY <2>1, <2>2
<1>4. \A f \in Files : FileOK(f)'
  BY <1>1
<1> QED BY <1>3, <1>4 DEF RInv

(* A step that changes no reference. *)
LEMMA QuietStep ==
  ASSUME TInv, RInv, NEW t \in Tasks, NEW c, Goes(t, c), c.file = call[t].file,
         call[t].at \notin {"put", "last"}, c.at \notin {"put", "last"}, ~Opening(c),
         \A f \in Files : Slots(f)' = Slots(f), UNCHANGED <<count, released, lost, dropped, made>>
  PROVE  RInv'
<1>1. call'[t] = c /\ \A u \in Tasks \ {t} : call'[u] = call[u]
  BY DEF TInv, Types, Goes
<1>2. ASSUME NEW f \in Files PROVE Same(f)
  BY CallSame DEF Same
<1> DEFINE X == {}
<1>3. X \in SUBSET Files /\ X = {}
  OBVIOUS
<1> HIDE DEF X
<1> QED BY <1>1, <1>2, <1>3, RefStep

(* Slots are what the tables' fd arrays say. *)
LEMMA SlotsSame ==
  ASSUME \A T \in Tables, i \in Fds : tab'[T].fd[i] = tab[T].fd[i], NEW f
  PROVE  Slots(f)' = Slots(f)
BY DEF Slots

(* The steps of calls that touch no reference. *)
LEMMA QuietCalls ==
  ASSUME TInv, RInv, NEW t \in Tasks,
         \/ PutTable(t) \/ DecTable(t) \/ Exit(t)
         \/ AllocFails(t) /\ call[t].then # "open"
         \/ Exec(t) /\ Mine(t).ref <= 1
         \/ Steal(t) /\ Mine(t).fd[call[t].fd] = None
         \/ CloseOnExec(t) /\ Goes(t, Idle) /\ UNCHANGED <<tab, count, released, files, lost, dropped, made>>
  PROVE  RInv'
<1>0. Shape(call[t]) /\ call[t] \in Calls
  BY DEF TInv, CallOK, Types
<1>1. ASSUME NEW c, Goes(t, c), c.file = call[t].file, call[t].at \notin {"put", "last"},
             c.at \notin {"put", "last", "alloc"}, UNCHANGED <<count, released, lost, dropped, made>>,
             tab' = tab
      PROVE  RInv'
  <2>1. \A f \in Files : Slots(f)' = Slots(f)
    BY <1>1, SlotsSame
  <2>2. ~Opening(c)
    BY <1>1 DEF Opening
  <2> QED BY <1>1, <2>1, <2>2, QuietStep
<1>2. CASE PutTable(t)
  <2> DEFINE a == IF tab[call[t].table].ref > 1 THEN "dectable" ELSE "sweep"
             c == [call[t] EXCEPT !.at = a]
  <2>1. a \in {"dectable", "sweep"}
    OBVIOUS
  <2>2. Goes(t, c) /\ call[t].at = "puttable" /\ UNCHANGED <<tab, count, released, files, lost, dropped, made>>
    BY <1>2 DEF PutTable
  <2> HIDE DEF a
  <2>3. c.file = call[t].file /\ c.at = a
    BY <1>0 DEF Calls
  <2> HIDE DEF c
  <2> QED BY <1>1, <2>1, <2>2, <2>3
<1>3. CASE Exit(t)
  <2> DEFINE c == [Idle EXCEPT !.at = "puttable", !.table = files[t]]
  <2>1. c.file = None /\ c.at = "puttable" /\ call[t].file = None /\ call[t].at = "idle"
    BY <1>0, <1>3 DEF Exit, Free, Shape, Putting, Idle
  <2>2. Goes(t, c) /\ UNCHANGED <<tab, count, released, lost, dropped, made>>
    BY <1>3 DEF Exit
  <2> HIDE DEF c
  <2> QED BY <1>1, <2>1, <2>2
<1>4. CASE AllocFails(t) /\ call[t].then # "open"
  <2> DEFINE c == [Idle EXCEPT !.at = "drop", !.file = call[t].file]
  <2>1. c.file = call[t].file /\ c.at = "drop"
    BY DEF Idle
  <2>2. Goes(t, c) /\ call[t].at = "alloc" /\ UNCHANGED <<tab, count, released, lost, dropped, made>>
    BY <1>4 DEF AllocFails
  <2> HIDE DEF c
  <2> QED BY <1>1, <2>1, <2>2
<1>5. CASE Exec(t) /\ Mine(t).ref <= 1
  <2> DEFINE c == [Idle EXCEPT !.at = "cloexec"]
  <2>1. c.file = None /\ c.at = "cloexec" /\ call[t].file = None /\ call[t].at = "idle"
    BY <1>0, <1>5 DEF Exec, Free, Shape, Putting, Idle
  <2>2. Mine(t).ref \in Nat
    BY <1>5 DEF Exec, Free, TInv, Types, TabType, Mine
  <2>3. Goes(t, c) /\ UNCHANGED <<tab, count, released, lost, dropped, made>>
    BY <1>5, <2>2 DEF Exec
  <2> HIDE DEF c
  <2> QED BY <1>1, <2>1, <2>3
<1>6. CASE Steal(t) /\ Mine(t).fd[call[t].fd] = None
  <2> DEFINE c == [call[t] EXCEPT !.at = "attach"]
  <2>1. c.file = call[t].file /\ c.at = "attach"
    BY <1>0 DEF Calls
  <2>2. Goes(t, c) /\ call[t].at = "steal" /\ UNCHANGED <<tab, count, released, lost, dropped, made>>
    BY <1>6 DEF Steal
  <2> HIDE DEF c
  <2> QED BY <1>1, <2>1, <2>2
<1>7. CASE CloseOnExec(t) /\ Goes(t, Idle) /\ UNCHANGED <<tab, count, released, files, lost, dropped, made>>
  <2>1. Idle.file = None /\ Idle.at = "idle" /\ call[t].file = None /\ call[t].at = "cloexec"
    BY <1>0, <1>7 DEF CloseOnExec, Shape, Putting, Idle
  <2> QED BY <1>1, <1>7, <2>1
<1>8. CASE DecTable(t)
  <2> DEFINE c == AfterTable(t)
             T0 == call[t].table
  <2>1. c.file = None /\ c.at \in {"idle", "cloexec"} /\ call[t].file = None /\ call[t].at = "dectable"
        /\ T0 \in Tables
    BY <1>0, <1>8 DEF DecTable, Shape, Putting, AfterTable, Idle, Calls
  <2>2. Goes(t, c) /\ UNCHANGED <<count, released, lost, dropped, made>>
        /\ tab' = [tab EXCEPT ![T0].ref = @ - 1]
    BY <1>8 DEF DecTable
  <2>3. \A T \in Tables : tab'[T].fd = tab[T].fd
    BY <2>1, <2>2 DEF TInv, Types, TabType
  <2>4. \A f \in Files : Slots(f)' = Slots(f)
    BY <2>3, SlotsSame
  <2>5. ~Opening(c)
    BY <2>1 DEF Opening
  <2> HIDE DEF c
  <2> QED BY <2>1, <2>2, <2>4, <2>5, QuietStep
<1> QED BY <1>2, <1>3, <1>4, <1>5, <1>6, <1>7, <1>8

(* __alloc_fd takes an empty slot. *)
LEMMA AllocRefs == ASSUME TInv, RInv, NEW t \in Tasks, Alloc(t) PROVE RInv'
<1> DEFINE F == files[t]
           i == Min(FreeFds(Mine(t), call[t].start))
           c == [Idle EXCEPT !.at = "attach", !.file = call[t].file, !.fd = i]
<1>0. /\ call[t] \in Calls /\ Shape(call[t]) /\ call[t].at = "alloc" /\ call[t].table = None
      /\ F \in Tables /\ tab[F] \in TabType /\ tab \in [Tables -> TabType] /\ F # None
      /\ call[t].start \in Fds
  BY DEF Alloc, TInv, Types, CallOK, Shape, Putting, Calls
<1>1. i \in Fds /\ i \notin tab[F].open
  BY <1>0, FreeIsAFd DEF Alloc, Mine
<1>2. tab' = [tab EXCEPT ![F] = Reserved(tab[F], i)] /\ Goes(t, c)
  BY <1>0 DEF Alloc
<1>3. c.file = call[t].file /\ c.at = "attach"
  BY DEF Idle
<1> HIDE DEF i, c
<1>5. TabOK(F) /\ t \in Users(F)
  BY <1>0 DEF TInv, Users
<1>6. tab[F].fd[i] = None
  BY <1>1, <1>5 DEF TabOK, SlotsOK
<1>7. Reserved(tab[F], i).fd = [tab[F].fd EXCEPT ![i] = None]
  BY <1>0, <1>1, ReservedTable
<1>8. \A T \in Tables, k \in Fds : tab'[T].fd[k] = tab[T].fd[k]
  BY <1>0, <1>2, <1>6, <1>7 DEF TabType
<1>9. \A f \in Files : Slots(f)' = Slots(f)
  BY <1>8, SlotsSame
<1>10. UNCHANGED <<count, released, lost, dropped, made>> /\ ~Opening(c)
  BY <1>3 DEF Alloc, Opening
<1> QED BY <1>0, <1>2, <1>3, <1>9, <1>10, QuietStep

(* A table is freed without a file in it. *)
LEMMA SweepEndRefs ==
  ASSUME TInv, RInv, NEW t \in Tasks, Sweep(t), InUse(tab[call[t].table]) = {}
  PROVE  RInv'
<1> DEFINE T0 == call[t].table
           c == AfterTable(t)
<1>0. /\ call[t] \in Calls /\ Shape(call[t]) /\ call[t].at = "sweep" /\ call[t].file = None
      /\ T0 \in Tables /\ T0 # None /\ tab[T0] \in TabType /\ tab \in [Tables -> TabType]
      /\ TabOK(T0) /\ t \in Users(T0)
  BY DEF Sweep, TInv, Types, CallOK, Shape, Putting, Calls, Users
<1>1. /\ tab' = [tab EXCEPT ![T0] = Empty] /\ Goes(t, c)
      /\ UNCHANGED <<count, released, lost, dropped, made>>
  BY <1>0 DEF Sweep
<1>2. c.file = None /\ c.at \in {"idle", "cloexec"}
  BY DEF AfterTable, Idle
<1>3. \A i \in Fds : tab[T0].fd[i] = None
  <2>1. SlotsOK(T0)
    BY <1>0 DEF TabOK
  <2> QED BY <1>0, <2>1 DEF SlotsOK, InUse
<1>4. \A i \in Fds : Empty.fd[i] = None
  BY DEF Empty
<1>5. \A T \in Tables, i \in Fds : tab'[T].fd[i] = tab[T].fd[i]
  BY <1>0, <1>1, <1>3, <1>4
<1>6. \A f \in Files : Slots(f)' = Slots(f)
  BY <1>5, SlotsSame
<1>7. ~Opening(c)
  BY <1>2 DEF Opening
<1> HIDE DEF c
<1> QED BY <1>0, <1>1, <1>2, <1>6, <1>7, QuietStep

(* A slot is emptied: its reference is the closer's. *)
LEMMA MoveOut ==
  ASSUME TInv, RInv, NEW t \in Tasks, NEW T \in Tables, NEW k \in Fds, NEW c, Goes(t, c),
         c.at = "put", c.old = tab[T].fd[k], c.old \in Files, c.file = call[t].file,
         call[t].at \notin {"put", "last"}, tab'[T].fd[k] = None,
         \A i \in Fds : i # k => tab'[T].fd[i] = tab[T].fd[i],
         \A U \in Tables \ {T} : tab'[U].fd = tab[U].fd,
         UNCHANGED <<count, released, lost, dropped, made>>
  PROVE  RInv'
<1> DEFINE g == c.old
           X == {g}
<1>1. call'[t] = c /\ \A u \in Tasks \ {t} : call'[u] = call[u]
  BY DEF TInv, Types, Goes
<1>2. ASSUME NEW f \in Files, f # g PROVE Same(f)
  <2>1. Slots(f)' = Slots(f)
    BY <1>2, FdTableAssumption, SlotMoves
  <2> QED BY <1>2, <2>1, CallSame DEF Same
<1>3. /\ NS(g)' = NS(g) - 1 /\ NS(g) \in Nat /\ NS(g)' \in Nat
  BY FdTableAssumption, SlotMoves DEF B
<1>4. /\ NH(g)' = NH(g) /\ NP(g)' = NP(g) + 1 /\ NL(g)' = NL(g)
      /\ NH(g) \in Nat /\ NP(g) \in Nat /\ NL(g) \in Nat
  BY CallMoves DEF B
<1>5. FileOK(g) /\ count[g] \in Nat /\ lost[g] \in Nat /\ released[g] \in Nat
  BY DEF RInv, TInv, Types
<1>6. ASSUME NEW f, f = g PROVE FileOK(f)'
  BY <1>3, <1>4, <1>5, <1>6 DEF FileOK
<1>7. NS(g) > 0
  BY <1>3
<1>8. ~Opening(c)
  BY DEF Opening
<1>9. X \in SUBSET Files /\ \A f : f \in X <=> f = g
  OBVIOUS
<1>10. \A f \in X : FileOK(f)' /\ NS(f) > 0
  BY <1>6, <1>7, <1>9
<1>11. \A f \in Files \ X : Same(f)
  BY <1>2, <1>9
<1> HIDE DEF X
<1> QED BY <1>1, <1>8, <1>9, <1>10, <1>11, RefStep

(* sys_close, dup2 and exec take a file out of its slot. *)
LEMMA VacateRefs ==
  ASSUME TInv, RInv, NEW t \in Tasks, NEW i \in Fds, NEW b, Vacate(t, i, b),
         b \in Calls, b.file = call[t].file, call[t].at \notin {"put", "last"},
         files[t] # None, Mine(t).fd[i] # None
  PROVE  RInv'
<1> DEFINE F == files[t]
           c == [b EXCEPT !.at = "put", !.old = Mine(t).fd[i]]
<1>0. /\ F \in Tables /\ tab[F] \in TabType /\ tab \in [Tables -> TabType]
      /\ Mine(t).fd[i] \in Files /\ Mine(t) = tab[F]
  BY DEF TInv, Types, TabType, MaybeFile, Mine
<1>1. Goes(t, c) /\ UNCHANGED <<count, released, lost, dropped, made>>
      /\ tab' = [tab EXCEPT ![F] = Vacated(tab[F], i)]
  BY <1>0 DEF Vacate
<1>2. c.at = "put" /\ c.old = tab[F].fd[i] /\ c.file = call[t].file /\ c.old \in Files
  BY <1>0 DEF Calls
<1>3. Vacated(tab[F], i).fd = [tab[F].fd EXCEPT ![i] = None]
  BY <1>0, VacatedTable
<1>4. /\ tab'[F].fd[i] = None /\ \A k \in Fds : k # i => tab'[F].fd[k] = tab[F].fd[k]
      /\ \A U \in Tables \ {F} : tab'[U].fd = tab[U].fd
  BY <1>0, <1>1, <1>3 DEF TabType
<1> HIDE DEF c
<1> QED BY <1>0, <1>1, <1>2, <1>4, MoveOut

(* close_files takes a file out of its slot. *)
LEMMA SweepSlotRefs ==
  ASSUME TInv, RInv, NEW t \in Tasks, Sweep(t), InUse(tab[call[t].table]) # {}
  PROVE  RInv'
<1> DEFINE F == call[t].table
           i == Min(InUse(tab[F]))
           c == [call[t] EXCEPT !.at = "put", !.then = "sweep", !.old = tab[F].fd[i]]
<1>0. /\ call[t] \in Calls /\ call[t].at = "sweep" /\ Shape(call[t])
      /\ F \in Tables /\ tab[F] \in TabType /\ tab \in [Tables -> TabType]
  BY DEF Sweep, TInv, Types, CallOK, Shape, Putting, Calls
<1>a. InUse(tab[F]) \in SUBSET Nat /\ InUse(tab[F]) \subseteq Fds
  BY <1>0 DEF InUse, TabType, Fds
<1>b. i \in InUse(tab[F])
  BY <1>a, LeastNumber
<1>2. /\ tab' = [tab EXCEPT ![F].fd[i] = None] /\ Goes(t, c)
      /\ UNCHANGED <<count, released, lost, dropped, made>>
  BY DEF Sweep
<1> HIDE DEF i
<1>c. i \in Fds /\ tab[F].fd[i] \in Files
  BY <1>0, <1>a, <1>b DEF InUse, TabType, MaybeFile
<1>3. c.at = "put" /\ c.old = tab[F].fd[i] /\ c.file = call[t].file /\ c.old \in Files
  BY <1>0, <1>c DEF Calls
<1>4. /\ tab'[F].fd[i] = None /\ \A k \in Fds : k # i => tab'[F].fd[k] = tab[F].fd[k]
      /\ \A U \in Tables \ {F} : tab'[U].fd = tab[U].fd
  BY <1>0, <1>c, <1>2 DEF TabType
<1> HIDE DEF c
<1> QED BY <1>0, <1>c, <1>2, <1>3, <1>4, MoveOut

(* sys_open's file has one reference, sys_open's. *)
LEMMA OpenRefs == ASSUME TInv, RInv, NEW t \in Tasks, Open(t) PROVE RInv'
<1>1. PICK g \in Files \ made :
        /\ count' = [count EXCEPT ![g] = 1] /\ made' = made \cup {g}
        /\ Goes(t, [Idle EXCEPT !.at = "alloc", !.file = g, !.then = "open"])
  BY DEF Open
<1> DEFINE c == [Idle EXCEPT !.at = "alloc", !.file = g, !.then = "open"]
           X == {g}
<1>2. c.at = "alloc" /\ c.file = g /\ c.then = "open" /\ c.old = None /\ Goes(t, c)
  BY <1>1 DEF Idle
<1>3. UNCHANGED <<tab, released, lost, dropped>> /\ call[t].at = "idle" /\ call[t].file = None
  BY DEF Open, Free, TInv, CallOK, Shape, Putting
<1> HIDE DEF c
<1>4. call'[t] = c /\ \A u \in Tasks \ {t} : call'[u] = call[u]
  BY <1>2 DEF TInv, Types, Goes
<1>5. \A f : Slots(f)' = Slots(f)
  BY <1>3, SlotsSame
<1>6. ASSUME NEW f \in Files, f # g PROVE Same(f)
  <2>1. f # None
    BY FdTableAssumption
  <2>2. Holders(f)' = Holders(f) /\ Putters(f)' = Putters(f) /\ Lasters(f)' = Lasters(f)
    BY <1>2, <1>3, <1>6, <2>1, CallSame
  <2> QED BY <1>1, <1>3, <1>5, <1>6, <2>2 DEF Same, TInv, Types
<1>7. g # None /\ FileOK(g) /\ count'[g] = 1 /\ g \in made'
  BY <1>1, FdTableAssumption DEF RInv, TInv, Types
<1>8. /\ NH(g)' = NH(g) + 1 /\ NP(g)' = NP(g) /\ NL(g)' = NL(g)
      /\ NH(g) \in Nat /\ NP(g) \in Nat /\ NL(g) \in Nat /\ NS(g)' = NS(g)
  <2>1. /\ NH(g)' = NH(g) + 1 /\ NP(g)' = NP(g) /\ NL(g)' = NL(g)
        /\ NH(g) \in Nat /\ NP(g) \in Nat /\ NL(g) \in Nat
    BY <1>2, <1>3, <1>7, CallMoves DEF B
  <2> QED BY <1>5, <2>1 DEF NS
<1>9. FileOK(g)' /\ Fresh(t, g)'
  <2>1. /\ NS(g) = 0 /\ NH(g) = 0 /\ NP(g) = 0 /\ NL(g) = 0 /\ lost[g] = 0 /\ released[g] = 0
    BY <1>1, <1>7 DEF FileOK
  <2>2. Holders(g) = {}
    BY <2>1, RefsFinite
  <2>3. Holders(g)' = {t}
    BY <1>2, <1>4, <2>2 DEF Holders
  <2>4. 0 <= Cardinality(Tasks)
    BY RefsFinite
  <2>5. FileOK(g)'
    BY <1>3, <1>7, <1>8, <2>1, <2>4 DEF FileOK
  <2> QED BY <1>3, <1>8, <2>1, <2>3, <2>5 DEF Fresh
<1>10. X \in SUBSET Files /\ \A f : f \in X <=> f = g
  OBVIOUS
<1>11. /\ \A f \in X : FileOK(f)' /\ f \notin made
       /\ \A f \in Files \ X : Same(f)
  BY <1>1, <1>6, <1>9, <1>10
<1> HIDE DEF X
<1> QED BY <1>2, <1>4, <1>9, <1>10, <1>11, RefStep

(* fd_get_file: the slot keeps its reference while the call takes one. *)
LEMMA GetRefs ==
  ASSUME TInv, RInv, NEW t \in Tasks, NEW i \in Fds, NEW b \in Calls, GetFile(t, i, b),
         b.at \in {"alloc", "steal", "drop"}, b.then # "open"
  PROVE  RInv'
<1> DEFINE F == files[t]
           g == Mine(t).fd[i]
           c == [b EXCEPT !.file = g]
<1>1. F \in Tables /\ call[t].at = "idle" /\ g \in Files /\ g # None /\ g = tab[F].fd[i]
  BY FdTableAssumption DEF GetFile, Free, TInv, Types, Mine, InUse, TabType, MaybeFile
<1>2. /\ count' = [count EXCEPT ![g] = @ + 1] /\ Goes(t, c)
      /\ UNCHANGED <<tab, released, lost, dropped, made>>
  BY DEF GetFile
<1>3. c.at = b.at /\ c.file = g /\ c.then = b.then /\ call[t].file = None
  BY <1>1 DEF Calls, TInv, CallOK, Shape, Putting
<1> HIDE DEF c
<1>4. call'[t] = c /\ \A u \in Tasks \ {t} : call'[u] = call[u]
  BY <1>2 DEF TInv, Types, Goes
<1>5. \A f : Slots(f)' = Slots(f)
  BY <1>2, SlotsSame
<1>6. NS(g) > 0 /\ NS(g) \in Nat
  <2>1. <<F, i>> \in Slots(g)
    BY <1>1 DEF Slots
  <2> QED BY <2>1, RefsFinite
<1> DEFINE h == g
<1>7. h = g /\ h \in Files
  BY <1>1
<1> HIDE DEF h
<1>8. ASSUME NEW f \in Files, f # h PROVE Same(f)
  <2>1. f # None
    BY FdTableAssumption
  <2>2. Holders(f)' = Holders(f) /\ Putters(f)' = Putters(f) /\ Lasters(f)' = Lasters(f)
    BY <1>1, <1>2, <1>3, <1>7, <1>8, <2>1, CallSame
  <2> QED BY <1>2, <1>5, <1>7, <1>8, <2>2 DEF Same, TInv, Types
<1>9. ASSUME NEW f \in Files, f = h PROVE FileOK(f)'
  <2>1. /\ NH(f)' = NH(f) + 1 /\ NP(f)' = NP(f) /\ NL(f)' = NL(f)
        /\ NH(f) \in Nat /\ NP(f) \in Nat /\ NL(f) \in Nat
    BY <1>1, <1>2, <1>3, <1>7, <1>9, CallMoves DEF B
  <2>2. NS(f)' = NS(f) /\ NS(f) \in Nat /\ NS(f) > 0
    BY <1>5, <1>6, <1>7, <1>9 DEF NS
  <2>3. FileOK(f) /\ lost[f] \in Nat /\ released[f] \in Nat /\ count[f] \in Nat
        /\ count'[f] = count[f] + 1
    BY <1>2, <1>7, <1>9 DEF RInv, TInv, Types
  <2> QED BY <1>2, <2>1, <2>2, <2>3 DEF FileOK
<1> DEFINE Y == {h}
<1>10. Y \in SUBSET Files /\ \A f : f \in Y <=> f = h
  BY <1>7
<1>11. /\ \A f \in Y : FileOK(f)' /\ NS(f) > 0
       /\ \A f \in Files \ Y : Same(f)
  BY <1>6, <1>7, <1>8, <1>9, <1>10
<1>12. ~Opening(c)
  BY <1>3 DEF Opening
<1> HIDE DEF Y
<1> QED BY <1>4, <1>10, <1>11, <1>12, RefStep

(* A step of one call, at one file, with the slots unchanged. *)
LEMMA OneFile ==
  ASSUME TInv, RInv, NEW t \in Tasks, NEW c, Goes(t, c), NEW g \in Files,
         tab' = tab, lost' = lost, made' = made, ~Opening(c), NP(g) > 0 \/ NL(g) > 0 \/ call[t].file = g,
         \A f \in Files : f # g =>
           /\ c.file = f <=> call[t].file = f
           /\ c.at \in {"put", "last"} /\ c.old = f <=> call[t].at \in {"put", "last"} /\ call[t].old = f
           /\ call[t].old = f /\ call[t].at \in {"put", "last"} => c.at = call[t].at
           /\ count'[f] = count[f] /\ released'[f] = released[f] /\ (f \in dropped => f \in dropped'),
         NS(g)' = NS(g) => FileOK(g)'
  PROVE  RInv'
<1> DEFINE X == {g}
<1>1. call'[t] = c /\ \A u \in Tasks \ {t} : call'[u] = call[u]
  BY DEF TInv, Types, Goes
<1>2. \A f : Slots(f)' = Slots(f)
  BY SlotsSame
<1>3. NS(g)' = NS(g)
  BY <1>2 DEF NS
<1>4. ASSUME NEW f \in Files, f # g PROVE Same(f)
  <2>1. Holders(f)' = Holders(f) /\ Putters(f)' = Putters(f) /\ Lasters(f)' = Lasters(f)
    BY <1>4, CallSame
  <2> QED BY <1>2, <1>4, <2>1 DEF Same
<1>5. X \in SUBSET Files /\ \A f : f \in X <=> f = g
  OBVIOUS
<1>6. /\ \A f \in X : FileOK(f)' /\ (NP(f) > 0 \/ NL(f) > 0 \/ call[t].file = f)
      /\ \A f \in Files \ X : Same(f)
  BY <1>3, <1>4, <1>5
<1> HIDE DEF X
<1> QED BY <1>1, <1>5, <1>6, RefStep

(* A call in Holders, Putters or Lasters is counted there. *)
LEMMA CallCounts ==
  ASSUME NEW t \in Tasks, NEW f
  PROVE  /\ call[t].file = f => NH(f) > 0
         /\ call[t].at = "put" /\ call[t].old = f => NP(f) > 0
         /\ call[t].at = "last" /\ call[t].old = f => NL(f) > 0
<1>1. /\ call[t].file = f => t \in Holders(f)
      /\ call[t].at = "put" /\ call[t].old = f => t \in Putters(f)
      /\ call[t].at = "last" /\ call[t].old = f => t \in Lasters(f)
  BY DEF Holders, Putters, Lasters
<1> QED BY <1>1, RefsFinite

(* sys_open gives up: it has the file for itself, and releases it. *)
LEMMA AllocFailsRefs ==
  ASSUME TInv, RInv, NEW t \in Tasks, AllocFails(t), call[t].then = "open"
  PROVE  RInv'
<1>0. /\ call[t] \in Calls /\ call[t].at = "alloc" /\ Opening(call[t]) /\ call[t].file \in Files
  BY DEF AllocFails, TInv, Types, CallOK, Shape, Putting, Calls, MaybeFile, Opening
<1>1. PICK g \in Files : g = call[t].file
  BY <1>0
<1>2. Idle.at = "idle" /\ Idle.file = None /\ Idle.old = None /\ ~Opening(Idle) /\ g # None
  BY FdTableAssumption DEF Idle, Opening
<1>3. /\ Goes(t, Idle) /\ UNCHANGED <<tab, lost, dropped, made>>
      /\ count' = [count EXCEPT ![g] = 0] /\ released' = [released EXCEPT ![g] = @ + 1]
  BY <1>1 DEF AllocFails
<1>4. Fresh(t, g) /\ FileOK(g)
  BY <1>0, <1>1 DEF RInv
<1>5. /\ NH(g)' = NH(g) - 1 /\ NP(g)' = NP(g) /\ NL(g)' = NL(g)
      /\ NH(g) \in Nat /\ NP(g) \in Nat /\ NL(g) \in Nat
  BY <1>0, <1>1, <1>2, <1>3, CallMoves DEF B
<1>6. NH(g) = 1
  BY <1>4, FS_Singleton DEF Fresh, NH
<1>7. count'[g] = 0 /\ released'[g] = 1 /\ g \in made
  BY <1>3, <1>4, <1>6 DEF TInv, Types, Fresh, FileOK
<1>8. Cardinality(Tasks) \in Nat \ {0}
  BY RefsFinite
<1>9. NS(g)' = NS(g) => FileOK(g)'
  BY <1>3, <1>4, <1>5, <1>6, <1>7, <1>8 DEF FileOK, Fresh
<1>10. \A f \in Files : f # g => count'[f] = count[f] /\ released'[f] = released[f] /\ f # None
  BY <1>3, FdTableAssumption DEF TInv, Types
<1> QED BY <1>0, <1>1, <1>2, <1>3, <1>9, <1>10, OneFile

(* put_file: the reference is gone, the look at the count to come. *)
LEMMA PutRefs == ASSUME TInv, RInv, NEW t \in Tasks, Put(t) PROVE RInv'
<1> DEFINE c == [call[t] EXCEPT !.at = "last"]
<1>0. call[t] \in Calls /\ call[t].at = "put" /\ call[t].old \in Files
  BY DEF Put, TInv, Types, CallOK, Shape, Putting, Calls, MaybeFile
<1>1. PICK g \in Files : g = call[t].old
  BY <1>0
<1>2. c.at = "last" /\ c.file = call[t].file /\ c.old = g /\ ~Opening(c)
  BY <1>0, <1>1 DEF Calls, Opening
<1>3. /\ Goes(t, c) /\ UNCHANGED <<tab, released, lost, dropped, made>>
      /\ count' = [count EXCEPT ![g] = IF @ > 0 THEN @ - 1 ELSE @]
  BY <1>1 DEF Put
<1> HIDE DEF c
<1>4. FileOK(g) /\ lost[g] \in Nat /\ released[g] \in Nat /\ count[g] \in Nat
  BY DEF RInv, TInv, Types
<1>5. /\ NH(g)' = NH(g) /\ NP(g)' = NP(g) - 1 /\ NL(g)' = NL(g) + 1
      /\ NH(g) \in Nat /\ NP(g) \in Nat /\ NL(g) \in Nat /\ NS(g) \in Nat
  BY <1>0, <1>1, <1>2, <1>3, CallMoves, RefsFinite DEF B
<1>6. NP(g) > 0
  BY <1>0, <1>1, CallCounts
<1>7. NL(g)' <= Cardinality(Tasks)
  <2>1. Lasters(g)' \subseteq Tasks
    BY DEF Lasters
  <2>2. Cardinality(Lasters(g)') <= Cardinality(Tasks)
    <3> DEFINE S == Lasters(g)'
    <3>1. S \subseteq Tasks
      BY <2>1
    <3> HIDE DEF S
    <3>2. Cardinality(S) <= Cardinality(Tasks)
      BY <3>1, FS_Subset, FdTableAssumption
    <3> QED BY <3>2 DEF S
  <2> QED BY <2>2 DEF NL
<1>8. released[g] = 0 /\ g \in made
  BY <1>4, <1>6 DEF FileOK
<1>9. count[g] > 0 /\ count'[g] = count[g] - 1
  <2>1. count[g] > 0
    BY <1>4, <1>5, <1>6 DEF FileOK
  <2> QED BY <1>3, <2>1 DEF TInv, Types
<1>10. NS(g)' = NS(g) => FileOK(g)'
  BY <1>3, <1>4, <1>5, <1>6, <1>7, <1>8, <1>9 DEF FileOK
<1>11. \A f \in Files : f # g => count'[f] = count[f]
  BY <1>3 DEF TInv, Types
<1> QED BY <1>0, <1>1, <1>2, <1>3, <1>6, <1>10, <1>11, OneFile

(* The closer that finds the count at 0 releases the file. *)
LEMMA LastRefs == ASSUME TInv, RInv, NEW t \in Tasks, Last(t) PROVE RInv'
<1> DEFINE c == [call[t] EXCEPT !.at = call[t].then, !.old = None, !.then = "idle"]
<1>0. call[t] \in Calls /\ call[t].at = "last" /\ call[t].old \in Files
      /\ call[t].then \in {"idle", "attach", "sweep", "cloexec"}
  BY DEF Last, TInv, Types, CallOK, Shape, Putting, Calls, MaybeFile
<1>1. PICK g \in Files : g = call[t].old
  BY <1>0
<1>2. c.at \notin {"put", "last"} /\ c.file = call[t].file /\ c.old = None /\ ~Opening(c)
  BY <1>0, <1>1 DEF Calls, Opening
<1>3. /\ Goes(t, c) /\ UNCHANGED <<tab, count, lost, dropped, made>>
      /\ released' = [released EXCEPT ![g] = IF count[g] = 0 THEN @ + 1 ELSE @]
  BY <1>1 DEF Last
<1> HIDE DEF c
<1>4. FileOK(g) /\ lost[g] \in Nat /\ released[g] \in Nat /\ count[g] \in Nat
  BY DEF RInv, TInv, Types
<1>5. /\ NH(g)' = NH(g) /\ NP(g)' = NP(g) /\ NL(g)' = NL(g) - 1
      /\ NH(g) \in Nat /\ NP(g) \in Nat /\ NL(g) \in Nat /\ NS(g) \in Nat
  BY <1>0, <1>1, <1>2, <1>3, CallMoves, RefsFinite DEF B
<1>6. NL(g) > 0
  BY <1>0, <1>1, CallCounts
<1>7. released'[g] = IF count[g] = 0 THEN released[g] + 1 ELSE released[g]
  BY <1>3 DEF TInv, Types
<1>8. Cardinality(Tasks) \in Nat
  BY RefsFinite
<1>10. ASSUME NS(g)' = NS(g) PROVE FileOK(g)'
  <2>1. g \in made /\ released[g] + NL(g) <= Cardinality(Tasks)
        /\ count[g] = NS(g) + NH(g) + NP(g) + lost[g]
    BY <1>4, <1>6 DEF FileOK
  <2>2. CASE count[g] = 0
    <3>1. NS(g) = 0 /\ NH(g) = 0 /\ NP(g) = 0 /\ released'[g] = released[g] + 1
      BY <1>4, <1>5, <1>7, <2>1, <2>2
    <3>2. released'[g] + NL(g)' <= Cardinality(Tasks) /\ released'[g] > 0
      BY <1>4, <1>5, <1>8, <2>1, <3>1
    <3> QED BY <1>3, <1>5, <1>10, <2>1, <3>1, <3>2 DEF FileOK
  <2>3. CASE count[g] # 0
    <3>1. released'[g] = released[g] /\ count[g] > 0
      BY <1>4, <1>7, <2>3
    <3>2. released'[g] + NL(g)' <= Cardinality(Tasks)
      BY <1>4, <1>5, <1>8, <2>1, <3>1
    <3> QED BY <1>3, <1>4, <1>5, <1>10, <2>1, <3>1, <3>2 DEF FileOK
  <2> QED BY <2>2, <2>3
<1>11. \A f \in Files : f # g => released'[f] = released[f] /\ f # None
  BY <1>3, FdTableAssumption DEF TInv, Types
<1> QED BY <1>0, <1>1, <1>2, <1>3, <1>6, <1>10, <1>11, OneFile

(* fd_put_file. *)
LEMMA DropRefs == ASSUME TInv, RInv, NEW t \in Tasks, Drop(t) PROVE RInv'
<1>0. call[t] \in Calls /\ call[t].at = "drop" /\ call[t].file \in Files
  BY DEF Drop, TInv, Types, CallOK, Shape, Putting, Calls, MaybeFile
<1>1. PICK g \in Files : g = call[t].file
  BY <1>0
<1>2. Idle.at = "idle" /\ Idle.file = None /\ Idle.old = None /\ ~Opening(Idle) /\ g # None
  BY FdTableAssumption DEF Idle, Opening
<1>3. /\ Goes(t, Idle) /\ UNCHANGED <<tab, released, lost, made>>
      /\ count' = [count EXCEPT ![g] = IF @ > 0 THEN @ - 1 ELSE @]
      /\ dropped' = IF count[g] = 1 THEN dropped \cup {g} ELSE dropped
  BY <1>1 DEF Drop
<1>4. FileOK(g) /\ lost[g] \in Nat /\ released[g] \in Nat /\ count[g] \in Nat
  BY DEF RInv, TInv, Types
<1>5. /\ NH(g)' = NH(g) - 1 /\ NP(g)' = NP(g) /\ NL(g)' = NL(g)
      /\ NH(g) \in Nat /\ NP(g) \in Nat /\ NL(g) \in Nat /\ NS(g) \in Nat
  BY <1>0, <1>1, <1>2, <1>3, CallMoves, RefsFinite DEF B
<1>6. NH(g) > 0
  BY <1>0, <1>1, CallCounts
<1>7. count[g] > 0 /\ count'[g] = count[g] - 1
  <2>1. count[g] > 0
    BY <1>4, <1>5, <1>6 DEF FileOK
  <2> QED BY <1>3, <2>1 DEF TInv, Types
<1>8. g \in made /\ (count[g] = 1 => g \in dropped') /\ (g \in dropped => g \in dropped')
  BY <1>3, <1>4, <1>6 DEF FileOK
<1>10. NS(g)' = NS(g) => FileOK(g)'
  BY <1>3, <1>4, <1>5, <1>6, <1>7, <1>8 DEF FileOK
<1>11. \A f \in Files : f # g => count'[f] = count[f] /\ f # None /\ (f \in dropped => f \in dropped')
  BY <1>3, FdTableAssumption DEF TInv, Types
<1> QED BY <1>0, <1>1, <1>2, <1>3, <1>10, <1>11, OneFile

(* attach_fd: the call's reference becomes the slot's; the one that was in *)
(* the slot is lost.                                                       *)
LEMMA AttachRefs == ASSUME TInv, RInv, NEW t \in Tasks, Attach(t) PROVE RInv'
<1> DEFINE F == files[t]
           i == call[t].fd
           g == call[t].file
           o == tab[F].fd[i]
           X == {f \in Files : f = g \/ f = o}
<1>0. /\ call[t] \in Calls /\ call[t].at = "attach" /\ g \in Files /\ i \in Fds
      /\ F \in Tables /\ tab[F] \in TabType /\ tab \in [Tables -> TabType]
  BY DEF Attach, TInv, Types, CallOK, Shape, Putting, Calls, MaybeFile
<1>1. /\ tab'[F].fd[i] = g /\ \A k \in Fds : k # i => tab'[F].fd[k] = tab[F].fd[k]
      /\ \A U \in Tables \ {F} : tab'[U].fd = tab[U].fd
  BY <1>0 DEF Attach, TabType
<1>2. /\ Goes(t, Idle) /\ UNCHANGED <<count, released, dropped, made>>
      /\ \A f \in Files : lost'[f] = lost[f] + B(o = f)
  BY DEF Attach, Mine, B
<1>3. call'[t] = Idle /\ \A u \in Tasks \ {t} : call'[u] = call[u]
  BY <1>2 DEF TInv, Types, Goes
<1>4. Idle.at = "idle" /\ Idle.file = None /\ Idle.old = None /\ ~Opening(Idle)
  BY DEF Idle, Opening
<1>5. ASSUME NEW f \in Files
      PROVE  /\ NS(f)' = NS(f) - B(o = f) + B(g = f) /\ NS(f) \in Nat /\ NS(f)' \in Nat
             /\ o # f /\ g # f => Slots(f)' = Slots(f)
  BY <1>0, <1>1, SlotMoves
<1>6. ASSUME NEW f \in Files
      PROVE  /\ NH(f)' = NH(f) - B(g = f) /\ NP(f)' = NP(f) /\ NL(f)' = NL(f)
             /\ NH(f) \in Nat /\ NP(f) \in Nat /\ NL(f) \in Nat /\ NH(f)' \in Nat
  BY <1>0, <1>2, <1>4, CallMoves, FdTableAssumption DEF B
<1>7. ASSUME NEW f \in Files, f # g, f # o PROVE Same(f)
  <2>1. f # None
    BY FdTableAssumption
  <2>2. Holders(f)' = Holders(f) /\ Putters(f)' = Putters(f) /\ Lasters(f)' = Lasters(f)
    BY <1>0, <1>2, <1>4, <1>7, <2>1, CallSame
  <2>3. lost[f] \in Nat /\ lost'[f] = lost[f]
    BY <1>2, <1>7 DEF TInv, Types, B
  <2> QED BY <1>2, <1>5, <1>7, <2>2, <2>3 DEF Same
<1>8. ASSUME NEW f \in X PROVE FileOK(f)' /\ (NS(f) > 0 \/ call[t].file = f)
  <2>1. FileOK(f) /\ f \in Files /\ lost[f] \in Nat /\ released[f] \in Nat /\ count[f] \in Nat
    BY DEF RInv, TInv, Types
  <2>2. o = f => NS(f) > 0
    <3>1. o = f => <<F, i>> \in Slots(f)
      BY <1>0 DEF Slots
    <3> QED BY <3>1, RefsFinite
  <2>3. g = f => NH(f) > 0
    BY CallCounts
  <2>4. g = f \/ o = f
    OBVIOUS
  <2>5. f \in made /\ released[f] = 0
    BY <1>5, <1>6, <2>1, <2>2, <2>3, <2>4 DEF FileOK
  <2>6. lost'[f] = lost[f] + B(o = f)
    BY <1>2, <2>1
  <2>7. NS(f)' = NS(f) - B(o = f) + B(g = f) /\ NH(f)' = NH(f) - B(g = f)
        /\ NP(f)' = NP(f) /\ NL(f)' = NL(f) /\ NS(f) \in Nat /\ NH(f) \in Nat /\ NP(f) \in Nat
    BY <1>5, <1>6, <2>1
  <2> DEFINE b1 == B(o = f)
             b2 == B(g = f)
  <2>8. b1 \in Nat /\ b2 \in Nat
    BY DEF B
  <2>9. NS(f)' = NS(f) - b1 + b2 /\ NH(f)' = NH(f) - b2 /\ lost'[f] = lost[f] + b1
    BY <2>6, <2>7
  <2> HIDE DEF b1, b2
  <2>10. NS(f)' + NH(f)' + NP(f)' + lost'[f] = NS(f) + NH(f) + NP(f) + lost[f]
    BY <2>1, <2>7, <2>8, <2>9
  <2>11. count'[f] = NS(f)' + NH(f)' + NP(f)' + lost'[f]
    BY <1>2, <2>1, <2>10 DEF FileOK
  <2>12. UNCHANGED <<count, released, dropped, made>> /\ NL(f)' = NL(f)
    BY <1>2, <2>7
  <2>13. FileOK(f)'
    BY <2>1, <2>5, <2>11, <2>12 DEF FileOK
  <2> QED BY <2>2, <2>4, <2>13
<1>9. X \in SUBSET Files /\ \A f \in Files \ X : Same(f)
  BY <1>7
<1> HIDE DEF X
<1> QED BY <1>3, <1>4, <1>8, <1>9, RefStep

(* dup_fd: one more slot, and one more reference, for every slot copied. *)
LEMMA CopySlots ==
  ASSUME TInv, NEW F \in Tables, NEW N \in Tables, ~tab[N].live,
         tab' = [tab EXCEPT ![N] = Copied(tab[F]).T], count' = Copied(tab[F]).c, NEW f \in Files
  PROVE  \E k \in Nat : /\ NS(f)' = NS(f) + k /\ count'[f] = count[f] + k
                        /\ k > 0 => NS(f) > 0
                        /\ k = 0 => Slots(f)' = Slots(f)
<1> DEFINE T == tab[F]
           K == {i \in InUse(T) : T.fd[i] = f}
           M == {<<N, i>> : i \in K}
           S == Slots(f)
           S2 == Slots(f)'
<1>0. T \in TabType /\ f # None /\ tab[N] = Empty
  BY UnusedTable, FdTableAssumption DEF TInv, Types
<1>1. IsFiniteSet(Fds) /\ K \subseteq Fds
  <2>1. IsFiniteSet(Fds)
    BY FdTableAssumption, FS_Interval DEF Fds
  <2>2. K \subseteq Fds
    BY <1>0 DEF InUse, TabType
  <2> QED BY <2>1, <2>2
<1>2. IsFiniteSet(K) /\ Cardinality(K) \in Nat /\ (Cardinality(K) = 0 <=> K = {})
  <2> HIDE DEF K
  <2> QED BY <1>1, FS_Subset, FS_CardinalityType, FS_EmptySet
<1>3. count'[f] = count[f] + Cardinality(K)
  BY DEF Copied
<1>4. \A i \in Fds : Copied(T).T.fd[i] = IF i \in InUse(T) THEN T.fd[i] ELSE None
  BY <1>0, CopiedTable
<1>5. /\ \A i \in Fds : tab'[N].fd[i] = f <=> i \in K
      /\ \A U \in Tables \ {N} : tab'[U] = tab[U]
  BY <1>0, <1>1, <1>4 DEF TInv, Types
<1>6. \A i \in Fds : tab[N].fd[i] # f
  BY <1>0 DEF Empty
<1> HIDE DEF T, K
<1>7. S2 = S \cup M /\ S \cap M = {}
  <2>1. ASSUME NEW U \in Tables, NEW i \in Fds
        PROVE  /\ <<U, i>> \in S2 <=> <<U, i>> \in S \/ <<U, i>> \in M
               /\ ~(<<U, i>> \in S /\ <<U, i>> \in M)
    <3>1. <<U, i>> \in M <=> U = N /\ i \in K
      OBVIOUS
    <3>2. (<<U, i>> \in S <=> tab[U].fd[i] = f) /\ (<<U, i>> \in S2 <=> tab'[U].fd[i] = f)
      BY DEF Slots
    <3>3. CASE U = N
      BY <1>5, <1>6, <3>1, <3>2, <3>3
    <3>4. CASE U # N
      BY <1>5, <3>1, <3>2, <3>4
    <3> QED BY <3>3, <3>4
  <2>2. S \subseteq Tables \X Fds /\ S2 \subseteq Tables \X Fds /\ M \subseteq Tables \X Fds
    BY <1>1 DEF Slots
  <2> HIDE DEF S, S2, M
  <2>3. ASSUME NEW y PROVE (y \in S2 <=> y \in S \cup M) /\ y \notin S \cap M
    <3>1. CASE y \in Tables \X Fds
      <4>1. PICK U \in Tables, i \in Fds : y = <<U, i>>
        BY <3>1
      <4> QED BY <2>1, <4>1
    <3>2. CASE y \notin Tables \X Fds
      BY <2>2, <3>2
    <3> QED BY <3>1, <3>2
  <2> QED BY <2>3
<1>8. IsFiniteSet(M) /\ Cardinality(M) = Cardinality(K)
  <2> DEFINE b == [i \in K |-> <<N, i>>]
  <2>1. b \in Bijection(K, M)
    BY DEF Bijection, Injection, Surjection, IsInjective
  <2>2. ExistsBijection(K, M)
    BY <2>1 DEF ExistsBijection
  <2> HIDE DEF M
  <2> QED BY <1>2, <2>2, FS_Bijection
<1>9. IsFiniteSet(S) /\ NS(f) = Cardinality(S) /\ NS(f)' = Cardinality(S2) /\ NS(f) \in Nat
  BY RefsFinite DEF NS
<1>10. Cardinality(K) > 0 => NS(f) > 0
  <2>1. ASSUME NEW i \in K PROVE NS(f) > 0
    <3>1. <<F, i>> \in Slots(f)
      BY <1>1 DEF Slots, K, T
    <3> QED BY <3>1, RefsFinite
  <2> QED BY <1>2, <2>1
<1>11. Cardinality(K) = 0 => S2 = S
  <2>1. K = {} => M = {}
    OBVIOUS
  <2> HIDE DEF S, S2, M
  <2> QED BY <1>2, <1>7, <2>1
<1>12. Cardinality(S2) = Cardinality(S) + Cardinality(K)
  <2> HIDE DEF S, S2, M
  <2>1. Cardinality(S \cup M) = Cardinality(S) + Cardinality(M) - Cardinality({})
    BY <1>7, <1>8, <1>9, FS_Union
  <2>2. Cardinality({}) = 0
    BY FS_EmptySet
  <2> QED BY <1>2, <1>7, <1>8, <1>9, <2>1, <2>2
<1> QED BY <1>2, <1>3, <1>9, <1>10, <1>11, <1>12

(* fork and exec with a copy of the table. *)
LEMMA CopyRefs ==
  ASSUME TInv, RInv, NEW t \in Tasks, NEW c, Goes(t, c), c.file = call[t].file,
         call[t].at \notin {"put", "last"}, c.at \notin {"put", "last"}, ~Opening(c),
         NEW F \in Tables, NEW N \in Tables, ~tab[N].live,
         tab' = [tab EXCEPT ![N] = Copied(tab[F]).T], count' = Copied(tab[F]).c,
         UNCHANGED <<released, lost, dropped, made>>
  PROVE  RInv'
<1> DEFINE X == {f \in Files : NS(f) > 0}
<1>1. call'[t] = c /\ \A u \in Tasks \ {t} : call'[u] = call[u]
  BY DEF TInv, Types, Goes
<1>2. ASSUME NEW f PROVE Holders(f)' = Holders(f) /\ Putters(f)' = Putters(f) /\ Lasters(f)' = Lasters(f)
  BY CallSame
<1>3. ASSUME NEW f \in Files, ~(NS(f) > 0) PROVE Same(f)
  <2>1. PICK k \in Nat : /\ count'[f] = count[f] + k /\ (k > 0 => NS(f) > 0)
                         /\ k = 0 => Slots(f)' = Slots(f)
    BY CopySlots
  <2>2. k = 0 /\ count[f] \in Nat
    BY <1>3, <2>1 DEF TInv, Types
  <2> QED BY <1>2, <2>1, <2>2 DEF Same
<1>4. ASSUME NEW f \in Files, NS(f) > 0 PROVE FileOK(f)'
  <2>1. PICK k \in Nat : NS(f)' = NS(f) + k /\ count'[f] = count[f] + k
    BY CopySlots
  <2>2. NH(f)' = NH(f) /\ NP(f)' = NP(f) /\ NL(f)' = NL(f)
    BY <1>2 DEF NH, NP, NL
  <2>3. FileOK(f) /\ count[f] \in Nat /\ lost[f] \in Nat /\ released[f] \in Nat
        /\ NS(f) \in Nat /\ NH(f) \in Nat /\ NP(f) \in Nat
    BY RefsFinite DEF RInv, TInv, Types
  <2>4. f \in made /\ released[f] = 0 /\ count'[f] > 0
    BY <1>4, <2>1, <2>3 DEF FileOK
  <2> QED BY <2>1, <2>2, <2>3, <2>4 DEF FileOK
<1>5. X \in SUBSET Files /\ \A f \in Files : f \in X <=> NS(f) > 0
  OBVIOUS
<1>6. (\A f \in X : FileOK(f)' /\ NS(f) > 0) /\ \A f \in Files \ X : Same(f)
  BY <1>3, <1>4, <1>5
<1> HIDE DEF X
<1> QED BY <1>1, <1>5, <1>6, RefStep

(* fork, and exec of a task that shares its table. *)
LEMMA ForkRefs ==
  ASSUME TInv, RInv, NEW t \in Tasks,
         Exec(t) \/ \E c \in Tasks : ForkShared(t, c) \/ ForkCopy(t, c)
  PROVE  RInv'
<1>0. /\ call[t].at = "idle" /\ call[t].file = None /\ files[t] \in Tables
      /\ tab[files[t]] \in TabType /\ Mine(t) = tab[files[t]] /\ Mine(t).ref \in Nat
  <2>1. call[t].at = "idle" /\ files[t] # None
    BY DEF Exec, ForkShared, ForkCopy, Free
  <2>2. call[t].file = None
    BY <2>1 DEF TInv, CallOK, Shape, Putting
  <2>3. files[t] \in Tables /\ tab[files[t]] \in TabType
    BY <2>1 DEF TInv, Types
  <2>4. tab[files[t]].ref \in Nat
    BY <2>3 DEF TabType
  <2> QED BY <2>1, <2>2, <2>3, <2>4 DEF Mine
<1>1. call = [call EXCEPT ![t] = call[t]] /\ ~Opening(call[t])
  BY <1>0 DEF TInv, Types, Opening
<1>2. ASSUME NEW c \in Tasks, ForkShared(t, c) PROVE RInv'
  <2>1. /\ tab' = [tab EXCEPT ![files[t]].ref = @ + 1] /\ Goes(t, call[t])
        /\ UNCHANGED <<count, released, lost, dropped, made>>
    BY <1>1, <1>2 DEF ForkShared, Goes
  <2>2. \A T \in Tables : tab'[T].fd = tab[T].fd
    BY <1>0, <2>1 DEF TInv, Types, TabType
  <2>3. \A f \in Files : Slots(f)' = Slots(f)
    BY <2>2, SlotsSame
  <2> QED BY <1>0, <1>1, <2>1, <2>3, QuietStep
<1>3. ASSUME NEW c \in Tasks, ForkCopy(t, c) PROVE RInv'
  <2>1. PICK N \in Tables : /\ ~tab[N].live
                            /\ tab' = [tab EXCEPT ![N] = Copied(Mine(t)).T]
                            /\ count' = Copied(Mine(t)).c
    BY <1>3 DEF ForkCopy
  <2>2. Goes(t, call[t]) /\ UNCHANGED <<released, lost, dropped, made>>
    BY <1>1, <1>3 DEF ForkCopy, Goes
  <2> QED BY <1>0, <1>1, <2>1, <2>2, CopyRefs
<1>4. CASE Exec(t) /\ Mine(t).ref > 1
  <2> DEFINE b == [Idle EXCEPT !.at = "puttable", !.table = files[t]]
  <2>1. PICK N \in Tables : /\ ~tab[N].live
                            /\ tab' = [tab EXCEPT ![N] = Copied(Mine(t)).T]
                            /\ count' = Copied(Mine(t)).c
    BY <1>0, <1>4 DEF Exec
  <2>2. Goes(t, b) /\ UNCHANGED <<released, lost, dropped, made>>
    BY <1>0, <1>4 DEF Exec
  <2>3. b.at = "puttable" /\ b.file = None /\ ~Opening(b)
    BY DEF Idle, Opening
  <2> HIDE DEF b
  <2> QED BY <1>0, <2>1, <2>2, <2>3, CopyRefs
<1>5. CASE Exec(t) /\ Mine(t).ref <= 1
  BY <1>5, QuietCalls
<1> QED BY <1>0, <1>2, <1>3, <1>4, <1>5

(* The calls that take or close a descriptor. *)
LEMMA CallRefs ==
  ASSUME TInv, RInv, NEW t \in Tasks, NEW i \in Fds, NEW j \in Fds,
         \/ Close(t, i) \/ Hold(t, i) \/ Dup(t, i, j) \/ Dup2(t, i, j)
         \/ Steal(t) \/ CloseOnExec(t)
  PROVE  RInv'
<1>0. call[t] \in Calls /\ Shape(call[t]) /\ CallOK(t)
  BY DEF TInv, Types, CallOK
<1>1. CASE Close(t, i)
  <2>1. call[t].at = "idle" /\ call[t].file = None /\ files[t] # None /\ Idle.file = None
    BY <1>0, <1>1 DEF Close, Free, Shape, Putting, Idle
  <2> QED BY <1>1, <2>1, IdleCall, VacateRefs DEF Close
<1>2. CASE Hold(t, i)
  <2> DEFINE b == [Idle EXCEPT !.at = "drop"]
  <2>1. b \in Calls /\ b.at = "drop" /\ b.then = "idle"
    BY IdleCall DEF Idle, Calls, MaybeFile
  <2>2. GetFile(t, i, b)
    BY <1>2 DEF Hold
  <2> HIDE DEF b
  <2> QED BY <2>1, <2>2, GetRefs
<1>3. CASE Dup(t, i, j)
  <2> DEFINE b == [Idle EXCEPT !.at = "alloc", !.start = j, !.then = "dup"]
  <2>1. b \in Calls /\ b.at = "alloc" /\ b.then = "dup"
    BY IdleCall DEF Idle, Calls, MaybeFile
  <2>2. GetFile(t, i, b)
    BY <1>3 DEF Dup
  <2> HIDE DEF b
  <2> QED BY <2>1, <2>2, GetRefs
<1>4. CASE Dup2(t, i, j)
  <2> DEFINE b == [Idle EXCEPT !.at = "steal", !.fd = j]
  <2>1. b \in Calls /\ b.at = "steal" /\ b.then = "idle"
    BY IdleCall DEF Idle, Calls, MaybeFile
  <2>2. GetFile(t, i, b)
    BY <1>4 DEF Dup2
  <2> HIDE DEF b
  <2> QED BY <2>1, <2>2, GetRefs
<1>5. CASE Steal(t) /\ Mine(t).fd[call[t].fd] # None
  <2> DEFINE b == [call[t] EXCEPT !.then = "attach"]
  <2>1. b \in Calls /\ b.file = call[t].file /\ call[t].at = "steal" /\ files[t] # None
        /\ call[t].fd \in Fds
    BY <1>0, <1>5 DEF Steal, Calls, CallOK, Shape, Putting
  <2>2. Vacate(t, call[t].fd, b)
    BY <1>5 DEF Steal
  <2> HIDE DEF b
  <2> QED BY <1>5, <2>1, <2>2, VacateRefs
<1>6. CASE Steal(t) /\ Mine(t).fd[call[t].fd] = None
  BY <1>6, QuietCalls
<1>7. CASE CloseOnExec(t)
  <2>0. call[t].at = "cloexec" /\ files[t] # None /\ Mine(t) \in TabType
    BY <1>0, <1>7 DEF CloseOnExec, Shape, Putting, CallOK, Calls, TInv, Types, Mine
  <2>1. ASSUME NEW k \in InUse(Mine(t)), Vacate(t, k, [call[t] EXCEPT !.then = "cloexec"])
        PROVE  RInv'
    <3> DEFINE b == [call[t] EXCEPT !.then = "cloexec"]
    <3>1. b \in Calls /\ b.file = call[t].file
      BY <1>0 DEF Calls
    <3>2. k \in Fds /\ Mine(t).fd[k] # None
      BY <2>0 DEF InUse, TabType
    <3>3. Vacate(t, k, b)
      BY <2>1
    <3> HIDE DEF b
    <3> QED BY <2>0, <3>1, <3>2, <3>3, VacateRefs
  <2> QED BY <1>7, <2>1, QuietCalls DEF CloseOnExec
<1> QED BY <1>1, <1>2, <1>3, <1>4, <1>5, <1>6, <1>7

(* Every step keeps the counts of the files. *)
LEMMA RefsKept == TInv /\ RInv /\ [Next]_vars => RInv'
<1> SUFFICES ASSUME TInv, RInv, [Next]_vars PROVE RInv'
  OBVIOUS
<1>1. CASE UNCHANGED vars
  <2>1. UNCHANGED <<tab, count, released, call, lost, dropped, made>>
    BY <1>1 DEF vars
  <2>2. \A f : Slots(f)' = Slots(f) /\ Holders(f)' = Holders(f)
               /\ Putters(f)' = Putters(f) /\ Lasters(f)' = Lasters(f)
    BY <2>1 DEF Slots, Holders, Putters, Lasters
  <2>3. \A f : NS(f)' = NS(f) /\ NH(f)' = NH(f) /\ NP(f)' = NP(f) /\ NL(f)' = NL(f)
    BY <2>2 DEF NS, NH, NP, NL
  <2>4. \A f : FileOK(f)' <=> FileOK(f)
    BY <2>1, <2>3 DEF FileOK
  <2>5. ASSUME NEW t \in Tasks PROVE Fresh(t, call[t].file) => Fresh(t, call[t].file)'
    BY <2>1, <2>2, <2>3 DEF Fresh
  <2>6. \A t \in Tasks : Opening(call[t])' <=> Opening(call[t])
    BY <2>1 DEF Opening
  <2> QED BY <2>4, <2>5, <2>6 DEF RInv
<1>2. \E k \in Fds : TRUE
  BY FdTableAssumption DEF Fds
<1>3. ASSUME NEW t \in Tasks, Steal(t) \/ CloseOnExec(t) PROVE RInv'
  BY <1>2, <1>3, CallRefs
<1>4. ASSUME NEW t \in Tasks, NEW i \in Fds, Close(t, i) \/ Hold(t, i) PROVE RInv'
  BY <1>4, CallRefs
<1>5. ASSUME NEW t \in Tasks, AllocFails(t) PROVE RInv'
  BY <1>5, AllocFailsRefs, QuietCalls
<1>6. ASSUME NEW t \in Tasks, Sweep(t) PROVE RInv'
  BY <1>6, SweepSlotRefs, SweepEndRefs
<1>7. ASSUME NEW t \in Tasks, PutTable(t) \/ DecTable(t) \/ Exit(t) PROVE RInv'
  BY <1>7, QuietCalls
<1> QED BY <1>1, <1>3, <1>4, <1>5, <1>6, <1>7, OpenRefs, AllocRefs, AttachRefs, PutRefs,
           LastRefs, DropRefs, CallRefs, ForkRefs DEF Next

(* No file exists at the start. *)
LEMMA RefsInit == Init => RInv
<1> SUFFICES ASSUME Init PROVE RInv
  OBVIOUS
<1>1. \A t \in Tasks : call[t] = Idle
  BY DEF Init
<1>2. Idle.at = "idle" /\ Idle.file = None
  BY DEF Idle
<1>3. \A T \in Tables, i \in Fds : tab[T].fd[i] = None
  BY DEF Init, Empty
<1>4. ASSUME NEW f \in Files PROVE FileOK(f)
  <2>1. f # None
    BY FdTableAssumption
  <2>2. Slots(f) = {} /\ Holders(f) = {} /\ Putters(f) = {} /\ Lasters(f) = {}
    BY <1>1, <1>2, <1>3, <2>1 DEF Slots, Holders, Putters, Lasters
  <2>3. NS(f) = 0 /\ NH(f) = 0 /\ NP(f) = 0 /\ NL(f) = 0 /\ Cardinality(Tasks) \in Nat
    BY <2>2, RefsFinite
  <2> QED BY <2>3 DEF FileOK, Init
<1> QED BY <1>1, <1>2, <1>4 DEF RInv, Opening

(* Together: the inductive invariant. *)
LEMMA Invariance == Spec => [](TInv /\ RInv)
<1>1. Init => TInv /\ RInv
  BY TablesInit, RefsInit
<1>2. TInv /\ RInv /\ [Next]_vars => (TInv /\ RInv)'
  BY TablesKept, RefsKept
<1> QED BY <1>1, <1>2, PTL DEF Spec

(* Every task's table is live and exactly counted, closed only by its last  *)
(* user, and its bitmap and slots agree, for any number of sharers.        *)
THEOREM TablesStaySound == Spec => []TablesAreSound
<1>1. ASSUME TInv, RInv PROVE TablesAreSound
  <2>1. ASSUME NEW T \in Tables PROVE tab[T].ref \in 0 .. Cardinality(Tasks)
    <3>1. tab[T].ref = Cardinality(Users(T))
      BY <1>1 DEF TInv, TabOK
    <3>2. Cardinality(Users(T)) \in Nat /\ Cardinality(Users(T)) <= Cardinality(Tasks)
          /\ Cardinality(Tasks) \in Nat
      BY UsersFinite, RefsFinite
    <3> QED BY <3>1, <3>2
  <2>2. ASSUME NEW f \in Files PROVE released[f] \in 0 .. Cardinality(Tasks)
    <3>1. released[f] \in Nat /\ NL(f) \in Nat /\ released[f] + NL(f) <= Cardinality(Tasks)
          /\ Cardinality(Tasks) \in Nat
      BY <1>1, RefsFinite DEF TInv, Types, RInv, FileOK
    <3> QED BY <3>1
  <2> DEFINE C == Cardinality(Tasks)
  <2>3. TypeOK
    <3>1. \A T \in Tables : tab[T].ref \in 0 .. C
      BY <2>1
    <3>2. \A f \in Files : released[f] \in 0 .. C
      BY <2>2
    <3>3. tab \in [Tables -> TabType] /\ released \in [Files -> Nat]
      BY <1>1 DEF TInv, Types
    <3> HIDE DEF C
    <3>4. tab \in [Tables -> [live : BOOLEAN, ref : 0 .. C, fd : [Fds -> MaybeFile],
                              open : SUBSET Fds, next : 0 .. NFds]]
      BY <3>1, <3>3 DEF TabType
    <3>5. released \in [Files -> 0 .. C]
      BY <3>2, <3>3
    <3> QED BY <1>1, <3>4, <3>5 DEF TypeOK, TInv, Types, C
  <2>4. SlotsAreOpen
    BY <1>1 DEF SlotsAreOpen, TInv, TabOK, SlotsOK
  <2>5. ASSUME NEW t \in Tasks, files[t] # None PROVE tab[files[t]].live
    <3>1. files[t] \in Tables /\ t \in Users(files[t])
      BY <1>1, <2>5 DEF TInv, Types, Users
    <3> QED BY <1>1, <3>1 DEF TInv, TabOK
  <2>6. ASSUME NEW T \in Tables, NEW u \in Closing(T), NEW t \in Tasks PROVE files[t] # T
    <3>1. Users(T) = {u} /\ u \in Tasks /\ call[u].table = T
      BY <1>1, <2>6 DEF TInv, TabOK, Closing
    <3>2. files[t] = T => t = u
      BY <3>1 DEF Users
    <3>3. files[u] # T
      BY <1>1, <3>1, FdTableAssumption DEF TInv, CallOK
    <3> QED BY <3>2, <3>3
  <2>7. TableOutlivesUsers
    BY <1>1, <2>5, <2>6 DEF TableOutlivesUsers, TInv, TabOK
  <2> QED BY <2>3, <2>4, <2>7 DEF TablesAreSound
<1> QED BY <1>1, Invariance, PTL

(* f_count is the number of slots and of calls in progress that refer to    *)
(* the file, and of the references attach_fd has overwritten.              *)
THEOREM FilesAreCounted == Spec => []FileRefsExact
<1>1. ASSUME RInv PROVE FileRefsExact
  BY <1>1 DEF RInv, FileOK, FileRefsExact, NS, NH, NP
<1> QED BY <1>1, Invariance, PTL

(* A released file is out of reach of every slot and call, and a file       *)
(* without references is released, about to be, or was dropped by          *)
(* fd_put_file.                                                            *)
THEOREM ReleasedWhenNobodyRefers == Spec => []ReleasedIsUnused
<1>1. ASSUME TInv, RInv PROVE ReleasedIsUnused
  <2>1. ReleasedIsUnreachable
    BY <1>1, RefsFinite DEF RInv, FileOK, ReleasedIsUnreachable
  <2>2. ASSUME NEW f \in Files, NL(f) > 0
        PROVE  \E t \in Tasks : call[t].at = "last" /\ call[t].old = f
    <3>1. Lasters(f) # {}
      BY <2>2, RefsFinite
    <3> QED BY <3>1 DEF Lasters
  <2>3. ReleasedWhenUnused
    BY <1>1, <2>2 DEF RInv, FileOK, ReleasedWhenUnused, TInv, Types
  <2> QED BY <2>1, <2>3 DEF ReleasedIsUnused
<1> QED BY <1>1, Invariance, PTL
=============================================================================
