------------------------------ MODULE FdTable ------------------------------
(***************************************************************************)
(* Descriptor tables and open files (fs/file.c): open, close, dup, dup2,   *)
(* fcntl(F_DUPFD), the calls that hold a file while they run (tee,         *)
(* getdents, the *at calls), fork with and without CLONE_FILES, exit, and  *)
(* exec with its unsharing of the table and its closing of descriptors.    *)
(*                                                                         *)
(* Tasks run on several CPUs.  A step is one critical section of           *)
(* files->file_lock or one atomic access to a count.  Which descriptors    *)
(* are close-on-exec is an input of exec, not a part of the state.         *)
(***************************************************************************)
EXTENDS Integers, Sequences, FiniteSets, FiniteSetsExt

CONSTANTS
  Tasks, Root,     \* Root is there from the start and does not exit
  Tables, Table0,  \* struct files_struct; Table0 is Root's
  Files,           \* struct file; each is opened once (bound)
  NFds,            \* MAX_OPEN_FILES_NUM
  MaxLost,         \* overwritten references after which no dup2 starts (bound)
  None

ASSUME FdTableAssumption ==
  /\ Root \in Tasks /\ Table0 \in Tables /\ NFds \in Nat \ {0}
  /\ None \notin Tables \cup Files
  /\ IsFiniteSet(Tasks) /\ IsFiniteSet(Tables) /\ IsFiniteSet(Files)

VARIABLES
  tab,       \* the tables
  count,     \* file->f_count
  released,  \* how often a file was released and freed
  files,     \* task->files, None for a task that does not exist
  call,      \* what a task is doing
  lost,      \* history: references overwritten in a slot
  dropped,   \* history: files whose last reference fd_put_file dropped
  made       \* history: files opened so far

vars == <<tab, count, released, files, call, lost, dropped, made>>

Fds == 0 .. NFds - 1
MaybeFile == Files \cup {None}

(* at: the next step; file: a file the call holds a reference to; old: a   *)
(* file taken out of a slot, or None; then: where the call goes on when    *)
(* the old file is put; table: the table being put.                        *)
Idle == [at |-> "idle", file |-> None, old |-> None, fd |-> 0, start |-> 0,
         then |-> "idle", table |-> None]
Empty == [live |-> FALSE, ref |-> 0, fd |-> [i \in Fds |-> None],
          open |-> {}, next |-> 0]

Init ==
  /\ tab = [T \in Tables |-> IF T = Table0 THEN [Empty EXCEPT !.live = TRUE, !.ref = 1]
                             ELSE Empty]
  /\ count = [f \in Files |-> 0] /\ released = [f \in Files |-> 0]
  /\ files = [t \in Tasks |-> IF t = Root THEN Table0 ELSE None]
  /\ call = [t \in Tasks |-> Idle]
  /\ lost = [f \in Files |-> 0] /\ dropped = {} /\ made = {}
-----------------------------------------------------------------------------
(* The table. *)

Mine(t) == tab[files[t]]
Free(t) == call[t].at = "idle" /\ files[t] # None
Goes(t, c) == call' = [call EXCEPT ![t] = c]

(* The descriptors __alloc_fd may take: it looks from start or next_fd on, *)
(* whichever is greater, and takes the first.                              *)
FreeFds(T, start) == {i \in Max({start, T.next}) .. NFds - 1 : i \notin T.open}

Reserved(T, i) ==
  [T EXCEPT !.open = @ \cup {i}, !.fd[i] = None, !.next = i + 1]

(* __close_fd under the lock: the slot is emptied, the descriptor free.    *)
Vacated(T, i) ==
  [T EXCEPT !.fd[i] = None, !.open = @ \ {i}, !.next = Min({@, i})]

InUse(T) == {i \in T.open : T.fd[i] # None}

(* Mutant: dup_fd copies the pointers without get_file. *)
CopiedBare(T) == [c |-> count,
                  T |-> [Empty EXCEPT !.live = TRUE, !.ref = 1,
                           !.fd = [i \in Fds |-> IF i \in InUse(T) THEN T.fd[i] ELSE None],
                           !.open = InUse(T)]]

(* dup_fd: a table of its own with the open files, one more reference      *)
(* to each; next_fd starts at 0.                                           *)
Copied(T) == [c |-> [f \in Files |-> count[f] + Cardinality({i \in InUse(T) : T.fd[i] = f})],
              T |-> [Empty EXCEPT !.live = TRUE, !.ref = 1,
                       !.fd = [i \in Fds |-> IF i \in InUse(T) THEN T.fd[i] ELSE None],
                       !.open = InUse(T)]]
-----------------------------------------------------------------------------
(* The calls. *)

(* sys_open: filp_open makes the file with one reference. *)
Open(t) ==
  /\ Free(t)
  /\ \E f \in Files \ made :
       /\ count' = [count EXCEPT ![f] = 1]
       /\ made' = made \cup {f}
       /\ Goes(t, [Idle EXCEPT !.at = "alloc", !.file = f, !.then = "open"])
  /\ UNCHANGED <<tab, released, files, lost, dropped>>

(* fd_get_file, as the first step of sys_dup, fcntl(F_DUPFD), sys_dup2 and *)
(* of the calls that hold the file while they run.                         *)
GetFile(t, i, next) ==
  /\ Free(t) /\ i \in InUse(Mine(t))
  /\ LET f == Mine(t).fd[i]
     IN /\ count' = [count EXCEPT ![f] = @ + 1]
        /\ Goes(t, [next EXCEPT !.file = f])
  /\ UNCHANGED <<tab, released, files, lost, dropped, made>>

Dup(t, i, start) ==
  GetFile(t, i, [Idle EXCEPT !.at = "alloc", !.start = start, !.then = "dup"])
Dup2(t, i, j) ==
  /\ i # j /\ \A f \in Files : lost[f] < MaxLost
  /\ GetFile(t, i, [Idle EXCEPT !.at = "steal", !.fd = j])
Hold(t, i) == GetFile(t, i, [Idle EXCEPT !.at = "drop"])

(* __alloc_fd: the descriptor is marked, its slot still empty. *)
Alloc(t) ==
  /\ call[t].at = "alloc" /\ FreeFds(Mine(t), call[t].start) # {}
  /\ LET i == Min(FreeFds(Mine(t), call[t].start))
     IN /\ tab' = [tab EXCEPT ![files[t]] = Reserved(@, i)]
        /\ Goes(t, [Idle EXCEPT !.at = "attach", !.file = call[t].file, !.fd = i])
  /\ UNCHANGED <<count, released, files, lost, dropped, made>>

(* -EMFILE: sys_open closes its file, the others put theirs. *)
AllocFails(t) ==
  /\ call[t].at = "alloc" /\ FreeFds(Mine(t), call[t].start) = {}
  /\ IF call[t].then = "open"
     THEN /\ count' = [count EXCEPT ![call[t].file] = 0]
          /\ released' = [released EXCEPT ![call[t].file] = @ + 1]
          /\ Goes(t, Idle)
     ELSE /\ Goes(t, [Idle EXCEPT !.at = "drop", !.file = call[t].file])
          /\ UNCHANGED <<count, released>>
  /\ UNCHANGED <<tab, files, lost, dropped, made>>

(* attach_fd: the slot is set whatever it holds. *)
Attach(t) ==
  /\ call[t].at = "attach"
  /\ LET i == call[t].fd
     IN /\ tab' = [tab EXCEPT ![files[t]].open = @ \cup {i},
                              ![files[t]].fd[i] = call[t].file]
        /\ lost' = [f \in Files |-> lost[f] + IF Mine(t).fd[i] = f THEN 1 ELSE 0]
  /\ Goes(t, Idle)
  /\ UNCHANGED <<count, released, files, dropped, made>>

(* A slot is emptied; its file is put next.  c is the call that goes on.   *)
Vacate(t, i, c) ==
  /\ tab' = [tab EXCEPT ![files[t]] = Vacated(@, i)]
  /\ Goes(t, [c EXCEPT !.at = "put", !.old = Mine(t).fd[i]])
  /\ UNCHANGED <<count, released, files, lost, dropped, made>>

(* sys_close; a descriptor that is only reserved gives -EBADF. *)
Close(t, i) ==
  /\ Free(t) /\ Mine(t).fd[i] # None
  /\ Vacate(t, i, Idle)

(* sys_dup2 closes newfd, if there is something to close. *)
Steal(t) ==
  /\ call[t].at = "steal"
  /\ IF Mine(t).fd[call[t].fd] # None
     THEN Vacate(t, call[t].fd, [call[t] EXCEPT !.then = "attach"])
     ELSE /\ Goes(t, [call[t] EXCEPT !.at = "attach"])
          /\ UNCHANGED <<tab, count, released, files, lost, dropped, made>>

(* put_file of the file taken out of the slot. *)
Put(t) ==
  /\ call[t].at = "put"
  /\ count' = [count EXCEPT ![call[t].old] = IF @ > 0 THEN @ - 1 ELSE @]
  /\ Goes(t, [call[t] EXCEPT !.at = "last"])
  /\ UNCHANGED <<tab, released, files, lost, dropped, made>>

(* Mutant: a file is released by sys_close only. *)
LastOfClose(t) ==
  /\ call[t].at = "last"
  /\ released' = [released EXCEPT ![call[t].old] =
       IF count[call[t].old] = 0 /\ call[t].then = "idle" THEN @ + 1 ELSE @]
  /\ Goes(t, [call[t] EXCEPT !.at = call[t].then, !.old = None, !.then = "idle"])
  /\ UNCHANGED <<tab, count, files, lost, dropped, made>>

(* file_release_last_ref: a second look at the count. *)
Last(t) ==
  /\ call[t].at = "last"
  /\ released' = [released EXCEPT ![call[t].old] = IF count[call[t].old] = 0 THEN @ + 1 ELSE @]
  /\ Goes(t, [call[t] EXCEPT !.at = call[t].then, !.old = None, !.then = "idle"])
  /\ UNCHANGED <<tab, count, files, lost, dropped, made>>

(* fd_put_file: put_file without the look at the last reference. *)
Drop(t) ==
  /\ call[t].at = "drop"
  /\ LET f == call[t].file
     IN /\ count' = [count EXCEPT ![f] = IF @ > 0 THEN @ - 1 ELSE @]
        /\ dropped' = IF count[f] = 1 THEN dropped \cup {f} ELSE dropped
  /\ Goes(t, Idle)
  /\ UNCHANGED <<tab, released, files, lost, made>>
-----------------------------------------------------------------------------
(* Tasks and their tables. *)

(* do_fork_uthread: the child shares the table or gets a copy. *)
ForkShared(t, c) ==
  /\ Free(t) /\ files[c] = None /\ call[c].at = "idle"
  /\ tab' = [tab EXCEPT ![files[t]].ref = @ + 1]
  /\ files' = [files EXCEPT ![c] = files[t]]
  /\ UNCHANGED <<count, released, call, lost, dropped, made>>

ForkCopy(t, c) ==
  /\ Free(t) /\ files[c] = None /\ call[c].at = "idle"
  /\ \E N \in {N \in Tables : ~tab[N].live} :
       LET k == Copied(Mine(t))
       IN /\ tab' = [tab EXCEPT ![N] = k.T]
          /\ count' = k.c
          /\ files' = [files EXCEPT ![c] = N]
  /\ UNCHANGED <<released, call, lost, dropped, made>>

(* The task is gone; task_destroy puts its table. *)
Exit(t) ==
  /\ Free(t) /\ t # Root
  /\ files' = [files EXCEPT ![t] = None]
  /\ Goes(t, [Idle EXCEPT !.at = "puttable", !.table = files[t]])
  /\ UNCHANGED <<tab, count, released, lost, dropped, made>>

(* Mutant: exec keeps the table whoever shares it. *)
ExecShared(t) ==
  /\ Free(t)
  /\ Goes(t, [Idle EXCEPT !.at = "cloexec"])
  /\ UNCHANGED <<tab, count, released, files, lost, dropped, made>>

(* unshare_files_struct in do_execve: a shared table is copied and put. *)
Exec(t) ==
  /\ Free(t)
  /\ \/ /\ Mine(t).ref <= 1
        /\ Goes(t, [Idle EXCEPT !.at = "cloexec"])
        /\ UNCHANGED <<tab, count, files>>
     \/ /\ Mine(t).ref > 1
        /\ \E N \in {N \in Tables : ~tab[N].live} :
             LET k == Copied(Mine(t))
             IN /\ tab' = [tab EXCEPT ![N] = k.T]
                /\ count' = k.c
                /\ files' = [files EXCEPT ![t] = N]
        /\ Goes(t, [Idle EXCEPT !.at = "puttable", !.table = files[t]])
  /\ UNCHANGED <<released, lost, dropped, made>>

(* A table is put: an exiting task is done, an exec goes on. *)
AfterTable(t) == IF files[t] = None THEN Idle ELSE [Idle EXCEPT !.at = "cloexec"]

(* Mutant: the table is closed while another task still uses it. *)
PutTableEarly(t) ==
  /\ call[t].at = "puttable"
  /\ Goes(t, [call[t] EXCEPT !.at = IF tab[call[t].table].ref > 2 THEN "dectable"
                                    ELSE "sweep"])
  /\ UNCHANGED <<tab, count, released, files, lost, dropped, made>>

(* put_files_struct looks at the count ... *)
PutTable(t) ==
  /\ call[t].at = "puttable"
  /\ Goes(t, [call[t] EXCEPT !.at = IF tab[call[t].table].ref > 1 THEN "dectable"
                                    ELSE "sweep"])
  /\ UNCHANGED <<tab, count, released, files, lost, dropped, made>>

(* ... and then lowers it. *)
DecTable(t) ==
  /\ call[t].at = "dectable"
  /\ tab' = [tab EXCEPT ![call[t].table].ref = @ - 1]
  /\ Goes(t, AfterTable(t))
  /\ UNCHANGED <<count, released, files, lost, dropped, made>>

(* close_files of the last user: slot by slot, then the table is freed. *)
Sweep(t) ==
  /\ call[t].at = "sweep"
  /\ LET T == tab[call[t].table]
     IN IF InUse(T) # {}
        THEN /\ tab' = [tab EXCEPT ![call[t].table].fd[Min(InUse(T))] = None]
             /\ Goes(t, [call[t] EXCEPT !.at = "put", !.then = "sweep",
                                        !.old = T.fd[Min(InUse(T))]])
        ELSE /\ tab' = [tab EXCEPT ![call[t].table] = Empty]
             /\ Goes(t, AfterTable(t))
  /\ UNCHANGED <<count, released, files, lost, dropped, made>>

(* do_close_on_exec: the marked descriptors are closed. *)
CloseOnExec(t) ==
  /\ call[t].at = "cloexec"
  /\ \/ \E i \in InUse(Mine(t)) : Vacate(t, i, [call[t] EXCEPT !.then = "cloexec"])
     \/ /\ Goes(t, Idle)
        /\ UNCHANGED <<tab, count, released, files, lost, dropped, made>>

Next ==
  \E t \in Tasks :
    \/ Open(t) \/ Alloc(t) \/ AllocFails(t) \/ Attach(t) \/ Steal(t)
    \/ Put(t) \/ Last(t) \/ Drop(t)
    \/ \E i \in Fds : Close(t, i) \/ Hold(t, i)
    \/ \E i, j \in Fds : Dup(t, i, j) \/ Dup2(t, i, j)
    \/ \E c \in Tasks : ForkShared(t, c) \/ ForkCopy(t, c)
    \/ Exit(t) \/ Exec(t) \/ PutTable(t) \/ DecTable(t) \/ Sweep(t)
    \/ CloseOnExec(t)

Spec == Init /\ [][Next]_vars
-----------------------------------------------------------------------------
Calls ==
  [at : {"idle", "alloc", "attach", "steal", "put", "last", "drop",
         "puttable", "dectable", "sweep", "cloexec"},
   file : MaybeFile, old : MaybeFile, fd : Fds, start : Fds,
   then : {"idle", "open", "dup", "attach", "sweep", "cloexec"},
   table : Tables \cup {None}]

(* Types, and the bounds of the descriptor space and of the counts. *)
TypeOK ==
  /\ tab \in [Tables -> [live : BOOLEAN, ref : 0 .. Cardinality(Tasks),
                         fd : [Fds -> MaybeFile], open : SUBSET Fds, next : 0 .. NFds]]
  /\ count \in [Files -> Nat] /\ released \in [Files -> 0 .. Cardinality(Tasks)]
  /\ files \in [Tasks -> Tables \cup {None}]
  /\ call \in [Tasks -> Calls]
  /\ lost \in [Files -> Nat] /\ dropped \subseteq Files /\ made \subseteq Files

(* The slots with f; the calls that hold a reference to f; the calls that  *)
(* took f out of a slot and have not put it yet.                           *)
Slots(f)   == {s \in Tables \X Fds : tab[s[1]].fd[s[2]] = f}
Holders(f) == {t \in Tasks : call[t].file = f}
Putters(f) == {t \in Tasks : call[t].at = "put" /\ call[t].old = f}

(* f_count is exactly the number of slots with the file and of references  *)
(* held by calls in progress, over every interleaving of dup, dup2, fork,  *)
(* close, exec and exit; only the reference of a slot that attach_fd       *)
(* overwrites stays counted for ever.                                      *)
FileRefsExact ==
  \A f \in Files :
    count[f] = Cardinality(Slots(f)) + Cardinality(Holders(f))
                 + Cardinality(Putters(f)) + lost[f]

(* A file is released only when no slot and no call can reach it, so       *)
(* fd_get_file never takes a reference to a released file.                 *)
ReleasedIsUnreachable ==
  \A f \in Files :
    released[f] > 0 => Slots(f) = {} /\ Holders(f) = {} /\ Putters(f) = {}

(* No file is left without references and unreleased: the closer that took *)
(* the last one releases it, unless a call that only held the file drops   *)
(* the last reference (fd_put_file never releases).                        *)
ReleasedWhenUnused ==
  \A f \in made :
    \/ count[f] > 0 \/ released[f] > 0 \/ f \in dropped
    \/ \E t \in Tasks : call[t].at = "last" /\ call[t].old = f

(* Both: a file is released when, and only when, nothing refers to it.     *)
ReleasedIsUnused == ReleasedIsUnreachable /\ ReleasedWhenUnused

(* The tasks that use table T, or have left it and not put it yet; and     *)
(* those that close its files.                                             *)
Users(T) == {t \in Tasks : files[t] = T \/ call[t].table = T}
Closing(T) ==
  {t \in Tasks : call[t].table = T /\ call[t].at \in {"sweep", "put", "last"}}

(* A slot with a file is marked open; a descriptor that is open and empty  *)
(* belongs to a call between __alloc_fd and attach_fd, so none is lost to  *)
(* a call that failed (a table being closed is past that).                 *)
SlotsAreOpen ==
  \A T \in Tables : tab[T].live =>
    \A i \in Fds :
      /\ tab[T].fd[i] # None => i \in tab[T].open
      /\ (i \in tab[T].open /\ tab[T].fd[i] = None) =>
           \/ \E t \in Tasks : files[t] = T /\ call[t].at = "attach" /\ call[t].fd = i
           \/ Closing(T) # {}

(* A table is freed by its last user: every task's table is live, its      *)
(* count is exact, and nobody uses a table that is being closed.           *)
TableOutlivesUsers ==
  /\ \A t \in Tasks : files[t] # None => tab[files[t]].live
  /\ \A T \in Tables :
       /\ tab[T].ref = Cardinality(Users(T))
       /\ Closing(T) # {} => \A t \in Tasks : files[t] # T

(* The tables of the tasks are live and counted, and their bitmaps and     *)
(* slots agree, over every interleaving of sharers, copies and leavers.    *)
TablesAreSound == TypeOK /\ SlotsAreOpen /\ TableOutlivesUsers

(* do_close_on_exec runs on a table that only the exec'ing task uses: it   *)
(* dereferences the slots without a test for a reserved one.               *)
ExecIsAlone ==
  \A t \in Tasks : call[t].at = "cloexec" =>
    /\ \A u \in Tasks \ {t} : files[u] # files[t]
    /\ InUse(Mine(t)) = Mine(t).open
=============================================================================
