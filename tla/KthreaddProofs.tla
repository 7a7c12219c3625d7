--------------------------- MODULE KthreaddProofs ---------------------------
(***************************************************************************)
(* For any number of callers of kthread_create: a request is served at     *)
(* most once although kthread_create_list is changed under no lock, and    *)
(* the wait queues stay lists as long as no made thread exits.             *)
(***************************************************************************)
EXTENDS Kthreadd, TLAPS

(* The wait queue a task sleeps on. *)
Own(t) == IF t = Daemon THEN WaitHead ELSE DoneHead(t)

(* While no thread has exited, each queue holds its one sleeper or nobody. *)
Rings ==
  exited = {} =>
    \A t \in Tasks :
      /\ status[t] = "SLEEPING" => pc[t] = "sched"
      /\ list.next[t]      = IF status[t] = "SLEEPING" THEN Own(t) ELSE t
      /\ list.prev[t]      = IF status[t] = "SLEEPING" THEN Own(t) ELSE t
      /\ list.next[Own(t)] = IF status[t] = "SLEEPING" THEN t ELSE Own(t)
      /\ list.prev[Own(t)] = IF status[t] = "SLEEPING" THEN t ELSE Own(t)

(* Not yet on kthread_create_list; taken off it; on it, or lost from it. *)
Fresh(x) == pc[x] \in {"idle", "link"}
Gone(x)  == made[x] # 0 /\ ~(pc[Daemon] = "create" /\ at[Daemon] = x)
Pending(x) == ~Fresh(x) /\ ~Gone(x)

(***************************************************************************)
(* The unlocked list: a next pointer leads to a pending request only, and  *)
(* that request points back.  Nothing of the kind holds of prev.           *)
(***************************************************************************)
Links ==
  /\ \A n \in ReqNodes, x \in Creators :
       reqs.next[n] = x /\ n # x => reqs.prev[x] = n /\ Pending(x)
  /\ \A x \in Creators :
       /\ Pending(x) => reqs.next[x] # x
       /\ Fresh(x) => made[x] = 0 /\ \A n \in ReqNodes : reqs.prev[n] = x => n = x
       /\ pc[x] = "link" => at[x] = ReqHead \/ ~Fresh(at[x])

(* What is in front of a request the daemon has reached is off the list. *)
Reached(n) == n = ReqHead \/ Gone(n)

(* The daemon's walk is on a pending request, its saved next on another. *)
Walk ==
  /\ pc[Daemon] = "walk" /\ at[Daemon] \in Creators =>
       Pending(at[Daemon]) /\ made[at[Daemon]] = 0 /\ Reached(reqs.prev[at[Daemon]])
  /\ pc[Daemon] = "create" =>
       /\ at[Daemon] \in Creators /\ Pending(at[Daemon]) /\ made[at[Daemon]] = 1
       /\ Reached(reqs.prev[at[Daemon]])
  /\ pc[Daemon] \in {"complete", "wake"} => at[Daemon] \in Creators /\ made[at[Daemon]] = 1
  /\ pc[Daemon] \in {"walk", "create", "complete", "wake"} /\ tmp \in Creators =>
       /\ tmp # at[Daemon] /\ Pending(tmp) /\ made[tmp] = 0
       /\ reqs.prev[tmp] = at[Daemon] \/ Reached(reqs.prev[tmp])

(* A completion is raised for a request that was served. *)
Served ==
  \A x \in Creators :
    /\ made[x] <= 1
    /\ done[x] > 0 \/ pc[x] = "returned" => made[x] = 1

IInv == TypeOK /\ Rings /\ Links /\ Walk /\ Served

-----------------------------------------------------------------------------
(* Before the first request. *)
LEMMA InitIInv == Init => IInv
<1> SUFFICES ASSUME Init PROVE IInv
  OBVIOUS
<1> USE KthreaddAssumption DEF Init, EmptyList
<1>1. TypeOK
  BY DEF TypeOK, Tasks, WaitNodes, ReqNodes, CreatorPCs, DaemonPCs
<1>2. Rings
  BY DEF Rings, Own, Tasks, WaitNodes
<1>3. Links
  BY DEF Links, Fresh, Gone, Pending, Tasks, ReqNodes
<1>4. Walk /\ Served
  BY DEF Walk, Served, Tasks
<1> QED BY <1>1, <1>2, <1>3, <1>4 DEF IInv

(* The lists over the nodes N. *)
Lists(N) == [next : [N -> N], prev : [N -> N]]

(* list_del stays inside the list's nodes. *)
LEMMA ListDelType ==
  ASSUME NEW N, NEW l \in Lists(N), NEW x \in N PROVE ListDel(l, x) \in Lists(N)
BY DEF ListDel, Lists

(* wake_up_one keeps the types of what it changes. *)
LEMMA WakeUpOneType ==
  ASSUME TypeOK, NEW t \in Tasks, NEW head, NEW label \in CreatorPCs \cup DaemonPCs,
         WakeUpOne(t, head, label)
  PROVE  /\ pc' \in [Tasks -> CreatorPCs \cup DaemonPCs]
         /\ status' \in [Tasks -> {"RUNNING", "SLEEPING"}]
         /\ list' \in [next : [WaitNodes -> WaitNodes], prev : [WaitNodes -> WaitNodes]]
         /\ spinning' \subseteq Tasks
<1> DEFINE w == FirstIn(list, head, Sleepers)
<1>1. CASE w \in Sleepers /\ list' = ListDel(list, w)
           /\ status' = [status EXCEPT ![w] = "RUNNING"]
           /\ Goto(t, label) /\ spinning' = spinning \ {t}
  <2>1. w \in WaitNodes
    BY <1>1 DEF Sleepers, WaitNodes
  <2>2. list' \in Lists(WaitNodes)
    BY <1>1, <2>1, ListDelType DEF TypeOK, Lists
  <2> QED BY <1>1, <2>2 DEF TypeOK, Lists, Goto
<1>2. CASE Goto(t, label) /\ spinning' = spinning \ {t} /\ UNCHANGED <<status, list>>
  BY <1>2 DEF TypeOK, Goto
<1>3. CASE spinning' = spinning \cup {t} /\ UNCHANGED <<pc, status, list>>
  BY <1>3 DEF TypeOK
<1> QED BY <1>1, <1>2, <1>3 DEF WakeUpOne

(* Every step keeps every variable in its type. *)
LEMMA TypeStep == TypeOK /\ Walk /\ [Next]_vars => TypeOK'
<1> SUFFICES ASSUME TypeOK, Walk, [Next]_vars PROVE TypeOK'
  OBVIOUS
<1> USE KthreaddAssumption DEF TypeOK, Tasks, WaitNodes, ReqNodes, CreatorPCs, DaemonPCs
<1>1. CASE Reap
  BY <1>1, SMTT(20) DEF Reap, Goto
<1>2. CASE Test
  BY <1>2, SMTT(20) DEF Test, Goto, ListIsEmpty
<1>3. CASE Create
  BY <1>3, SMTT(20) DEF Create, Goto
<1>4. CASE Unlink
  BY <1>4, SMTT(20) DEF Unlink, Goto, ListDel
<1>5. CASE Complete
  BY <1>5, SMTT(20) DEF Complete, Goto, Walk
<1>6. CASE WakeCreator
  <2>1. WakeUpOne(Daemon, DoneHead(at[Daemon]), "walk")
    BY <1>6 DEF WakeCreator
  <2>2. at' \in [Tasks -> ReqNodes] /\ tmp' \in ReqNodes
    BY <1>6 DEF WakeCreator
  <2> QED BY <1>6, <2>1, <2>2, WakeUpOneType DEF WakeCreator
<1>7. CASE SleepOn(Daemon, WaitHead)
  BY <1>7, SMTT(20) DEF SleepOn, Goto, ListAddTail, ListAddBetween
<1>8. CASE Resume(Daemon)
  BY <1>8, SMTT(20) DEF Resume, Goto
<1>9. ASSUME NEW x \in Creators, Request(x) PROVE TypeOK'
  BY <1>9, SMTT(20) DEF Request, Goto
<1>10. ASSUME NEW x \in Creators, Link(x) PROVE TypeOK'
  BY <1>10, SMTT(20) DEF Link, Goto, ListAddBetween
<1>11. ASSUME NEW x \in Creators, WakeDaemon(x) PROVE TypeOK'
  <2>1. WakeUpOne(x, WaitHead, "check")
    BY <1>11 DEF WakeDaemon
  <2> QED BY <1>11, <2>1, WakeUpOneType DEF WakeDaemon
<1>12. ASSUME NEW x \in Creators, Check(x) PROVE TypeOK'
  BY <1>12, SMTT(20) DEF Check, Goto
<1>13. ASSUME NEW x \in Creators, SleepOn(x, DoneHead(x)) PROVE TypeOK'
  BY <1>13, SMTT(20) DEF SleepOn, Goto, ListAddTail, ListAddBetween
<1>14. ASSUME NEW x \in Creators, Resume(x) PROVE TypeOK'
  BY <1>14, SMTT(20) DEF Resume, Goto
<1>15. ASSUME NEW x \in Creators, ThreadExit(x) PROVE TypeOK'
  BY <1>15, SMTT(20) DEF ThreadExit
<1>16. CASE UNCHANGED vars
  BY <1>16 DEF vars
<1> QED BY <1>1, <1>2, <1>3, <1>4, <1>5, <1>6, <1>7, <1>8, <1>9, <1>10, <1>11, <1>12,
           <1>13, <1>14, <1>15, <1>16 DEF Next, DaemonStep, CreatorStep

(* Every task has a queue of its own. *)
LEMMA OwnFacts ==
  /\ Own(Daemon) = WaitHead /\ \A x \in Creators : Own(x) = DoneHead(x)
  /\ \A t \in Tasks : Own(t) \in WaitNodes /\ t \in WaitNodes /\ Own(t) \notin Tasks
  /\ \A t, u \in Tasks : Own(t) = Own(u) => t = u
BY KthreaddAssumption DEF Own, Tasks, WaitNodes, WaitHead, DoneHead

(* Every step keeps the queues that nobody has disturbed. *)
LEMMA RingsStep == TypeOK /\ Rings /\ [Next]_vars => Rings'
<1> SUFFICES ASSUME TypeOK, Rings, [Next]_vars PROVE Rings'
  OBVIOUS
<1> USE KthreaddAssumption DEF TypeOK, Rings, Own, Tasks, WaitNodes
<1>1. CASE Reap
  BY <1>1, SMTT(20) DEF Reap, Goto
<1>2. CASE Test
  BY <1>2, SMTT(20) DEF Test, Goto, ListIsEmpty
<1>3. CASE Create
  BY <1>3, SMTT(20) DEF Create, Goto
<1>4. CASE Unlink
  BY <1>4, SMTT(20) DEF Unlink, Goto, ListDel
<1>5. CASE Complete
  BY <1>5, SMTT(20) DEF Complete, Goto
<1>6. CASE WakeCreator
  BY <1>6, SMTT(20) DEF WakeCreator, WakeUpOne, Goto, ListDel, Sleepers
<1>7. CASE SleepOn(Daemon, WaitHead)
  <2> SUFFICES ASSUME exited = {} PROVE Rings'
    BY <1>7 DEF SleepOn
  <2>1. status[Daemon] # "SLEEPING" /\ list.prev[WaitHead] = WaitHead
    BY <1>7 DEF SleepOn
  <2>2. /\ list'.next = [list.next EXCEPT ![WaitHead] = Daemon, ![Daemon] = WaitHead]
        /\ list'.prev = [list.prev EXCEPT ![Daemon] = WaitHead, ![WaitHead] = Daemon]
    BY <1>7, <2>1 DEF SleepOn, ListAddTail, ListAddBetween
  <2>3. \A n \in WaitNodes :
          /\ list'.next[n] = IF n = Daemon THEN WaitHead ELSE IF n = WaitHead THEN Daemon ELSE list.next[n]
          /\ list'.prev[n] = IF n = Daemon THEN WaitHead ELSE IF n = WaitHead THEN Daemon ELSE list.prev[n]
    BY <2>2
  <2>4. \A t \in Tasks :
          /\ status'[t] = IF t = Daemon THEN "SLEEPING" ELSE status[t]
          /\ pc'[t] = IF t = Daemon THEN "sched" ELSE pc[t]
    BY <1>7 DEF SleepOn, Goto
  <2>5. Daemon \in Tasks /\ WaitHead = Own(Daemon)
    BY OwnFacts
  <2> HIDE DEF WaitNodes, Tasks, Own
  <2>6. \A t \in Tasks :
          /\ list'.next[t]      = IF t = Daemon THEN WaitHead ELSE list.next[t]
          /\ list'.prev[t]      = IF t = Daemon THEN WaitHead ELSE list.prev[t]
          /\ list'.next[Own(t)] = IF t = Daemon THEN t ELSE list.next[Own(t)]
          /\ list'.prev[Own(t)] = IF t = Daemon THEN t ELSE list.prev[Own(t)]
    BY <2>3, <2>5, OwnFacts
  <2> QED BY <2>4, <2>5, <2>6, SMTT(20)
<1>8. CASE Resume(Daemon)
  BY <1>8, SMTT(20) DEF Resume, Goto
<1>9. ASSUME NEW x \in Creators, Request(x) PROVE Rings'
  BY <1>9, SMTT(20) DEF Request, Goto
<1>10. ASSUME NEW x \in Creators, Link(x) PROVE Rings'
  BY <1>10, SMTT(20) DEF Link, Goto, ListAddBetween
<1>11. ASSUME NEW x \in Creators, WakeDaemon(x) PROVE Rings'
  BY <1>11, SMTT(20) DEF WakeDaemon, WakeUpOne, Goto, ListDel, Sleepers
<1>12. ASSUME NEW x \in Creators, Check(x) PROVE Rings'
  BY <1>12, SMTT(20) DEF Check, Goto
<1>13. ASSUME NEW x \in Creators, SleepOn(x, DoneHead(x)) PROVE Rings'
  <2> SUFFICES ASSUME exited = {} PROVE Rings'
    BY <1>13 DEF SleepOn
  <2>1. status[x] # "SLEEPING" /\ list.prev[DoneHead(x)] = DoneHead(x)
    BY <1>13 DEF SleepOn
  <2>2. /\ list'.next = [list.next EXCEPT ![DoneHead(x)] = x, ![x] = DoneHead(x)]
        /\ list'.prev = [list.prev EXCEPT ![x] = DoneHead(x), ![DoneHead(x)] = x]
    BY <1>13, <2>1 DEF SleepOn, ListAddTail, ListAddBetween
  <2>3. \A n \in WaitNodes :
          /\ list'.next[n] = IF n = x THEN DoneHead(x) ELSE IF n = DoneHead(x) THEN x ELSE list.next[n]
          /\ list'.prev[n] = IF n = x THEN DoneHead(x) ELSE IF n = DoneHead(x) THEN x ELSE list.prev[n]
    BY <2>2
  <2>4. \A t \in Tasks :
          /\ status'[t] = IF t = x THEN "SLEEPING" ELSE status[t]
          /\ pc'[t] = IF t = x THEN "sched" ELSE pc[t]
    BY <1>13 DEF SleepOn, Goto
  <2>5. x \in Tasks /\ DoneHead(x) = Own(x)
    BY OwnFacts
  <2> HIDE DEF WaitNodes, Tasks, Own
  <2>6. \A t \in Tasks :
          /\ list'.next[t]      = IF t = x THEN DoneHead(x) ELSE list.next[t]
          /\ list'.prev[t]      = IF t = x THEN DoneHead(x) ELSE list.prev[t]
          /\ list'.next[Own(t)] = IF t = x THEN t ELSE list.next[Own(t)]
          /\ list'.prev[Own(t)] = IF t = x THEN t ELSE list.prev[Own(t)]
    BY <2>3, <2>5, OwnFacts
  <2> QED BY <2>4, <2>5, <2>6, SMTT(20)
<1>14. ASSUME NEW x \in Creators, Resume(x) PROVE Rings'
  BY <1>14, SMTT(20) DEF Resume, Goto
<1>15. ASSUME NEW x \in Creators, ThreadExit(x) PROVE Rings'
  BY <1>15, SMTT(20) DEF ThreadExit
<1>16. CASE UNCHANGED vars
  BY <1>16 DEF vars
<1> QED BY <1>1, <1>2, <1>3, <1>4, <1>5, <1>6, <1>7, <1>8, <1>9, <1>10, <1>11, <1>12,
           <1>13, <1>14, <1>15, <1>16 DEF Next, DaemonStep, CreatorStep

(* Every step keeps what is left of the unlocked list. *)
LEMMA LinksStep == TypeOK /\ Links /\ Walk /\ Served /\ [Next]_vars => Links'
<1> SUFFICES ASSUME TypeOK, Links, Walk, Served, [Next]_vars PROVE Links'
  OBVIOUS
<1> USE KthreaddAssumption DEF TypeOK, Links, Walk, Fresh, Gone, Pending, Reached, Served, Tasks, ReqNodes
<1>1. CASE Reap
  BY <1>1, SMTT(20) DEF Reap, Goto
<1>2. CASE Test
  BY <1>2, SMTT(20) DEF Test, Goto, ListIsEmpty
<1>3. CASE Create
  BY <1>3, SMTT(20) DEF Create, Goto
<1>4. CASE Unlink
  BY <1>4, SMTT(20) DEF Unlink, Goto, ListDel
<1>5. CASE Complete
  BY <1>5, SMTT(20) DEF Complete, Goto
<1>6. CASE WakeCreator
  BY <1>6, SMTT(20) DEF WakeCreator, WakeUpOne, Goto, ListDel, Sleepers
<1>7. CASE SleepOn(Daemon, WaitHead)
  BY <1>7, SMTT(20) DEF SleepOn, Goto, ListAddTail, ListAddBetween
<1>8. CASE Resume(Daemon)
  BY <1>8, SMTT(20) DEF Resume, Goto
<1>9. ASSUME NEW x \in Creators, Request(x) PROVE Links'
  BY <1>9, SMTT(20) DEF Request, Goto
<1>10. ASSUME NEW x \in Creators, Link(x) PROVE Links'
  BY <1>10, SMTT(20) DEF Link, Goto, ListAddBetween
<1>11. ASSUME NEW x \in Creators, WakeDaemon(x) PROVE Links'
  BY <1>11, SMTT(20) DEF WakeDaemon, WakeUpOne, Goto, ListDel, Sleepers
<1>12. ASSUME NEW x \in Creators, Check(x) PROVE Links'
  BY <1>12, SMTT(20) DEF Check, Goto
<1>13. ASSUME NEW x \in Creators, SleepOn(x, DoneHead(x)) PROVE Links'
  BY <1>13, SMTT(20) DEF SleepOn, Goto, ListAddTail, ListAddBetween
<1>14. ASSUME NEW x \in Creators, Resume(x) PROVE Links'
  BY <1>14, SMTT(20) DEF Resume, Goto
<1>15. ASSUME NEW x \in Creators, ThreadExit(x) PROVE Links'
  BY <1>15, SMTT(20) DEF ThreadExit
<1>16. CASE UNCHANGED vars
  BY <1>16 DEF vars
<1> QED BY <1>1, <1>2, <1>3, <1>4, <1>5, <1>6, <1>7, <1>8, <1>9, <1>10, <1>11, <1>12,
           <1>13, <1>14, <1>15, <1>16 DEF Next, DaemonStep, CreatorStep

(* Every step keeps the walk of the daemon on pending requests. *)
LEMMA WalkStep == TypeOK /\ Links /\ Walk /\ Served /\ [Next]_vars => Walk'
<1> SUFFICES ASSUME TypeOK, Links, Walk, Served, [Next]_vars PROVE Walk'
  OBVIOUS
<1> USE KthreaddAssumption DEF TypeOK, Links, Walk, Fresh, Gone, Pending, Reached, Served, Tasks, ReqNodes
<1>1. CASE Reap
  BY <1>1, SMTT(20) DEF Reap, Goto
<1>2. CASE Test
  BY <1>2, SMTT(20) DEF Test, Goto, ListIsEmpty
<1>3. CASE Create
  BY <1>3, SMTT(20) DEF Create, Goto
<1>4. CASE Unlink
  BY <1>4, SMTT(20) DEF Unlink, Goto, ListDel
<1>5. CASE Complete
  BY <1>5, SMTT(20) DEF Complete, Goto
<1>6. CASE WakeCreator
  BY <1>6, SMTT(20) DEF WakeCreator, WakeUpOne, Goto, ListDel, Sleepers
<1>7. CASE SleepOn(Daemon, WaitHead)
  BY <1>7, SMTT(20) DEF SleepOn, Goto, ListAddTail, ListAddBetween
<1>8. CASE Resume(Daemon)
  BY <1>8, SMTT(20) DEF Resume, Goto
<1>9. ASSUME NEW x \in Creators, Request(x) PROVE Walk'
  BY <1>9, SMTT(20) DEF Request, Goto
<1>10. ASSUME NEW x \in Creators, Link(x) PROVE Walk'
  BY <1>10, SMTT(20) DEF Link, Goto, ListAddBetween
<1>11. ASSUME NEW x \in Creators, WakeDaemon(x) PROVE Walk'
  BY <1>11, SMTT(20) DEF WakeDaemon, WakeUpOne, Goto, ListDel, Sleepers
<1>12. ASSUME NEW x \in Creators, Check(x) PROVE Walk'
  BY <1>12, SMTT(20) DEF Check, Goto
<1>13. ASSUME NEW x \in Creators, SleepOn(x, DoneHead(x)) PROVE Walk'
  BY <1>13, SMTT(20) DEF SleepOn, Goto, ListAddTail, ListAddBetween
<1>14. ASSUME NEW x \in Creators, Resume(x) PROVE Walk'
  BY <1>14, SMTT(20) DEF Resume, Goto
<1>15. ASSUME NEW x \in Creators, ThreadExit(x) PROVE Walk'
  BY <1>15, SMTT(20) DEF ThreadExit
<1>16. CASE UNCHANGED vars
  BY <1>16 DEF vars
<1> QED BY <1>1, <1>2, <1>3, <1>4, <1>5, <1>6, <1>7, <1>8, <1>9, <1>10, <1>11, <1>12,
           <1>13, <1>14, <1>15, <1>16 DEF Next, DaemonStep, CreatorStep

(* Every step keeps one thread per request. *)
LEMMA ServedStep == TypeOK /\ Walk /\ Served /\ [Next]_vars => Served'
<1> SUFFICES ASSUME TypeOK, Walk, Served, [Next]_vars PROVE Served'
  OBVIOUS
<1> USE KthreaddAssumption DEF TypeOK, Walk, Served, Tasks
<1>1. CASE Reap
  BY <1>1, SMTT(20) DEF Reap, Goto
<1>2. CASE Test
  BY <1>2, SMTT(20) DEF Test, Goto, ListIsEmpty
<1>3. CASE Create
  BY <1>3, SMTT(20) DEF Create, Goto
<1>4. CASE Unlink
  BY <1>4, SMTT(20) DEF Unlink, Goto, ListDel
<1>5. CASE Complete
  BY <1>5, SMTT(20) DEF Complete, Goto
<1>6. CASE WakeCreator
  BY <1>6, SMTT(20) DEF WakeCreator, WakeUpOne, Goto, ListDel, Sleepers
<1>7. CASE SleepOn(Daemon, WaitHead)
  BY <1>7, SMTT(20) DEF SleepOn, Goto, ListAddTail, ListAddBetween
<1>8. CASE Resume(Daemon)
  BY <1>8, SMTT(20) DEF Resume, Goto
<1>9. ASSUME NEW x \in Creators, Request(x) PROVE Served'
  BY <1>9, SMTT(20) DEF Request, Goto
<1>10. ASSUME NEW x \in Creators, Link(x) PROVE Served'
  BY <1>10, SMTT(20) DEF Link, Goto, ListAddBetween
<1>11. ASSUME NEW x \in Creators, WakeDaemon(x) PROVE Served'
  BY <1>11, SMTT(20) DEF WakeDaemon, WakeUpOne, Goto, ListDel, Sleepers
<1>12. ASSUME NEW x \in Creators, Check(x) PROVE Served'
  BY <1>12, SMTT(20) DEF Check, Goto
<1>13. ASSUME NEW x \in Creators, SleepOn(x, DoneHead(x)) PROVE Served'
  BY <1>13, SMTT(20) DEF SleepOn, Goto, ListAddTail, ListAddBetween
<1>14. ASSUME NEW x \in Creators, Resume(x) PROVE Served'
  BY <1>14, SMTT(20) DEF Resume, Goto
<1>15. ASSUME NEW x \in Creators, ThreadExit(x) PROVE Served'
  BY <1>15, SMTT(20) DEF ThreadExit
<1>16. CASE UNCHANGED vars
  BY <1>16 DEF vars
<1> QED BY <1>1, <1>2, <1>3, <1>4, <1>5, <1>6, <1>7, <1>8, <1>9, <1>10, <1>11, <1>12,
           <1>13, <1>14, <1>15, <1>16 DEF Next, DaemonStep, CreatorStep

(* IInv is inductive. *)
LEMMA IInvStep == IInv /\ [Next]_vars => IInv'
BY TypeStep, RingsStep, LinksStep, WalkStep, ServedStep DEF IInv

(***************************************************************************)
(* For any number of callers, kthreadd makes at most one thread for each   *)
(* request, and kthread_create returns only when there is one, although    *)
(* the list they meet on is raced for.                                     *)
(***************************************************************************)
THEOREM RequestsAreServedOnce == Spec => []CreatedOnce
<1>1. IInv => CreatedOnce
  BY DEF IInv, Served, CreatedOnce
<1> QED BY <1>1, InitIInv, IInvStep, PTL DEF Spec

(***************************************************************************)
(* Until a made thread exits, whose SIGCHLD wakes the daemon past its      *)
(* queue, a task is linked exactly while it sleeps and every wait queue    *)
(* is a list.                                                              *)
(***************************************************************************)
THEOREM WaitQueuesAreLists == Spec => []QueuesAreSound
<1>1. IInv => QueuesAreSound
  <2> SUFFICES ASSUME IInv PROVE QueuesAreSound
    OBVIOUS
  <2> USE KthreaddAssumption DEF IInv, TypeOK, Rings, Own, Tasks, WaitNodes
  <2>1. ASSUME exited = {} PROVE WellLinked(list)
    BY <2>1 DEF WellLinked
  <2>2. ASSUME exited = {}, NEW t \in Tasks PROVE list.next[t] # t <=> t \in Sleepers
    BY <2>2 DEF Sleepers
  <2>3. TypeOK
    BY DEF IInv
  <2> QED BY <2>1, <2>2, <2>3 DEF QueuesAreSound
<1> QED BY <1>1, InitIInv, IInvStep, PTL DEF Spec
=============================================================================
