-------------------------- MODULE ThreadPoolProofs --------------------------
(* Proofs about ThreadPool, for any threads, whoever creates them, and any
   number of controllers. *)
EXTENDS ThreadPool, TLAPS

(* The parts of a thread's life: its creator does not end in it; it is in the
   registry; it is in the list of its pool; it is in a pool that exists; it was
   registered once, so that a call may have looked it up. *)
Alive   == Statuses \ {"none", "joined"}
Known   == {"registered", "running", "exited"}
Listed  == {"listed", "registered", "running", "exited", "unregistered"}
InPool  == Listed \cup {"unlisted", "freed"}
Seen    == Known \cup {"unregistered", "unlisted", "freed", "joined"}

Registered == threadpool_threadlist = {t \in Threads : status[t] \in Known}

(* A thread outlives those it makes: it does not end before it has joined
   them. *)
ParentsRun == \A t \in Threads : status[t] \in Alive /\ Parent[t] # Outside => status[Parent[t]] = "running"

(* A pool exists until the thread that made it has been freed; *)
PoolsNamed == threadpool_list = {t \in Threads : Parent[t] = Outside /\ status[t] \in InPool}

(* a thread from outside makes its own, any other is in its creator's; *)
PoolOf == \A t \in Threads :
  /\ status[t] \in InPool => pool[t] = IF Parent[t] = Outside THEN t ELSE pool[Parent[t]]
  /\ status[t] = "placed" => pool[t] = IF Parent[t] = Outside THEN Outside ELSE pool[Parent[t]]
  /\ status[t] \in {"none", "created"} => pool[t] = Outside

(* and the list of a pool holds its threads but the one that made it. *)
ListsOK == \A p \in Threads : threadlist[p] = {t \in Threads : status[t] \in Listed /\ pool[t] = p /\ t # p}

(* Nobody made himself, directly or not: in any set of threads that were ever
   made, some thread was made by one outside of it. *)
Made == {t \in Threads : status[t] # "none"}
Founded == /\ \A t \in Made : Parent[t] # Outside => Parent[t] \in Made
           /\ \A S \in SUBSET Made : S # {} => \E t \in S : Parent[t] \notin S

(* What a call has looked up was registered; a walk is of the pool of the
   thread that made it, and what is left of it is in the list still: the lock
   keeps it there. *)
WalksOK ==
  \A c \in Controllers : LET q == call[c].of.target IN
    /\ call[c].at # "idle" => status[q] \in Seen
    /\ call[c].at \in {"pool", "members"} => pool[q] = q
    /\ call[c].at = "members" => call[c].todo \subseteq threadlist[q]

(* What a call stores: a cancel and an uncancel a value of their own, a wake
   any; only a walk has members to call. *)
CallsOK ==
  \A c \in Controllers :
    /\ call[c].at # "idle" => call[c].of \in Calls
    /\ call[c].at \in {"pool", "members"} => call[c].of.op # "wake"
    /\ call[c].at # "idle" /\ call[c].of.op # "wake" => call[c].val \in {0, 3}
    /\ call[c].at # "members" => call[c].todo = {}

(* usleep counts down from 2 or 3, or from what it finds when it reads the
   request again: never from 1, unless a wake has stored it. *)
CountsDown ==
  /\ \A t \in Threads : sleep[t] = "load" => reg[t] \in {2, 3}
  /\ \A t \in Threads \ Woken : /\ sleep[t] = "load" => on_requred_exit[t] # 1
                                /\ sleep[t] = "store" => reg[t] # 1

(* CancelSticks, of the threads that do not run, too. *)
RequestSticks == \A t \in Threads \ Woken : wanted[t] => on_requred_exit[t] # 0

Pools == Registered /\ ParentsRun /\ PoolsNamed /\ PoolOf /\ ListsOK /\ Founded
Requests == CallsOK /\ CountsDown /\ RequestSticks
IInv == TypeOK /\ Pools /\ WalksOK /\ Requests
-----------------------------------------------------------------------------
(* Nothing is made, asked for or walked at first. *)
LEMMA InitIInv == Init => IInv
  <1> SUFFICES ASSUME Init PROVE IInv OBVIOUS
  <1> USE DEF Init, Alive, Known, Listed, InPool
  <1>1. TypeOK BY DEF TypeOK, Idle, Statuses, AtMostThree
  <1>2. Registered /\ ParentsRun /\ PoolsNamed /\ PoolOf /\ ListsOK
        BY DEF Registered, ParentsRun, PoolsNamed, PoolOf, ListsOK
  <1>3. Founded BY DEF Founded, Made
  <1>4. WalksOK /\ CallsOK BY DEF WalksOK, CallsOK, Idle
  <1>5. CountsDown /\ RequestSticks BY DEF CountsDown, RequestSticks
  <1>6. QED BY <1>1, <1>2, <1>3, <1>4, <1>5 DEF IInv, Pools, Requests

(* What a step leaves alone it keeps. *)
life == <<status, registry>>
asked == <<on_requred_exit, sleep, reg, call, wanted>>

LEMMA PoolsKept == Pools /\ UNCHANGED life => Pools'
  BY DEF life, registry, Pools, Registered, ParentsRun, PoolsNamed, PoolOf, ListsOK, Founded, Made

LEMMA RequestsKept == Requests /\ UNCHANGED asked => Requests'
  BY DEF asked, Requests, CallsOK, CountsDown, RequestSticks

(* Who may act runs. *)
LEMMA ActorRuns ==
  ASSUME IInv, NEW t \in Threads, CanAct(Parent[t])
  PROVE  Parent[t] # Outside => Parent[t] \in Threads /\ status[Parent[t]] = "running"
  BY ThreadAssumption DEF CanAct, Active

(* A thread is in a pool that exists: the creator of its creator, and so on,
   is a thread from outside that is not freed yet. *)
LEMMA OwnerThere ==
  ASSUME IInv, NEW t \in Threads, status[t] \in InPool
  PROVE  pool[t] \in threadpool_list /\ pool[t] \in Threads /\ pool[pool[t]] = pool[t]
  <1> DEFINE S == {u \in Threads : status[u] \in InPool /\ pool[u] = pool[t]}
  <1>1. TypeOK /\ ParentsRun /\ PoolsNamed /\ PoolOf /\ Founded BY DEF IInv, Pools
  <1>2. S \in SUBSET Made /\ S # {} BY DEF Made, InPool, Listed
  <1>3. PICK u \in S : Parent[u] \notin S BY <1>1, <1>2 DEF Founded
  <1>4. Parent[u] = Outside
    <2>1. u \in Threads /\ status[u] \in InPool /\ pool[u] = pool[t] BY <1>3
    <2>2. ASSUME Parent[u] # Outside PROVE Parent[u] \in S
      <3>1. Parent[u] \in Threads /\ status[Parent[u]] = "running"
            BY <1>1, <2>1, <2>2, ThreadAssumption DEF ParentsRun, Alive, Statuses, InPool, Listed
      <3>2. pool[Parent[u]] = pool[t] BY <1>1, <2>1, <2>2 DEF PoolOf
      <3>3. QED BY <3>1, <3>2 DEF InPool, Listed
    <2>3. QED BY <1>3, <2>2
  <1>5. pool[u] = u BY <1>1, <1>3, <1>4 DEF PoolOf
  <1>6. QED BY <1>1, <1>3, <1>4, <1>5 DEF PoolsNamed

(* A thread that does not run has no thread of its own alive, and none in the
   pool that it made. *)
LEMMA PoolEmpty ==
  ASSUME IInv, NEW t \in Threads, status[t] # "running"
  PROVE  \A u \in Threads : /\ status[u] \in Alive => Parent[u] # t
                            /\ status[u] \in InPool /\ pool[u] = t => u = t
  <1>1. TypeOK /\ ParentsRun /\ PoolsNamed /\ PoolOf /\ Founded BY DEF IInv, Pools
  <1>2. \A u \in Threads : status[u] \in Alive => Parent[u] # t
        BY <1>1, ThreadAssumption DEF ParentsRun
  <1> DEFINE S == {u \in Threads : status[u] \in InPool /\ pool[u] = t /\ u # t}
  <1>3. ASSUME S # {} PROVE FALSE
    <2>1. S \in SUBSET Made BY DEF Made, InPool, Listed
    <2>2. PICK u \in S : Parent[u] \notin S BY <1>1, <1>3, <2>1 DEF Founded
    <2>3. u \in Threads /\ status[u] \in InPool /\ status[u] \in Alive /\ Parent[u] # Outside
          BY <1>1, <2>2 DEF PoolOf, Alive, Statuses, InPool, Listed
    <2>4. /\ Parent[u] \in Threads /\ status[Parent[u]] = "running" /\ Parent[u] # t
          BY <1>1, <2>3, ThreadAssumption DEF ParentsRun
    <2>5. pool[Parent[u]] = t BY <1>1, <2>2, <2>3 DEF PoolOf
    <2>6. QED BY <2>2, <2>4, <2>5 DEF InPool, Listed
  <1>4. QED BY <1>2, <1>3
-----------------------------------------------------------------------------
(* A step in the life of thread t, from one status to another. *)
LEMMA LifeStep ==
  ASSUME IInv, NEW t \in Threads, NEW s \in Statuses \ {"none"},
         Goto(t, s), status[t] # "none", UNCHANGED asked,
         s \in Alive => status[t] \in Alive,
         status[t] = "running" => \A c \in Children(t) : status[c] \notin Alive
  PROVE  /\ status' \in [Threads -> Statuses]
         /\ status'[t] = s /\ \A u \in Threads \ {t} : status'[u] = status[u]
         /\ ParentsRun' /\ Founded' /\ Requests'
  <1>0. TypeOK /\ ParentsRun /\ Founded BY DEF IInv, Pools
  <1>1. status' = [status EXCEPT ![t] = s] /\ s \in Statuses BY DEF Goto
  <1>2. status'[t] = s /\ \A u \in Threads \ {t} : status'[u] = status[u] BY <1>0, <1>1 DEF TypeOK
  <1>3. \A u \in Threads : status[u] \in Alive => Parent[u] # t
        BY PoolEmpty DEF Children
  <1>4. ParentsRun' BY <1>0, <1>2, <1>3, ThreadAssumption DEF ParentsRun
  <1>5. Made' = Made BY <1>2 DEF Made
  <1>6. Founded' BY <1>0, <1>5 DEF Founded
  <1>7. Requests' BY RequestsKept DEF IInv
  <1>8. status' \in [Threads -> Statuses] BY <1>0, <1>1 DEF TypeOK
  <1>9. QED BY <1>2, <1>4, <1>6, <1>7, <1>8

(* A thread that runs makes another, which was not made before. *)
LEMMA CreateKeeps == ASSUME IInv, NEW t \in Threads, Create(t) PROVE IInv'
  <1>1. /\ status[t] = "none" /\ status' = [status EXCEPT ![t] = "created"]
        /\ CanAct(Parent[t]) /\ UNCHANGED <<registry, asked>>
        BY DEF Create, Goto, asked
  <1>2. Parent[t] # Outside => Parent[t] \in Threads \ {t} /\ status[Parent[t]] = "running"
        BY <1>1, ActorRuns
  <1>3. TypeOK /\ Pools /\ Founded /\ WalksOK BY DEF IInv, Pools
  <1>4. status'[t] = "created" /\ \A u \in Threads \ {t} : status'[u] = status[u]
        BY <1>1, <1>3 DEF TypeOK
  <1>5. TypeOK' BY <1>1, <1>3 DEF TypeOK, Statuses, registry, asked
  <1>6. Registered' /\ PoolsNamed' /\ ListsOK'
        BY <1>1, <1>3, <1>4 DEF Pools, Registered, PoolsNamed, ListsOK, Known, Listed, InPool, registry
  <1>7. PoolOf' BY <1>1, <1>3, <1>4 DEF Pools, PoolOf, InPool, Listed, registry
  <1>8. ParentsRun'
    <2>1. \A u \in Threads : status[u] \in Alive => Parent[u] # t BY <1>1, PoolEmpty
    <2>2. QED BY <1>2, <1>3, <1>4, <2>1, ThreadAssumption DEF Pools, ParentsRun
  <1>9. Made' = Made \cup {t} /\ t \notin Made BY <1>1, <1>4 DEF Made
  <1>10. Parent[t] # Outside => Parent[t] \in Made /\ Parent[t] # t BY <1>2 DEF Made
  <1>11. Founded'
    <2>1. \A u \in Made' : Parent[u] # Outside => Parent[u] \in Made'
          BY <1>3, <1>9, <1>10 DEF Founded
    <2>2. ASSUME NEW S \in SUBSET Made', S # {} PROVE \E u \in S : Parent[u] \notin S
      <3>1. CASE S = {t} BY <1>10, <3>1, ThreadAssumption
      <3>2. CASE S # {t}
        <4>1. S \ {t} # {} /\ S \ {t} \in SUBSET Made BY <1>9, <2>2, <3>2
        <4>2. PICK u \in S \ {t} : Parent[u] \notin S \ {t} BY <1>3, <4>1 DEF Founded
        <4>3. u \in Made BY <4>1, <4>2
        <4>4. Parent[u] # t BY <1>3, <1>9, <4>3, ThreadAssumption DEF Founded
        <4>5. QED BY <4>2, <4>4
      <3>3. QED BY <3>1, <3>2
    <2>3. QED BY <2>1, <2>2 DEF Founded
  <1>12. WalksOK'
    <2>1. \A c \in Controllers : call[c].at # "idle" => call[c].of.target \in Threads
          BY ThreadAssumption DEF IInv, Requests, CallsOK
    <2>2. QED BY <1>1, <1>3, <1>4, <2>1 DEF WalksOK, Seen, Known, registry, asked
  <1>13. Requests' BY <1>1, RequestsKept DEF IInv
  <1>14. QED BY <1>5, <1>6, <1>7, <1>8, <1>11, <1>12, <1>13 DEF IInv, Pools

(* What a call is about is a thread. *)
LEMMA Targets ==
  ASSUME IInv, NEW c \in Controllers, call[c].at # "idle" PROVE call[c].of.target \in Threads
  BY ThreadAssumption DEF IInv, Requests, CallsOK

(* The steps of a start and a join that change no list and no pool. *)
LEMMA StatusStep ==
  ASSUME IInv, NEW t \in Threads, NEW s \in Statuses \ {"none"},
         Goto(t, s), status[t] # "none", UNCHANGED <<pool, threadpool_list, threadlist, asked>>,
         s \in Alive => status[t] \in Alive,
         status[t] = "running" => \A c \in Children(t) : status[c] \notin Alive,
         s \in Listed <=> status[t] \in Listed,
         s \in InPool <=> status[t] \in InPool,
         status[t] \in Seen => s \in Seen,
         s \notin {"created", "placed"},
         threadpool_threadlist' = {u \in Threads : status'[u] \in Known}
  PROVE  IInv'
  <1>0. TypeOK /\ PoolsNamed /\ PoolOf /\ ListsOK /\ WalksOK BY DEF IInv, Pools
  <1>1. /\ status' \in [Threads -> Statuses]
        /\ status'[t] = s /\ \A u \in Threads \ {t} : status'[u] = status[u]
        /\ ParentsRun' /\ Founded' /\ Requests'
        BY LifeStep
  <1>2. TypeOK' BY <1>0, <1>1 DEF TypeOK, asked
  <1>3. Registered' BY DEF Registered
  <1>4. PoolsNamed' /\ ListsOK' BY <1>0, <1>1 DEF PoolsNamed, ListsOK
  <1>5. PoolOf' BY <1>0, <1>1 DEF PoolOf
  <1>6. WalksOK' BY <1>0, <1>1, Targets DEF WalksOK, asked
  <1>7. QED BY <1>1, <1>2, <1>3, <1>4, <1>5, <1>6 DEF IInv, Pools

LEMMA FindPoolKeeps == ASSUME IInv, NEW t \in Threads, FindPool(t) PROVE IInv'
  <1>0. TypeOK /\ Registered /\ ParentsRun /\ PoolsNamed /\ PoolOf /\ ListsOK /\ WalksOK
        BY DEF IInv, Pools
  <1>1. /\ status[t] = "created" /\ Goto(t, "placed")
        /\ UNCHANGED <<threadpool_list, threadlist, threadpool_threadlist>> /\ UNCHANGED asked
        BY DEF FindPool, asked
  <1>2. /\ status' \in [Threads -> Statuses]
        /\ status'[t] = "placed" /\ \A u \in Threads \ {t} : status'[u] = status[u]
        /\ ParentsRun' /\ Founded' /\ Requests'
        BY <1>1, LifeStep DEF Alive, Statuses
  <1>3. /\ Parent[t] # Outside => /\ Parent[t] \in Threads \ {t} /\ status[Parent[t]] = "running"
                                  /\ Parent[t] \in threadpool_threadlist
        /\ Parent[t] = Outside => Parent[t] \notin threadpool_threadlist
        BY <1>0, <1>1, ThreadAssumption DEF ParentsRun, Registered, Alive, Statuses, Known
  <1>4. pool' = IF Parent[t] = Outside THEN pool ELSE [pool EXCEPT ![t] = pool[Parent[t]]]
        BY <1>3 DEF FindPool
  <1>5. pool' \in [Threads -> Threads \cup {Outside}] BY <1>0, <1>3, <1>4 DEF TypeOK
  <1>6. \A u \in Threads \ {t} : pool'[u] = pool[u] BY <1>0, <1>4 DEF TypeOK
  <1>7. pool'[t] = IF Parent[t] = Outside THEN Outside ELSE pool[Parent[t]]
        BY <1>0, <1>1, <1>4 DEF TypeOK, PoolOf
  <1>8. TypeOK' BY <1>0, <1>1, <1>2, <1>5 DEF TypeOK, asked
  <1>9. Registered' BY <1>0, <1>1, <1>2 DEF Registered, Known
  <1>10. PoolsNamed' BY <1>0, <1>1, <1>2 DEF PoolsNamed, InPool, Listed
  <1>11. PoolOf'
    <2>1. ASSUME NEW u \in Threads \ {t}, status[u] \in Alive PROVE Parent[u] # t
          BY <1>1, <2>1, PoolEmpty
    <2>2. QED BY <1>0, <1>2, <1>3, <1>6, <1>7, <2>1, ThreadAssumption
              DEF PoolOf, InPool, Listed, Alive, Statuses
  <1>12. ListsOK' BY <1>0, <1>1, <1>2, <1>6 DEF ListsOK, Listed
  <1>13. WalksOK'
    <2>1. ASSUME NEW c \in Controllers, call[c].at # "idle"
          PROVE  call[c].of.target \in Threads \ {t}
          BY <1>0, <1>1, <2>1, Targets DEF WalksOK, Seen, Known
    <2>2. QED BY <1>0, <1>1, <1>2, <1>6, <2>1 DEF WalksOK, asked
  <1>14. QED BY <1>2, <1>8, <1>9, <1>10, <1>11, <1>12, <1>13 DEF IInv, Pools

(* A new thread is listed in its creator's pool, or given one of its own. *)
LEMMA AddToPoolKeeps == ASSUME IInv, NEW t \in Threads, AddToPool(t) PROVE IInv'
  <1>0. TypeOK /\ Registered /\ ParentsRun /\ PoolsNamed /\ PoolOf /\ ListsOK /\ WalksOK
        BY DEF IInv, Pools
  <1>1. /\ status[t] = "placed" /\ Goto(t, "listed")
        /\ UNCHANGED threadpool_threadlist /\ UNCHANGED asked
        BY DEF AddToPool, asked
  <1>2. /\ status' \in [Threads -> Statuses]
        /\ status'[t] = "listed" /\ \A u \in Threads \ {t} : status'[u] = status[u]
        /\ ParentsRun' /\ Founded' /\ Requests'
        BY <1>1, LifeStep DEF Alive, Statuses
  <1>3. Parent[t] # Outside => /\ Parent[t] \in Threads \ {t} /\ status[Parent[t]] \in InPool
                               /\ pool[t] = pool[Parent[t]]
        BY <1>0, <1>1, ThreadAssumption DEF ParentsRun, PoolOf, Alive, Statuses, InPool, Listed
  <1>4. Parent[t] # Outside => pool[t] \in threadpool_list /\ pool[t] \in Threads \ {t}
        BY <1>0, <1>1, <1>3, OwnerThere DEF PoolsNamed, InPool, Listed
  <1>5. Parent[t] = Outside <=> pool[t] = Outside
        BY <1>0, <1>1, <1>4, ThreadAssumption DEF PoolOf
  <1>6. /\ pool' = IF Parent[t] = Outside THEN [pool EXCEPT ![t] = t] ELSE pool
        /\ threadpool_list' = IF Parent[t] = Outside THEN threadpool_list \cup {t} ELSE threadpool_list
        /\ threadlist' = IF Parent[t] = Outside THEN threadlist
                         ELSE [threadlist EXCEPT ![pool[t]] = @ \cup {t}]
        BY <1>5 DEF AddToPool
  <1>7. /\ \A u \in Threads \ {t} : pool'[u] = pool[u]
        /\ pool'[t] = IF Parent[t] = Outside THEN t ELSE pool[t]
        BY <1>0, <1>6 DEF TypeOK
  <1>8. TypeOK' BY <1>0, <1>1, <1>2, <1>4, <1>6 DEF TypeOK, asked
  <1>9. Registered' BY <1>0, <1>1, <1>2 DEF Registered, Known
  <1>10. PoolsNamed' BY <1>0, <1>1, <1>2, <1>6 DEF PoolsNamed, InPool, Listed
  <1>11. \A u \in Threads : status[u] \in Alive => Parent[u] # t BY <1>1, PoolEmpty
  <1>12. PoolOf'
         BY <1>0, <1>2, <1>3, <1>7, <1>11, ThreadAssumption DEF PoolOf, InPool, Listed, Alive, Statuses
  <1>13. ListsOK'
    <2>1. ASSUME NEW q \in Threads
          PROVE  threadlist'[q] = {u \in Threads : status'[u] \in Listed /\ pool'[u] = q /\ u # q}
      <3>1. threadlist[q] = {u \in Threads : status[u] \in Listed /\ pool[u] = q /\ u # q}
            BY <1>0 DEF ListsOK
      <3>2. t \notin threadlist[q] BY <1>1, <3>1 DEF Listed
      <3>3. threadlist'[q] = threadlist[q] \cup (IF Parent[t] # Outside /\ pool[t] = q THEN {t} ELSE {})
            BY <1>0, <1>4, <1>6 DEF TypeOK
      <3>4. (Parent[t] # Outside /\ pool[t] = q) <=> (pool'[t] = q /\ t # q)
            BY <1>4, <1>7
      <3>5. status'[t] \in Listed BY <1>2 DEF Listed
      <3>6. QED BY <1>2, <1>7, <3>1, <3>2, <3>3, <3>4, <3>5
    <2>2. QED BY <2>1 DEF ListsOK
  <1>14. WalksOK'
    <2>1. ASSUME NEW c \in Controllers, call[c].at # "idle"
          PROVE  call[c].of.target \in Threads \ {t}
          BY <1>0, <1>1, <2>1, Targets DEF WalksOK, Seen, Known
    <2>2. \A q \in Threads : threadlist[q] \subseteq threadlist'[q] BY <1>0, <1>4, <1>6 DEF TypeOK
    <2>3. QED BY <1>0, <1>1, <1>2, <1>7, <2>1, <2>2 DEF WalksOK, asked
  <1>15. QED BY <1>2, <1>8, <1>9, <1>10, <1>12, <1>13, <1>14 DEF IInv, Pools

LEMMA StartThreadKeeps == ASSUME IInv, NEW t \in Threads, StartThread(t) PROVE IInv'
  <1> USE DEF Alive, Statuses, Known, Listed, InPool, Seen
  <1>0. TypeOK /\ Registered BY DEF IInv, Pools
  <1>1. CASE Register(t)
    <2>1. status[t] = "listed" /\ Goto(t, "registered") BY <1>1 DEF Register
    <2>2. threadpool_threadlist' = {u \in Threads : status'[u] \in Known}
          BY <1>0, <1>1, <2>1 DEF Register, Goto, Registered, TypeOK
    <2>3. UNCHANGED <<pool, threadpool_list, threadlist, asked>> BY <1>1 DEF Register, asked
    <2>4. QED BY <2>1, <2>2, <2>3, StatusStep
  <1>2. CASE SetInited(t)
    <2>1. status[t] = "registered" /\ Goto(t, "running") BY <1>2 DEF SetInited
    <2>2. threadpool_threadlist' = {u \in Threads : status'[u] \in Known}
          BY <1>0, <1>2, <2>1 DEF SetInited, Goto, Registered, TypeOK, registry
    <2>3. UNCHANGED <<pool, threadpool_list, threadlist, asked>> BY <1>2 DEF SetInited, asked, registry
    <2>4. QED BY <2>1, <2>2, <2>3, StatusStep
  <1>3. QED BY <1>1, <1>2, FindPoolKeeps, AddToPoolKeeps DEF StartThread

(* A thread ends, with no thread of its own left to join. *)
LEMMA ExitKeeps == ASSUME IInv, NEW t \in Threads, ExitOnRequest(t) \/ Finish(t) PROVE IInv'
  <1> USE DEF Alive, Statuses, Known, Listed, InPool, Seen
  <1>0. TypeOK /\ Registered BY DEF IInv, Pools
  <1>1. /\ status[t] = "running" /\ Goto(t, "exited")
        /\ MayExit(t) /\ UNCHANGED <<registry, asked>>
        BY DEF ExitOnRequest, Finish, MayExit, Active, Goto, asked
  <1>2. \A c \in Children(t) : status[c] \notin Alive BY <1>1 DEF MayExit
  <1>3. threadpool_threadlist' = {u \in Threads : status'[u] \in Known}
        BY <1>0, <1>1 DEF Goto, Registered, TypeOK, registry
  <1>4. QED BY <1>1, <1>2, <1>3, StatusStep DEF registry

(* A thread is taken from the list of its pool, which no call walks. *)
LEMMA UnlistKeeps == ASSUME IInv, NEW t \in Threads, Unlist(t) PROVE IInv'
  <1>0. TypeOK /\ Registered /\ ParentsRun /\ PoolsNamed /\ PoolOf /\ ListsOK /\ WalksOK
        BY DEF IInv, Pools
  <1>1. /\ status[t] = "unregistered" /\ Goto(t, "unlisted") /\ Unlocked(pool[t])
        /\ threadlist' = [threadlist EXCEPT ![pool[t]] = @ \ {t}]
        /\ UNCHANGED <<pool, threadpool_list, threadpool_threadlist>> /\ UNCHANGED asked
        BY DEF Unlist, asked
  <1>2. /\ status' \in [Threads -> Statuses]
        /\ status'[t] = "unlisted" /\ \A u \in Threads \ {t} : status'[u] = status[u]
        /\ ParentsRun' /\ Founded' /\ Requests'
        BY <1>1, LifeStep DEF Alive, Statuses
  <1>3. pool[t] \in Threads BY <1>1, OwnerThere DEF InPool, Listed
  <1>4. \A q \in Threads : threadlist'[q] = IF q = pool[t] THEN threadlist[q] \ {t} ELSE threadlist[q]
        BY <1>0, <1>1, <1>3 DEF TypeOK
  <1>5. TypeOK'
    <2>1. threadlist' \in [Threads -> SUBSET Threads] BY <1>0, <1>1, <1>3 DEF TypeOK
    <2>2. QED BY <1>0, <1>1, <1>2, <2>1 DEF TypeOK, asked
  <1>6. Registered' /\ PoolsNamed' BY <1>0, <1>1, <1>2 DEF Registered, PoolsNamed, Known, InPool, Listed
  <1>7. PoolOf' BY <1>0, <1>1, <1>2 DEF PoolOf, InPool, Listed
  <1>8. ListsOK' BY <1>0, <1>1, <1>2, <1>4 DEF ListsOK, Listed
  <1>9. WalksOK'
    <2>1. ASSUME NEW c \in Controllers, call[c].at = "members"
          PROVE  call[c].todo \subseteq threadlist'[call[c].of.target]
      <3>1. call[c].of.target \in Threads /\ pool[call[c].of.target] = call[c].of.target
            BY <1>0, <2>1, Targets DEF WalksOK
      <3>2. call[c].of.target # pool[t] BY <1>1, <2>1, <3>1 DEF Unlocked
      <3>3. QED BY <1>0, <1>4, <2>1, <3>1, <3>2 DEF WalksOK
    <2>2. QED BY <1>0, <1>1, <1>2, <2>1, Targets DEF WalksOK, asked, Seen
  <1>10. QED BY <1>2, <1>5, <1>6, <1>7, <1>8, <1>9 DEF IInv, Pools

(* The pool that a thread made is freed after it, and its list is empty. *)
LEMMA ReleaseKeeps == ASSUME IInv, NEW t \in Threads, Release(t) PROVE IInv'
  <1>0. TypeOK /\ Registered /\ ParentsRun /\ PoolsNamed /\ PoolOf /\ ListsOK /\ WalksOK
        BY DEF IInv, Pools
  <1>1. /\ status[t] = "freed" /\ Goto(t, "joined")
        /\ UNCHANGED <<pool, threadpool_threadlist>> /\ UNCHANGED asked
        BY DEF Release, asked
  <1>2. /\ status' \in [Threads -> Statuses]
        /\ status'[t] = "joined" /\ \A u \in Threads \ {t} : status'[u] = status[u]
        /\ ParentsRun' /\ Founded' /\ Requests'
        BY <1>1, LifeStep DEF Alive, Statuses
  <1>3. \A u \in Threads : status[u] \in InPool /\ pool[u] = t => u = t BY <1>1, PoolEmpty
  <1>4. threadlist[t] = {} BY <1>0, <1>3 DEF ListsOK, InPool
  <1>5. threadlist' = threadlist
    <2>1. [threadlist EXCEPT ![t] = {}] = threadlist BY <1>0, <1>4 DEF TypeOK
    <2>2. QED BY <2>1 DEF Release
  <1>6. pool[t] = t <=> Parent[t] = Outside
    <2>1. Parent[t] # Outside => pool[t] = pool[Parent[t]] /\ Parent[t] \in Threads \ {t}
                                 /\ status[Parent[t]] \in InPool
          BY <1>0, <1>1, ThreadAssumption DEF PoolOf, ParentsRun, Alive, Statuses, InPool, Listed
    <2>2. QED BY <1>0, <1>1, <1>3, <2>1 DEF PoolOf, InPool
  <1>7. threadpool_list' = threadpool_list \ {t}
        BY <1>0, <1>6 DEF Release, PoolsNamed
  <1>8. TypeOK' BY <1>0, <1>1, <1>2, <1>5, <1>7 DEF TypeOK, asked
  <1>9. Registered' /\ PoolsNamed'
        BY <1>0, <1>1, <1>2, <1>7 DEF Registered, PoolsNamed, Known, InPool, Listed
  <1>10. PoolOf' BY <1>0, <1>1, <1>2 DEF PoolOf, InPool, Listed
  <1>11. ListsOK' BY <1>0, <1>1, <1>2, <1>5 DEF ListsOK, Listed
  <1>12. WalksOK' BY <1>0, <1>1, <1>2, <1>5, Targets DEF WalksOK, asked, Seen
  <1>13. QED BY <1>2, <1>8, <1>9, <1>10, <1>11, <1>12 DEF IInv, Pools

LEMMA JoinKeeps == ASSUME IInv, NEW t \in Threads, Join(t) PROVE IInv'
  <1> USE DEF Alive, Statuses, Known, Listed, InPool, Seen
  <1>0. TypeOK /\ Registered BY DEF IInv, Pools
  <1>1. CASE Unregister(t)
    <2>1. status[t] = "exited" /\ Goto(t, "unregistered") BY <1>1 DEF Unregister
    <2>2. threadpool_threadlist' = {u \in Threads : status'[u] \in Known}
          BY <1>0, <1>1, <2>1 DEF Unregister, Goto, Registered, TypeOK
    <2>3. UNCHANGED <<pool, threadpool_list, threadlist, asked>> BY <1>1 DEF Unregister, asked
    <2>4. QED BY <2>1, <2>2, <2>3, StatusStep
  <1>2. CASE FreeThread(t)
    <2>1. status[t] = "unlisted" /\ Goto(t, "freed") BY <1>2 DEF FreeThread
    <2>2. threadpool_threadlist' = {u \in Threads : status'[u] \in Known}
          BY <1>0, <1>2, <2>1 DEF FreeThread, Goto, Registered, TypeOK, registry
    <2>3. UNCHANGED <<pool, threadpool_list, threadlist, asked>> BY <1>2 DEF FreeThread, asked, registry
    <2>4. QED BY <2>1, <2>2, <2>3, StatusStep
  <1>3. QED BY <1>1, <1>2, UnlistKeeps, ReleaseKeeps DEF Join
-----------------------------------------------------------------------------
SleepStates == {"awake", "load", "store", "lock", "wait"}

(* A sleep leaves the pools and the calls alone. *)
LEMMA SleepStep ==
  ASSUME IInv, NEW t \in Threads,
         NEW s \in SleepStates, SleepGoto(t, s),
         on_requred_exit' \in [Threads -> AtMostThree], reg' \in [Threads -> AtMostThree],
         UNCHANGED <<life, call, wanted>>,
         CountsDown', RequestSticks'
  PROVE  IInv'
  <1>1. Pools' BY PoolsKept DEF IInv
  <1>2. TypeOK' BY DEF IInv, TypeOK, SleepGoto, SleepStates, life, registry
  <1>3. WalksOK' BY DEF IInv, WalksOK, life, registry
  <1>4. CallsOK' BY DEF IInv, Requests, CallsOK
  <1>5. QED BY <1>1, <1>2, <1>3, <1>4 DEF IInv, Requests

(* The request is counted down from the value tested, or found again, and not
   to 0. *)
LEMMA SleepKeeps ==
  ASSUME IInv, NEW t \in Threads,
         SleepTest(t) \/ SleepLoad(t) \/ SleepStore(t) \/ SleepWait(t) \/ SleepTimeout(t)
  PROVE  IInv'
  <1>0. /\ TypeOK /\ CountsDown /\ RequestSticks BY DEF IInv, Requests
  <1>0a. /\ on_requred_exit \in [Threads -> AtMostThree] /\ reg \in [Threads -> AtMostThree]
         /\ sleep \in [Threads -> SleepStates]
         /\ on_requred_exit[t] \in Int /\ on_requred_exit[t] <= 3
         /\ reg[t] \in Int /\ reg[t] <= 3
         BY <1>0 DEF TypeOK, AtMostThree, SleepStates
  <1>1. CASE SleepTest(t)
    <2> DEFINE s == IF on_requred_exit[t] > 1 THEN "load" ELSE "lock"
    <2>1. /\ SleepGoto(t, s)
          /\ reg' = IF on_requred_exit[t] > 1 THEN [reg EXCEPT ![t] = on_requred_exit[t]] ELSE reg
          /\ UNCHANGED <<life, on_requred_exit, call, wanted>>
          BY <1>1 DEF SleepTest, life
    <2>2. reg' \in [Threads -> AtMostThree] BY <1>0a, <2>1 DEF AtMostThree
    <2>3. sleep'[t] = s /\ \A u \in Threads \ {t} : sleep'[u] = sleep[u] /\ reg'[u] = reg[u]
          BY <1>0a, <2>1 DEF SleepGoto
    <2>4. s = "load" => reg'[t] \in {2, 3} /\ on_requred_exit[t] # 1 BY <1>0a, <2>1
    <2>5. CountsDown' BY <1>0, <2>1, <2>3, <2>4 DEF CountsDown
    <2>6. RequestSticks' BY <1>0, <2>1 DEF RequestSticks
    <2>7. s \in SleepStates BY DEF SleepStates
    <2> HIDE DEF s
    <2>8. QED BY <1>0a, <2>1, <2>2, <2>5, <2>6, <2>7, SleepStep
  <1>2. CASE SleepLoad(t)
    <2>1. PICK n \in {reg[t], on_requred_exit[t]} : reg' = [reg EXCEPT ![t] = n]
          BY <1>2 DEF SleepLoad
    <2>2. /\ sleep[t] = "load" /\ SleepGoto(t, "store")
          /\ UNCHANGED <<life, on_requred_exit, call, wanted>>
          BY <1>2 DEF SleepLoad, life
    <2>3. reg' \in [Threads -> AtMostThree] BY <1>0a, <2>1
    <2>4. /\ sleep'[t] = "store" /\ reg'[t] = n
          /\ \A u \in Threads \ {t} : sleep'[u] = sleep[u] /\ reg'[u] = reg[u]
          BY <1>0a, <2>1, <2>2 DEF SleepGoto
    <2>5. t \notin Woken => n # 1 BY <1>0, <2>1, <2>2 DEF CountsDown
    <2>6. CountsDown' BY <1>0, <2>2, <2>4, <2>5 DEF CountsDown
    <2>7. RequestSticks' BY <1>0, <2>2 DEF RequestSticks
    <2>8. QED BY <1>0a, <2>2, <2>3, <2>6, <2>7, SleepStep DEF SleepStates
  <1>3. CASE SleepStore(t)
    <2>1. /\ sleep[t] = "store"
          /\ on_requred_exit' = [on_requred_exit EXCEPT ![t] = reg[t] - 1]
          /\ reg' = [reg EXCEPT ![t] = 0] /\ SleepGoto(t, "lock")
          /\ UNCHANGED <<life, call, wanted>>
          BY <1>3 DEF SleepStore, life
    <2>2. on_requred_exit' \in [Threads -> AtMostThree] /\ reg' \in [Threads -> AtMostThree]
      <3>1. reg[t] - 1 \in AtMostThree /\ 0 \in AtMostThree BY <1>0a DEF AtMostThree
      <3>2. QED BY <1>0a, <2>1, <3>1
    <2>3. /\ sleep'[t] = "lock" /\ on_requred_exit'[t] = reg[t] - 1
          /\ \A u \in Threads \ {t} : /\ sleep'[u] = sleep[u] /\ reg'[u] = reg[u]
                                       /\ on_requred_exit'[u] = on_requred_exit[u]
          BY <1>0a, <2>1 DEF SleepGoto
    <2>4. CountsDown' BY <1>0, <2>3 DEF CountsDown
    <2>5. t \notin Woken => on_requred_exit'[t] # 0
      <3>1. t \notin Woken => reg[t] # 1 BY <1>0, <2>1 DEF CountsDown
      <3>2. QED BY <1>0a, <2>3, <3>1
    <2>6. RequestSticks' BY <1>0, <2>1, <2>3, <2>5 DEF RequestSticks
    <2>7. QED BY <2>1, <2>2, <2>4, <2>6, SleepStep DEF SleepStates
  <1>4. ASSUME NEW s \in {"wait", "awake"}, SleepGoto(t, s),
               UNCHANGED <<life, on_requred_exit, reg, call, wanted>>
        PROVE  IInv'
    <2>1. sleep'[t] = s /\ \A u \in Threads \ {t} : sleep'[u] = sleep[u]
          BY <1>0a, <1>4 DEF SleepGoto
    <2>2. CountsDown' BY <1>0, <1>4, <2>1 DEF CountsDown
    <2>3. RequestSticks' BY <1>0, <1>4 DEF RequestSticks
    <2>4. QED BY <1>0a, <1>4, <2>2, <2>3, SleepStep DEF SleepStates
  <1>5. CASE SleepWait(t) BY <1>4, <1>5 DEF SleepWait, life
  <1>6. CASE SleepTimeout(t) BY <1>4, <1>6 DEF SleepTimeout, life
  <1>7. QED BY <1>1, <1>2, <1>3, <1>5, <1>6
-----------------------------------------------------------------------------
(* What the call of a controller is. *)
CallRecords == [of : Calls \cup {NoCall}, at : {"idle", "found", "pool", "members", "self"},
                todo : SUBSET Threads, val : AtMostThree]

(* A call leaves the pools alone. *)
LEMMA CallStep ==
  ASSUME IInv, NEW c \in Controllers, NEW r \in CallRecords,
         call' = [call EXCEPT ![c] = r],
         r.at # "idle" => r.of \in Calls /\ status[r.of.target] \in Seen,
         r.at \in {"pool", "members"} => r.of.op # "wake" /\ pool[r.of.target] = r.of.target,
         r.at # "idle" /\ r.of.op # "wake" => r.val \in {0, 3},
         r.at = "members" => r.todo \subseteq threadlist[r.of.target],
         r.at # "members" => r.todo = {},
         on_requred_exit' \in [Threads -> AtMostThree],
         sleep' \in [Threads -> SleepStates],
         wanted' \in [Threads -> BOOLEAN],
         UNCHANGED <<life, reg>>, CountsDown', RequestSticks'
  PROVE  IInv'
  <1>0. TypeOK /\ WalksOK /\ CallsOK BY DEF IInv, Requests
  <1>1. Pools' BY PoolsKept DEF IInv
  <1>2. call' \in [Controllers -> CallRecords] BY <1>0 DEF TypeOK, CallRecords
  <1>3. TypeOK' BY <1>0, <1>2 DEF TypeOK, CallRecords, SleepStates, life, registry
  <1>4. call'[c] = r /\ \A d \in Controllers \ {c} : call'[d] = call[d] BY <1>0 DEF TypeOK
  <1>5. WalksOK' BY <1>0, <1>4 DEF WalksOK, life, registry
  <1>6. CallsOK' BY <1>0, <1>4 DEF CallsOK
  <1>7. QED BY <1>1, <1>3, <1>5, <1>6 DEF IInv, Requests

(* The steps of a call that ask nothing of a thread. *)
LEMMA QuietStep ==
  ASSUME IInv, NEW c \in Controllers, NEW r \in CallRecords,
         call' = [call EXCEPT ![c] = r],
         r.at # "idle" => r.of \in Calls /\ status[r.of.target] \in Seen,
         r.at \in {"pool", "members"} => r.of.op # "wake" /\ pool[r.of.target] = r.of.target,
         r.at # "idle" /\ r.of.op # "wake" => r.val \in {0, 3},
         r.at = "members" => r.todo \subseteq threadlist[r.of.target],
         r.at # "members" => r.todo = {},
         UNCHANGED <<status, registry, on_requred_exit, sleep, reg, wanted>>
  PROVE  IInv'
  <1>1. TypeOK /\ CountsDown /\ RequestSticks BY DEF IInv, Requests
  <1>2. /\ on_requred_exit' \in [Threads -> AtMostThree] /\ wanted' \in [Threads -> BOOLEAN]
        /\ sleep' \in [Threads -> SleepStates]
        BY <1>1 DEF TypeOK, SleepStates
  <1>3. CountsDown' /\ RequestSticks' BY <1>1 DEF CountsDown, RequestSticks
  <1>4. UNCHANGED <<life, reg>> BY DEF life
  <1>5. QED BY <1>2, <1>3, <1>4, CallStep

LEMMA BeginKeeps == ASSUME IInv, NEW c \in Controllers, Begin(c) PROVE IInv'
  <1>1. PICK k \in Calls : /\ k.target \in threadpool_threadlist
                           /\ call' = [call EXCEPT ![c] = [of |-> k, at |-> "found", todo |-> {}, val |-> 0]]
        BY DEF Begin
  <1> DEFINE r == [of |-> k, at |-> "found", todo |-> {}, val |-> 0]
  <1>2. r.of = k /\ r.at = "found" /\ r.todo = {} /\ r.val = 0 OBVIOUS
  <1>3. r \in CallRecords BY DEF CallRecords, AtMostThree
  <1>4. status[k.target] \in Seen BY <1>1 DEF IInv, Pools, Registered, Seen
  <1>5. UNCHANGED <<status, registry, on_requred_exit, sleep, reg, wanted>> BY DEF Begin
  <1>6. call' = [call EXCEPT ![c] = r] BY <1>1
  <1> HIDE DEF r
  <1>7. QED BY <1>2, <1>3, <1>4, <1>5, <1>6, QuietStep

(* A call on what was freed returns, if it does, and nothing else is known. *)
LEMMA UseFreedKeeps == ASSUME IInv, NEW c \in Controllers, UseFreed(c) PROVE IInv'
  <1>1. Idle \in CallRecords /\ Idle.at = "idle" /\ Idle.todo = {}
        BY DEF Idle, CallRecords, AtMostThree
  <1>2. /\ call' = [call EXCEPT ![c] = Idle]
        /\ UNCHANGED <<status, registry, on_requred_exit, sleep, reg, wanted>>
        BY DEF UseFreed
  <1>3. QED BY <1>1, <1>2, QuietStep

(* A call reads the request, the pool, or locks the list of the pool. *)
LEMMA ReadKeeps ==
  ASSUME IInv, NEW c \in Controllers, ReadRequest(c) \/ ReadPool(c) \/ LockList(c) \/ MembersDone(c)
  PROVE  IInv'
  <1> DEFINE q == call[c].of.target
  <1>0. TypeOK /\ WalksOK /\ CallsOK BY DEF IInv, Requests
  <1>1. call[c].at # "idle" BY DEF ReadRequest, ReadPool, LockList, MembersDone
  <1>2. call[c] \in CallRecords /\ q \in Threads /\ call[c].of \in Calls
        BY <1>0, <1>1, Targets DEF TypeOK, CallRecords, CallsOK
  <1>3. status[q] \in Seen BY <1>0, <1>1 DEF WalksOK
  <1>4. UNCHANGED <<status, registry, on_requred_exit, sleep, reg, wanted>>
        BY DEF ReadRequest, ReadPool, LockList, MembersDone
  <1>5. CASE ReadRequest(c)
    <2> DEFINE r == [call[c] EXCEPT !.at = "self", !.val = on_requred_exit[q]]
    <2>1. call' = [call EXCEPT ![c] = r] BY <1>0, <1>5 DEF ReadRequest, TypeOK
    <2>2. on_requred_exit[q] \in AtMostThree BY <1>0, <1>2 DEF TypeOK
    <2>3. /\ r \in CallRecords /\ r.of = call[c].of /\ r.at = "self" /\ r.todo = call[c].todo
          BY <1>2, <2>2 DEF CallRecords
    <2>4. r.todo = {} /\ r.of.op = "wake" BY <1>0, <1>5, <2>3 DEF ReadRequest, CallsOK
    <2> HIDE DEF r
    <2>5. QED BY <1>2, <1>3, <1>4, <2>1, <2>3, <2>4, QuietStep
  <1>6. CASE ReadPool(c)
    <2> DEFINE a == IF PoolWide(call[c].of.op) /\ pool[q] = q THEN "pool" ELSE "self"
               r == [call[c] EXCEPT !.at = a, !.val = CancelValue(call[c].of.op)]
    <2>1. call' = [call EXCEPT ![c] = r] BY <1>0, <1>6 DEF ReadPool, TypeOK
    <2>2. CancelValue(call[c].of.op) \in {0, 3} /\ {0, 3} \subseteq AtMostThree
          BY DEF CancelValue, AtMostThree
    <2>3. /\ r \in CallRecords /\ r.of = call[c].of /\ r.at = a /\ r.todo = call[c].todo
          /\ r.val = CancelValue(call[c].of.op)
          BY <1>2, <2>2 DEF CallRecords
    <2>4. r.todo = {} /\ r.of.op # "wake" BY <1>0, <1>6, <2>3 DEF ReadPool, CallsOK
    <2>5. a = "pool" => pool[q] = q OBVIOUS
    <2>6. a \in {"pool", "self"} OBVIOUS
    <2> HIDE DEF r, a
    <2>7. QED BY <1>2, <1>3, <1>4, <2>1, <2>2, <2>3, <2>4, <2>5, <2>6, QuietStep
  <1>7. CASE LockList(c)
    <2>1. call[c].at = "pool" BY <1>7 DEF LockList
    <2>2. pool[q] = q /\ call[c].of.op # "wake" /\ call[c].val \in {0, 3}
          BY <1>0, <1>1, <2>1 DEF WalksOK, CallsOK
    <2> DEFINE r == [call[c] EXCEPT !.at = "members", !.todo = threadlist[q]]
    <2>3. call' = [call EXCEPT ![c] = r] BY <1>0, <1>7, <2>2 DEF LockList, TypeOK
    <2>4. threadlist[q] \in SUBSET Threads BY <1>0, <1>2 DEF TypeOK
    <2>5. /\ r \in CallRecords /\ r.of = call[c].of /\ r.at = "members" /\ r.todo = threadlist[q]
          /\ r.val = call[c].val
          BY <1>2, <2>4 DEF CallRecords
    <2> HIDE DEF r
    <2>6. QED BY <1>2, <1>3, <1>4, <2>2, <2>3, <2>5, QuietStep
  <1>8. CASE MembersDone(c)
    <2>1. call[c].at = "members" /\ call[c].todo = {} BY <1>8 DEF MembersDone
    <2>2. call[c].of.op # "wake" /\ call[c].val \in {0, 3} BY <1>0, <1>1, <2>1 DEF CallsOK
    <2> DEFINE r == [call[c] EXCEPT !.at = "self"]
    <2>3. call' = [call EXCEPT ![c] = r] BY <1>0, <1>8 DEF MembersDone, TypeOK
    <2>4. /\ r \in CallRecords /\ r.of = call[c].of /\ r.at = "self" /\ r.todo = call[c].todo
          /\ r.val = call[c].val
          BY <1>2 DEF CallRecords
    <2> HIDE DEF r
    <2>5. QED BY <1>2, <1>3, <1>4, <2>1, <2>2, <2>3, <2>4, QuietStep
  <1>9. QED BY <1>5, <1>6, <1>7, <1>8

(* What the store to a thread leaves true: a store of 1 is a wake's. *)
LEMMA WakeTKeeps ==
  ASSUME IInv, NEW t \in Threads, NEW v \in AtMostThree, WakeT(t, v), UNCHANGED reg,
         t \notin Woken => v # 1
  PROVE  /\ on_requred_exit' \in [Threads -> AtMostThree]
         /\ sleep' \in [Threads -> SleepStates]
         /\ CountsDown'
  <1>1. TypeOK /\ CountsDown BY DEF IInv, Requests
  <1>2. /\ on_requred_exit' = [on_requred_exit EXCEPT ![t] = v]
        /\ sleep' = [sleep EXCEPT ![t] = IF @ = "wait" THEN "awake" ELSE @]
        BY DEF WakeT
  <1>3. /\ on_requred_exit' \in [Threads -> AtMostThree] /\ sleep' \in [Threads -> SleepStates]
        BY <1>1, <1>2 DEF TypeOK, SleepStates
  <1>4. /\ on_requred_exit'[t] = v
        /\ sleep'[t] \in {"load", "store"} => sleep'[t] = sleep[t]
        /\ \A u \in Threads \ {t} : on_requred_exit'[u] = on_requred_exit[u] /\ sleep'[u] = sleep[u]
        BY <1>1, <1>2 DEF TypeOK
  <1>5. \A u \in Threads : sleep'[u] \in {"load", "store"} => sleep[u] = sleep'[u]
        BY <1>4
  <1>6. \A u \in Threads \ Woken : on_requred_exit'[u] = 1 => on_requred_exit[u] = 1
        BY <1>4
  <1>7. CountsDown' BY <1>1, <1>5, <1>6 DEF CountsDown
  <1>8. QED BY <1>3, <1>7

LEMMA MemberCalledKeeps ==
  ASSUME IInv, NEW c \in Controllers, CallMember(c) PROVE IInv'
  <1>0. TypeOK /\ RequestSticks /\ WalksOK /\ CallsOK BY DEF IInv, Requests
  <1>1. PICK t \in call[c].todo : /\ WakeT(t, call[c].val)
                                  /\ call' = [call EXCEPT ![c].todo = @ \ {t}]
                                  /\ wanted' = [wanted EXCEPT ![t] = (call[c].val = 3)]
        BY DEF CallMember
  <1>2. call[c].at = "members" /\ UNCHANGED <<life, reg>> BY DEF CallMember, life
  <1>3. call[c] \in CallRecords BY <1>0 DEF TypeOK, CallRecords
  <1>4. /\ call[c].todo \subseteq Threads /\ call[c].of \in Calls /\ call[c].of.op # "wake"
        /\ call[c].val \in {0, 3} /\ call[c].val \in AtMostThree
        BY <1>0, <1>2, <1>3 DEF CallsOK, CallRecords
  <1> DEFINE r == [call[c] EXCEPT !.todo = @ \ {t}]
  <1>5. call' = [call EXCEPT ![c] = r] BY <1>0, <1>1 DEF TypeOK
  <1>6. r \in CallRecords /\ r.at = "members" /\ r.of = call[c].of /\ r.val = call[c].val
        /\ r.todo \subseteq call[c].todo
        BY <1>2, <1>3 DEF CallRecords
  <1>7. /\ status[r.of.target] \in Seen /\ pool[r.of.target] = r.of.target
        /\ r.todo \subseteq threadlist[r.of.target]
        BY <1>0, <1>2, <1>6 DEF WalksOK
  <1>8. wanted' \in [Threads -> BOOLEAN] BY <1>0, <1>1 DEF TypeOK
  <1>9. RequestSticks'
    <2>1. /\ on_requred_exit' = [on_requred_exit EXCEPT ![t] = call[c].val] /\ t \in Threads
          /\ wanted'[t] => call[c].val = 3
          /\ \A u \in Threads \ {t} : wanted'[u] = wanted[u]
          BY <1>0, <1>1, <1>4 DEF WakeT, TypeOK
    <2>2. QED BY <1>0, <2>1 DEF RequestSticks, TypeOK
  <1>10. /\ on_requred_exit' \in [Threads -> AtMostThree] /\ CountsDown'
         /\ sleep' \in [Threads -> SleepStates]
         BY <1>1, <1>2, <1>4, WakeTKeeps
  <1> HIDE DEF r
  <1>11. QED BY <1>2, <1>4, <1>5, <1>6, <1>7, <1>8, <1>9, <1>10, CallStep

(* The last store of a call: a wake is of a thread in Woken. *)
LEMMA CallSelfKeeps == ASSUME IInv, NEW c \in Controllers, CallSelf(c) PROVE IInv'
  <1> DEFINE t == call[c].of.target
             v == call[c].val
  <1>0. TypeOK /\ RequestSticks /\ CallsOK BY DEF IInv, Requests
  <1>1. /\ call[c].at = "self" /\ WakeT(t, v) /\ call' = [call EXCEPT ![c] = Idle]
        /\ wanted' = IF call[c].of.op = "wake" THEN wanted
                     ELSE [wanted EXCEPT ![t] = (v = 3)]
        /\ UNCHANGED <<life, reg>>
        BY DEF CallSelf, life
  <1>2. call[c] \in CallRecords BY <1>0 DEF TypeOK, CallRecords
  <1>3. /\ call[c].of \in Calls /\ (call[c].of.op # "wake" => v \in {0, 3})
        /\ v \in AtMostThree /\ t \in Threads
        BY <1>0, <1>1, <1>2, ThreadAssumption DEF CallsOK, CallRecords
  <1>4. Idle \in CallRecords /\ Idle.at = "idle" /\ Idle.todo = {}
        BY DEF Idle, CallRecords, AtMostThree
  <1>5. wanted' \in [Threads -> BOOLEAN] BY <1>0, <1>1 DEF TypeOK
  <1>6. t \notin Woken => call[c].of.op # "wake" BY <1>3 DEF Woken
  <1>7. RequestSticks'
    <2>1. on_requred_exit' = [on_requred_exit EXCEPT ![t] = v] BY <1>1 DEF WakeT
    <2>2. ASSUME NEW u \in Threads \ Woken, wanted'[u] PROVE on_requred_exit'[u] # 0
      <3>1. CASE u # t
        <4>1. wanted[u] BY <1>0, <1>1, <2>2, <3>1 DEF TypeOK
        <4>2. QED BY <1>0, <2>1, <2>2, <3>1, <4>1 DEF RequestSticks, TypeOK
      <3>2. CASE u = t
        <4>1. call[c].of.op # "wake" BY <1>6, <2>2, <3>2
        <4>2. v = 3 BY <1>0, <1>1, <1>3, <2>2, <3>2, <4>1 DEF TypeOK
        <4>3. QED BY <1>0, <1>3, <2>1, <3>2, <4>2 DEF TypeOK
      <3>3. QED BY <3>1, <3>2
    <2>3. QED BY <2>2 DEF RequestSticks
  <1>8. /\ on_requred_exit' \in [Threads -> AtMostThree] /\ CountsDown'
        /\ sleep' \in [Threads -> SleepStates]
    <2>1. t \notin Woken => v # 1 BY <1>3, <1>6
    <2>2. QED BY <1>1, <1>3, <2>1, WakeTKeeps
  <1>9. QED BY <1>1, <1>4, <1>5, <1>7, <1>8, CallStep
-----------------------------------------------------------------------------
LEMMA NextIInv == IInv /\ [Next]_vars => IInv'
  <1> SUFFICES ASSUME IInv, [Next]_vars PROVE IInv' OBVIOUS
  <1>1. ASSUME NEW t \in Threads, Thread(t) PROVE IInv'
        BY <1>1, CreateKeeps, StartThreadKeeps, ExitKeeps, JoinKeeps, SleepKeeps DEF Thread
  <1>2. ASSUME NEW c \in Controllers, Controller(c) PROVE IInv'
        BY <1>2, BeginKeeps, ReadKeeps, MemberCalledKeeps, CallSelfKeeps, UseFreedKeeps DEF Controller
  <1>3. CASE UNCHANGED vars
    <2>1. UNCHANGED <<life, asked>> BY <1>3 DEF vars, registry, life, asked
    <2>2. Pools' /\ Requests' BY <2>1, PoolsKept, RequestsKept DEF IInv
    <2>3. TypeOK' /\ WalksOK' BY <2>1 DEF IInv, TypeOK, WalksOK, life, registry, asked
    <2>4. QED BY <2>2, <2>3 DEF IInv
  <1>4. QED BY <1>1, <1>2, <1>3 DEF Next

(* In every behaviour the registry, the pools and the requests are as IInv
   says, for any threads and any number of controllers. *)
THEOREM Invariant == Spec => []IInv
  <1>1. QED BY InitIInv, NextIInv, PTL DEF Spec

(* Every variable keeps its type: a request is never above 3, although usleep
   counts it down outside of the lock. *)
THEOREM TypeCorrect == Spec => []TypeOK
  <1>1. IInv => TypeOK BY DEF IInv
  <1>2. QED BY <1>1, Invariant, PTL

(* amthreadpool_start_thread sets thread_inited last, so a thread that runs is
   found by a cancel or a wake. *)
THEOREM RunningThreadsFound == Spec => []RunningIsFound
  <1>1. IInv => RunningIsFound BY DEF IInv, Pools, Registered, RunningIsFound, Running, Known
  <1>2. QED BY <1>1, Invariant, PTL

(* A join takes a thread from the registry and from its pool before it frees
   it, and from the pool under the lock that a walk holds: so a lookup finds
   no freed thread, a walk has none left to call, and what a call uses has
   been freed only if the thread it looked up was joined since, however deep
   the threads were nested and whoever else was joined. *)
THEOREM NothingDangles == Spec => []NoDanglingThread
  <1>1. ASSUME IInv PROVE NoDanglingThread
    <2>0. TypeOK /\ Registered /\ ListsOK /\ WalksOK /\ CallsOK BY <1>1 DEF IInv, Pools, Requests
    <2>1. ASSUME NEW t \in threadpool_threadlist PROVE ~ Freed(t) /\ pool[t] \in threadpool_list
      <3>1. t \in Threads /\ status[t] \in Known BY <2>0 DEF Registered
      <3>2. QED BY <1>1, <3>1, OwnerThere DEF Freed, Known, InPool, Listed
    <2>2. ASSUME NEW p \in Threads, NEW t \in threadlist[p] PROVE ~ Freed(t)
          BY <2>0 DEF ListsOK, Listed, Freed
    <2>3. ASSUME NEW c \in Controllers, call[c].at # "idle", ~ Freed(call[c].of.target)
          PROVE  ~ Gone(c) /\ \A t \in call[c].todo : ~ Freed(t)
      <3> DEFINE q == call[c].of.target
      <3>1. q \in Threads /\ status[q] \in Seen BY <1>1, <2>0, <2>3, Targets DEF WalksOK
      <3>2. status[q] \in InPool BY <2>3, <3>1 DEF Freed, Seen, Known, InPool, Listed
      <3>3. pool[q] \in threadpool_list BY <1>1, <3>1, <3>2, OwnerThere
      <3>4. ~ Gone(c) BY <2>3, <3>3 DEF Gone
      <3>5. call[c].todo \subseteq threadlist[q] BY <2>0 DEF WalksOK, CallsOK
      <3>6. QED BY <2>2, <3>1, <3>4, <3>5
    <2>4. threadpool_list \subseteq Threads BY <2>0 DEF TypeOK
    <2>5. QED BY <2>1, <2>2, <2>3, <2>4 DEF NoDanglingThread
  <1>2. QED BY <1>1, Invariant, PTL

(* The countdown of usleep does not lose a cancel, of a thread that nobody
   wakes. *)
THEOREM CancelIsKept == Spec => []CancelSticks
  <1>1. IInv => CancelSticks BY DEF IInv, Requests, RequestSticks, CancelSticks, Running
  <1>2. QED BY <1>1, Invariant, PTL

(* The root of a thread in a pool is the thread that made the pool. *)
LEMMA RootIsOwner ==
  ASSUME IInv, NEW t \in Threads, status[t] \in InPool
  PROVE  Root(t) = pool[t]
  <1>0. TypeOK /\ ParentsRun /\ PoolsNamed /\ PoolOf /\ Founded BY DEF IInv, Pools
  <1> DEFINE S == {u \in Threads : status[u] \in InPool /\ pool[u] = pool[t]}
  <1>1. ASSUME NEW u \in S, Parent[u] # Outside PROVE Parent[u] \in S
    <2>1. Parent[u] \in Threads /\ status[Parent[u]] = "running"
          BY <1>0, <1>1, ThreadAssumption DEF ParentsRun, Alive, Statuses, InPool, Listed
    <2>2. pool[Parent[u]] = pool[t] BY <1>0, <1>1 DEF PoolOf
    <2>3. QED BY <2>1, <2>2 DEF InPool, Listed
  <1>2. S \in SUBSET Threads /\ t \in S OBVIOUS
  <1>3. ClosedUp(S) BY <1>1 DEF ClosedUp
  <1>4. ASSUME NEW r \in Ancestors(t), Parent[r] = Outside PROVE r = pool[t]
    <2>1. r \in S BY <1>2, <1>3 DEF Ancestors
    <2>2. QED BY <1>0, <1>4, <2>1 DEF PoolOf
  <1>5. pool[t] \in Threads /\ Parent[pool[t]] = Outside
        BY <1>0, OwnerThere DEF PoolsNamed
  <1>6. ASSUME NEW C \in SUBSET Threads, t \in C, ClosedUp(C) PROVE pool[t] \in C
    <2>1. S \cap C \in SUBSET Made /\ S \cap C # {}
          BY <1>2, <1>6 DEF Made, InPool, Listed
    <2>2. PICK u \in S \cap C : Parent[u] \notin S \cap C BY <1>0, <2>1 DEF Founded
    <2>3. Parent[u] = Outside BY <1>3, <1>6, <2>2 DEF ClosedUp
    <2>4. pool[u] = u BY <1>0, <2>2, <2>3 DEF PoolOf
    <2>5. QED BY <2>2, <2>4
  <1>7. pool[t] \in Ancestors(t) BY <1>5, <1>6 DEF Ancestors
  <1>8. QED BY <1>4, <1>5, <1>7 DEF Root

(* A thread that the player made, directly or through others, is in the list
   that ffmpeg_interrupt walks when it is given the player thread. *)
THEOREM AllSubthreadsReached == Spec => []SubthreadsReached
  <1>1. ASSUME IInv, NEW t \in Running, t # Root(t) PROVE t \in threadlist[Root(t)]
    <2>1. ListsOK /\ t \in Threads /\ status[t] \in Listed /\ status[t] \in InPool
          BY <1>1 DEF IInv, Pools, Running, Listed, InPool
    <2>2. Root(t) = pool[t] BY <1>1, <2>1, RootIsOwner
    <2>3. pool[t] \in Threads BY <1>1, <2>1, OwnerThere
    <2>4. QED BY <1>1, <2>1, <2>2, <2>3 DEF ListsOK
  <1>2. IInv => SubthreadsReached BY <1>1 DEF SubthreadsReached
  <1>3. QED BY <1>2, Invariant, PTL
=============================================================================
