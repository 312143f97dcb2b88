----------------------------- MODULE ThreadPool -----------------------------
(***************************************************************************)
(* The thread pool of LibPlayer (amavutils/amthreadpool.c): a registry of  *)
(* threads in pools, with a request to exit per thread that controllers    *)
(* set and clear, and a sleep that the request and a wake cut short.       *)
(*                                                                         *)
(* A thread created from outside (the player thread) gets a pool of its    *)
(* own, which it names but is not a member of; the threads it creates, and *)
(* those they create, are members of it.                                   *)
(*                                                                         *)
(* A step is one critical section, or one access to shared data where no   *)
(* lock is held: usleep reads and decrements on_requred_exit, and wake     *)
(* reads it, outside the mutex under which wake, cancel and uncancel store *)
(* it; a thread is looked up under the lock of the registry and used after *)
(* that lock is released, while a join unregisters it, takes it from its   *)
(* pool, frees it and frees its pool, one after the other.                 *)
(***************************************************************************)
EXTENDS Integers, FiniteSets

CONSTANTS
  Threads,      \* threads that amthreadpool_pthread_create can start
  Parent,       \* who creates each thread: a thread, or Outside
  Outside,      \* a thread the registry does not know (the application's)
  Controllers,  \* concurrent callers of wake, cancel and uncancel
  Calls,        \* the calls they make: [op |-> ..., target |-> ...]
  NoCall

(* The entry points: amthreadpool_thread_wake; the pool-wide cancel and
   uncancel of ffmpeg_interrupt and ffmpeg_uninterrupt, which their "light"
   variants call too; and the cancel and uncancel of a single thread. *)
Cancels   == {"cancel", "cancel_one"}
Ops       == {"wake", "uncancel", "uncancel_one"} \cup Cancels

ASSUME ThreadAssumption ==
  /\ Parent \in [Threads -> Threads \cup {Outside}]
  /\ Outside \notin Threads
  /\ Calls \subseteq [op : Ops, target : Threads]
  /\ NoCall \notin Calls

VARIABLES
  status,          \* life of each thread
  pool,            \* t->pool, named by the thread that owns it
  threadpool_list, \* pools that exist
  threadlist,      \* members of each pool
  threadpool_threadlist, \* the registry of all threads
  on_requred_exit,
  sleep,           \* where each thread is in amthreadpool_thread_usleep
  reg,             \* on_requred_exit as usleep tested or loaded it
  call,            \* the call each controller is in
  wanted           \* history: was the last store to the request a cancel?

registry == <<pool, threadpool_list, threadlist, threadpool_threadlist>>
vars == <<status, registry, on_requred_exit, sleep, reg, call, wanted>>

(* A thread is created, finds its creator's pool, is listed in a pool, is
   registered and runs; it ends; its creator joins it, takes it from the
   registry and from its pool, and frees it and the pool it made. *)
Statuses == {"none", "created", "placed", "listed", "registered", "running", "exited",
             "unregistered", "unlisted", "freed", "joined"}
Freed(t) == status[t] \in {"freed", "joined"}
Children(t) == {c \in Threads : Parent[c] = t}
Idle == [of |-> NoCall, at |-> "idle", todo |-> {}, val |-> 0]
AtMostThree == {n \in Int : n <= 3}

TypeOK ==
  /\ status \in [Threads -> Statuses]
  /\ pool \in [Threads -> Threads \cup {Outside}]
  /\ threadpool_list \subseteq Threads
  /\ threadlist \in [Threads -> SUBSET Threads]
  /\ threadpool_threadlist \subseteq Threads
  /\ on_requred_exit \in [Threads -> AtMostThree]
  /\ sleep \in [Threads -> {"awake", "load", "store", "lock", "wait"}]
  /\ reg \in [Threads -> AtMostThree]
  /\ call \in [Controllers -> [of : Calls \cup {NoCall},
                               at : {"idle", "found", "pool", "members", "self"},
                               todo : SUBSET Threads, val : AtMostThree]]
  /\ wanted \in [Threads -> BOOLEAN]

Init ==
  /\ status = [t \in Threads |-> "none"]
  /\ pool = [t \in Threads |-> Outside]
  /\ threadpool_list = {}
  /\ threadlist = [t \in Threads |-> {}]
  /\ threadpool_threadlist = {}
  /\ on_requred_exit = [t \in Threads |-> 0]
  /\ sleep = [t \in Threads |-> "awake"]
  /\ reg = [t \in Threads |-> 0]
  /\ call = [c \in Controllers |-> Idle]
  /\ wanted = [t \in Threads |-> FALSE]
-----------------------------------------------------------------------------
(* Creation. *)

Goto(t, st) == status' = [status EXCEPT ![t] = st]

(* A thread runs its routine unless it sleeps, or creates or joins a child. *)
Active(t) == /\ status[t] = "running" /\ sleep[t] = "awake"
             /\ \A c \in Children(t) : status[c] \in {"none", "running", "exited", "joined"}

CanAct(who) == who = Outside \/ (who \in Threads /\ Active(who))

(* amthreadpool_pthread_create: the creator waits for thread_inited. *)
Create(t) ==
  /\ status[t] = "none"
  /\ CanAct(Parent[t])
  /\ Goto(t, "created")
  /\ UNCHANGED <<registry, on_requred_exit, sleep, reg, call, wanted>>

(* The list of a pool is locked while a call walks it. *)
Unlocked(p) == \A c \in Controllers :
                 ~ (call[c].at = "members" /\ pool[call[c].of.target] = p)

(* Mutant: the creator is looked up among the threads that made a pool, so
   that a thread made by a member of a pool gets a pool of its own. *)
FindPoolOwn(t) ==
  /\ status[t] = "created"
  /\ IF Parent[t] \in threadpool_list
     THEN pool' = [pool EXCEPT ![t] = pool[Parent[t]]]
     ELSE UNCHANGED pool
  /\ Goto(t, "placed")
  /\ UNCHANGED <<threadpool_list, threadlist, threadpool_threadlist,
                 on_requred_exit, sleep, reg, call, wanted>>

(* amthreadpool_start_thread: the pool of the creator, if it is registered; *)
FindPool(t) ==
  /\ status[t] = "created"
  /\ IF Parent[t] \in threadpool_threadlist
     THEN pool' = [pool EXCEPT ![t] = pool[Parent[t]]]
     ELSE UNCHANGED pool
  /\ Goto(t, "placed")
  /\ UNCHANGED <<threadpool_list, threadlist, threadpool_threadlist,
                 on_requred_exit, sleep, reg, call, wanted>>

(* amthreadpool_pool_add_thread: listed in that pool, or given a new one, *)
AddToPool(t) ==
  /\ status[t] = "placed"
  /\ IF pool[t] = Outside
     THEN /\ pool' = [pool EXCEPT ![t] = t]
          /\ threadpool_list' = threadpool_list \cup {t}
          /\ UNCHANGED threadlist
     ELSE /\ Unlocked(pool[t])
          /\ threadlist' = [threadlist EXCEPT ![pool[t]] = @ \cup {t}]
          /\ UNCHANGED <<pool, threadpool_list>>
  /\ Goto(t, "listed")
  /\ UNCHANGED <<threadpool_threadlist, on_requred_exit, sleep, reg, call, wanted>>

(* and registered. *)
Register(t) ==
  /\ status[t] = "listed"
  /\ threadpool_threadlist' = threadpool_threadlist \cup {t}
  /\ Goto(t, "registered")
  /\ UNCHANGED <<pool, threadpool_list, threadlist, on_requred_exit, sleep, reg, call, wanted>>

(* Mutant: thread_inited is set before the thread is registered. *)
SetInitedEarly(t) ==
  /\ status[t] = "listed"
  /\ Goto(t, "running")
  /\ UNCHANGED <<registry, on_requred_exit, sleep, reg, call, wanted>>

(* thread_inited is set; the creator goes on, and the routine runs. *)
SetInited(t) ==
  /\ status[t] = "registered"
  /\ Goto(t, "running")
  /\ UNCHANGED <<registry, on_requred_exit, sleep, reg, call, wanted>>

StartThread(t) == FindPool(t) \/ AddToPool(t) \/ Register(t) \/ SetInited(t)
-----------------------------------------------------------------------------
(* Exit and join. *)

(* The routine ends when it tests on_requred_exit and finds it set, or
   because its work is done; it has joined the threads it made. *)
MayExit(t) == Active(t) /\ \A c \in Children(t) : status[c] \in {"none", "joined"}

ExitOnRequest(t) ==
  /\ MayExit(t)
  /\ on_requred_exit[t] # 0
  /\ status' = [status EXCEPT ![t] = "exited"]
  /\ UNCHANGED <<registry, on_requred_exit, sleep, reg, call, wanted>>

Finish(t) ==
  /\ MayExit(t)
  /\ on_requred_exit[t] = 0
  /\ status' = [status EXCEPT ![t] = "exited"]
  /\ UNCHANGED <<registry, on_requred_exit, sleep, reg, call, wanted>>

(* amthreadpool_pthread_join: when the thread has ended it is unregistered, *)
Unregister(t) ==
  /\ status[t] = "exited"
  /\ CanAct(Parent[t])
  /\ threadpool_threadlist' = threadpool_threadlist \ {t}
  /\ Goto(t, "unregistered")
  /\ UNCHANGED <<pool, threadpool_list, threadlist, on_requred_exit, sleep, reg, call, wanted>>

(* Mutant: the thread is taken from the list without its lock. *)
UnlistUnlocked(t) ==
  /\ status[t] = "unregistered"
  /\ threadlist' = [threadlist EXCEPT ![pool[t]] = @ \ {t}]
  /\ Goto(t, "unlisted")
  /\ UNCHANGED <<pool, threadpool_list, threadpool_threadlist,
                 on_requred_exit, sleep, reg, call, wanted>>

(* taken from the list of its pool, for which its lock is waited for, *)
Unlist(t) ==
  /\ status[t] = "unregistered"
  /\ Unlocked(pool[t])
  /\ threadlist' = [threadlist EXCEPT ![pool[t]] = @ \ {t}]
  /\ Goto(t, "unlisted")
  /\ UNCHANGED <<pool, threadpool_list, threadpool_threadlist,
                 on_requred_exit, sleep, reg, call, wanted>>

(* and freed. *)
FreeThread(t) ==
  /\ status[t] = "unlisted"
  /\ Goto(t, "freed")
  /\ UNCHANGED <<registry, on_requred_exit, sleep, reg, call, wanted>>

(* amthreadpool_release: the pool that the thread made is freed, and its list
   with it, whoever has it locked. *)
Release(t) ==
  /\ status[t] = "freed"
  /\ IF pool[t] = t
     THEN /\ threadpool_list' = threadpool_list \ {t}
          /\ threadlist' = [threadlist EXCEPT ![t] = {}]
     ELSE UNCHANGED <<threadpool_list, threadlist>>
  /\ Goto(t, "joined")
  /\ UNCHANGED <<pool, threadpool_threadlist, on_requred_exit, sleep, reg, call, wanted>>

Join(t) == Unregister(t) \/ Unlist(t) \/ FreeThread(t) \/ Release(t)
-----------------------------------------------------------------------------
(* amthreadpool_thread_usleep. *)
SleepGoto(t, at) == sleep' = [sleep EXCEPT ![t] = at]

(* The test of on_requred_exit > 1, *)
SleepTest(t) ==
  /\ Active(t)
  /\ IF on_requred_exit[t] > 1
     THEN reg' = [reg EXCEPT ![t] = on_requred_exit[t]] /\ SleepGoto(t, "load")
     ELSE SleepGoto(t, "lock") /\ UNCHANGED reg
  /\ UNCHANGED <<status, registry, on_requred_exit, call, wanted>>

(* the load of the value to count down, which no lock protects: the compiled
   code reads it again, or goes on with the value it has tested, *)
SleepLoad(t) ==
  /\ sleep[t] = "load"
  /\ \E n \in {reg[t], on_requred_exit[t]} : reg' = [reg EXCEPT ![t] = n]
  /\ SleepGoto(t, "store")
  /\ UNCHANGED <<status, registry, on_requred_exit, call, wanted>>

(* Mutant: the request is counted up. *)
SleepStoreUp(t) ==
  /\ sleep[t] = "store"
  /\ on_requred_exit' = [on_requred_exit EXCEPT ![t] = reg[t] + 1]
  /\ reg' = [reg EXCEPT ![t] = 0]
  /\ SleepGoto(t, "lock")
  /\ UNCHANGED <<status, registry, call, wanted>>

(* Mutant: the request is counted down to nothing. *)
SleepStoreClears(t) ==
  /\ sleep[t] = "store"
  /\ on_requred_exit' = [on_requred_exit EXCEPT ![t] = IF reg[t] > 2 THEN 2 ELSE 0]
  /\ reg' = [reg EXCEPT ![t] = 0]
  /\ SleepGoto(t, "lock")
  /\ UNCHANGED <<status, registry, call, wanted>>

(* and the store of one less: of -1, if the request was taken back between
   the test and the load. *)
SleepStore(t) ==
  /\ sleep[t] = "store"
  /\ on_requred_exit' = [on_requred_exit EXCEPT ![t] = reg[t] - 1]
  /\ reg' = [reg EXCEPT ![t] = 0]
  /\ SleepGoto(t, "lock")
  /\ UNCHANGED <<status, registry, call, wanted>>

(* The mutex is taken and the condition waited for, *)
SleepWait(t) ==
  /\ sleep[t] = "lock"
  /\ SleepGoto(t, "wait")
  /\ UNCHANGED <<status, registry, on_requred_exit, reg, call, wanted>>

(* until the time is over, or a signal (in WakeT below). *)
SleepTimeout(t) ==
  /\ sleep[t] = "wait"
  /\ SleepGoto(t, "awake")
  /\ UNCHANGED <<status, registry, on_requred_exit, reg, call, wanted>>
-----------------------------------------------------------------------------
(* The calls of the controllers. *)

(* amthreadpool_thread_wake_t: store and signal under the thread's mutex. *)
WakeT(t, trycancel) ==
  /\ on_requred_exit' = [on_requred_exit EXCEPT ![t] = trycancel]
  /\ sleep' = [sleep EXCEPT ![t] = IF @ = "wait" THEN "awake" ELSE @]

CancelValue(op) == IF op \in Cancels THEN 3 ELSE 0

PoolWide(op) == op \in {"cancel", "uncancel"}

(* The thread is looked up, under the lock of the registry; an unknown one
   ends the call. *)
Begin(c) ==
  /\ call[c] = Idle
  /\ \E k \in Calls :
       /\ k.target \in threadpool_threadlist
       /\ call' = [call EXCEPT ![c] = [of |-> k, at |-> "found", todo |-> {}, val |-> 0]]
  /\ UNCHANGED <<status, registry, on_requred_exit, sleep, reg, wanted>>

(* What the next step of a call uses has been freed: the thread it has looked
   up, or the pool of that thread. *)
Gone(c) ==
  LET t == call[c].of.target IN
    \/ call[c].at \in {"found", "self"} /\ Freed(t)
    \/ call[c].at \in {"pool", "members"} /\ pool[t] \notin threadpool_list

(* Use of it is undefined: the call returns, or never does. *)
UseFreed(c) ==
  /\ call[c].at # "idle" /\ Gone(c)
  /\ call' = [call EXCEPT ![c] = Idle]
  /\ UNCHANGED <<status, registry, on_requred_exit, sleep, reg, wanted>>

(* wake reads the request that it will store again. *)
ReadRequest(c) ==
  /\ call[c].at = "found" /\ ~ Gone(c)
  /\ call[c].of.op = "wake"
  /\ call' = [call EXCEPT ![c].at = "self", ![c].val = on_requred_exit[call[c].of.target]]
  /\ UNCHANGED <<status, registry, on_requred_exit, sleep, reg, wanted>>

(* The others read the pool; a pool-wide one goes to its list if the thread
   is the one that made the pool. *)
ReadPool(c) ==
  /\ call[c].at = "found" /\ ~ Gone(c)
  /\ call[c].of.op # "wake"
  /\ LET t == call[c].of.target IN
     call' = [call EXCEPT
       ![c].at = IF PoolWide(call[c].of.op) /\ pool[t] = t THEN "pool" ELSE "self",
       ![c].val = CancelValue(call[c].of.op)]
  /\ UNCHANGED <<status, registry, on_requred_exit, sleep, reg, wanted>>

(* The list is locked for the whole walk. *)
LockList(c) ==
  /\ call[c].at = "pool" /\ ~ Gone(c)
  /\ LET p == pool[call[c].of.target] IN
       /\ Unlocked(p)
       /\ call' = [call EXCEPT ![c].at = "members", ![c].todo = threadlist[p]]
  /\ UNCHANGED <<status, registry, on_requred_exit, sleep, reg, wanted>>

(* Mutant: the member is signalled with the request it already has. *)
CallMemberKeeps(c) ==
  /\ call[c].at = "members" /\ ~ Gone(c)
  /\ \E t \in call[c].todo :
       /\ WakeT(t, on_requred_exit[t])
       /\ call' = [call EXCEPT ![c].todo = @ \ {t}]
       /\ wanted' = [wanted EXCEPT ![t] = (call[c].val = 3)]
  /\ UNCHANGED <<status, registry, reg>>

(* One member of the list is stored to and signalled. *)
CallMember(c) ==
  /\ call[c].at = "members" /\ ~ Gone(c)
  /\ \E t \in call[c].todo :
       /\ WakeT(t, call[c].val)
       /\ call' = [call EXCEPT ![c].todo = @ \ {t}]
       /\ wanted' = [wanted EXCEPT ![t] = (call[c].val = 3)]
  /\ UNCHANGED <<status, registry, reg>>

MembersDone(c) ==
  /\ call[c].at = "members" /\ ~ Gone(c)
  /\ call[c].todo = {}
  /\ call' = [call EXCEPT ![c].at = "self"]
  /\ UNCHANGED <<status, registry, on_requred_exit, sleep, reg, wanted>>

(* Last the thread itself. *)
CallSelf(c) ==
  /\ call[c].at = "self" /\ ~ Gone(c)
  /\ LET t == call[c].of.target IN
       /\ WakeT(t, call[c].val)
       /\ wanted' = IF call[c].of.op = "wake" THEN wanted
                    ELSE [wanted EXCEPT ![t] = (call[c].val = 3)]
  /\ call' = [call EXCEPT ![c] = Idle]
  /\ UNCHANGED <<status, registry, reg>>

Thread(t) ==
  \/ Create(t) \/ StartThread(t) \/ ExitOnRequest(t) \/ Finish(t) \/ Join(t)
  \/ SleepTest(t) \/ SleepLoad(t) \/ SleepStore(t) \/ SleepWait(t) \/ SleepTimeout(t)

Controller(c) ==
  \/ Begin(c) \/ ReadRequest(c) \/ ReadPool(c) \/ LockList(c) \/ CallMember(c)
  \/ MembersDone(c) \/ CallSelf(c) \/ UseFreed(c)

Next == (\E t \in Threads : Thread(t)) \/ (\E c \in Controllers : Controller(c))

Spec == Init /\ [][Next]_vars

(* A sleep ends by its timeout; a loop that sleeps tests the request again
   and again, and ends when it finds it set. *)
FairSpec ==
  /\ Spec
  /\ \A t \in Threads :
       /\ WF_vars(SleepLoad(t) \/ SleepStore(t) \/ SleepWait(t) \/ SleepTimeout(t))
       /\ SF_vars(ExitOnRequest(t))
       /\ WF_vars(StartThread(t))
-----------------------------------------------------------------------------
Running == {t \in Threads : status[t] = "running"}
(* The thread made from outside that t descends from: every set that holds t
   and, with a thread, the thread that made it, holds the root. *)
ClosedUp(S) == \A u \in S : Parent[u] # Outside => Parent[u] \in S
Ancestors(t) == {r \in Threads : \A S \in SUBSET Threads : t \in S /\ ClosedUp(S) => r \in S}
Root(t) == CHOOSE r \in Ancestors(t) : Parent[r] = Outside
Woken   == {k.target : k \in {k \in Calls : k.op = "wake"}}

(* A thread that exists can be found, so that a cancel or a wake of it is not
   dropped as "thread data not found": the creator goes on only when the new
   thread is registered. *)
RunningIsFound == \A t \in Running : t \in threadpool_threadlist

(* A lookup finds no thread that was freed, and no thread outlives the pool
   it points to.  A walk never has a freed thread left to call, and a call
   meets freed memory only if the very thread it asked for was joined after
   the lookup: not when a member of its pool was. *)
NoDanglingThread ==
  /\ \A t \in threadpool_threadlist : ~ Freed(t) /\ pool[t] \in threadpool_list
  /\ \A p \in threadpool_list : \A t \in threadlist[p] : ~ Freed(t)
  /\ \A c \in Controllers : call[c].at # "idle" =>
       \/ Freed(call[c].of.target)
       \/ ~ Gone(c) /\ \A t \in call[c].todo : ~ Freed(t)

(* A request to exit is not lost: while the last thing that was asked of a
   thread is to exit, it finds the request set, in spite of its own unlocked
   countdown in usleep.  This holds of the threads that nobody wakes. *)
CancelSticks == \A t \in Running \ Woken : wanted[t] => on_requred_exit[t] # 0

(* ffmpeg_interrupt cancels the pool of the player thread and no other: it
   reaches every thread the player has made, and those they have made,
   because each is in the list of the pool that the player names. *)
SubthreadsReached ==
  \A t \in Running : LET p == Root(t) IN t # p => t \in threadlist[p]

(* A thread that is asked to exit, and is not asked to go on later, does not
   run for ever.  One with threads of its own waits for them to end, and is
   left out: one it makes after the cancel has walked the list is not asked. *)
CancelEndsThread ==
  \A t \in Threads \ Woken :
    Children(t) = {} => ~ <>[](wanted[t] /\ status[t] = "running")
-----------------------------------------------------------------------------
(* What a comment of player_ffmpeg_ctrl.c says, and the code does not do. *)

(* "interrupt this thread poll include sub thread": once interrupted, and not
   uninterrupted since, a thread finds the request.  A wake that read the
   request before stores the old value over it. *)
InterruptHolds == \A t \in Running : wanted[t] => on_requred_exit[t] # 0
=============================================================================
