---------------------------- MODULE PlayerControl ----------------------------
(***************************************************************************)
(* The calls of the player library (amplayer/player/player_ctrl.c), the    *)
(* pool of player ids they work with (player_id.c), and the life of a      *)
(* player: its memory, its thread (thread_mgt.c) and its end.              *)
(*                                                                         *)
(* player_start takes a pid, allocates a player and creates its thread.    *)
(* Every other call opens the data of the pid, which counts it in, works   *)
(* on the player, and closes the data.  player_stop sends CMD_STOP and     *)
(* joins the thread, unless it has no memory for the command; player_exit  *)
(* stops the player if it is not over, joins the thread, and frees player  *)
(* and pid whatever came of the stop and the join.  A step is one critical *)
(* section of the pid pool, or one access to the player.                   *)
(*                                                                         *)
(* What the player thread does is PlayerThread, of which only the states   *)
(* the calls look at are here; its requests to exit are ThreadPool, its    *)
(* commands MessagePool.  The calls of the threads library are external.   *)
(***************************************************************************)
EXTENDS Integers

CONSTANTS
  MaxPids,   \* MAX_PLAYER_THREADS
  Players,   \* memory that player_start can get: bounds how many players are started
  Tids,      \* values of pthread_t: one is free again once its thread is joined
  Clients,   \* threads of the application
  Ops,       \* the calls they make
  MaxCalls,  \* bound: how many calls, beside player_start
  NULL

Pids == 0..(MaxPids - 1)

(* "use" is any call that opens, reads or posts, and closes; "async" is
   player_stop_async; "lrvolume" is audio_set_lrvolume, and "info"
   player_get_media_info. *)
Kinds == {"use", "async", "lrvolume", "info", "stop", "exit"}

ASSUME ControlAssumption ==
  /\ MaxPids \in Nat \ {0} /\ MaxCalls \in Nat
  /\ Ops \subseteq Kinds
  /\ NULL \notin Players \cup Clients \cup Tids

VARIABLES
  priv_pid_pool, \* pids that are taken
  priv_pid_data, \* the player of each pid
  priv_pid_used, \* calls that have opened it
  last,          \* the pid taken last
  life,          \* the memory of each player
  thread,        \* its thread, and the player state the calls look at
  pthread_id,    \* thread_mgt.pthread_id
  bearer,        \* whose thread each pthread_t names
  joined,        \* pthread_t's that a join waits for
  stopping,      \* players that CMD_STOP was sent to
  secondhand,    \* history: players whose thread got a pthread_t that another
                 \* player, whose thread was joined, still stored
  player_stop_mutex, player_exit_mutex,
  call,          \* where each client is
  handles,       \* pids that player_start returned and player_exit has not taken back
  calls,         \* calls made so far
  nomem          \* history: pids whose player_start found no memory

pool    == <<priv_pid_pool, priv_pid_data, priv_pid_used, last>>
threads == <<thread, pthread_id, bearer, joined, stopping, secondhand>>
mutexes == <<player_stop_mutex, player_exit_mutex>>
vars    == <<pool, life, threads, mutexes, call, handles, calls, nomem>>

Idle == [op |-> "none", pid |-> -1, para |-> NULL, at |-> "idle"]

StopSteps == {"stop_enter", "stop_test", "stop_send", "stop_join", "stop_wait", "stop_leave",
              "stop_fail"}
Steps == {"idle", "malloc", "data", "create", "free", "release",
          "open", "act", "close", "info1", "info2", "info3", "info_close",
          "exit_enter", "exit_test", "exit_join", "exit_wait", "exit_free",
          "exit_close", "exit_release"} \cup StopSteps

TypeOK ==
  /\ priv_pid_pool \subseteq Pids
  /\ priv_pid_data \in [Pids -> Players \cup {NULL}]
  /\ priv_pid_used \in [Pids -> Nat]
  /\ last \in Pids \cup {-1}
  /\ life \in [Players -> {"fresh", "allocated", "freed"}]
  /\ thread \in [Players -> {"none", "init", "play", "over", "exit", "ended"}]
  /\ pthread_id \in [Players -> Tids \cup {NULL}]
  /\ bearer \in [Tids -> Players \cup {NULL}]
  /\ joined \subseteq Tids /\ stopping \subseteq Players /\ secondhand \subseteq Players
  /\ player_stop_mutex \in Clients \cup {NULL} /\ player_exit_mutex \in Clients \cup {NULL}
  /\ call \in [Clients -> [op : Kinds \cup {"start", "none"}, pid : Pids \cup {-1},
                           para : Players \cup {NULL}, at : Steps]]
  /\ handles \subseteq Pids /\ calls \in 0..MaxCalls /\ nomem \subseteq Pids

Init ==
  /\ priv_pid_pool = {} /\ last = -1
  /\ priv_pid_data = [i \in Pids |-> NULL]
  /\ priv_pid_used = [i \in Pids |-> 0]
  /\ life = [p \in Players |-> "fresh"]
  /\ thread = [p \in Players |-> "none"]
  /\ pthread_id = [p \in Players |-> NULL]
  /\ bearer = [t \in Tids |-> NULL]
  /\ joined = {} /\ stopping = {} /\ secondhand = {}
  /\ player_stop_mutex = NULL /\ player_exit_mutex = NULL
  /\ call = [c \in Clients |-> Idle]
  /\ handles = {} /\ calls = 0 /\ nomem = {}
-----------------------------------------------------------------------------
(* The pool of pids. *)

Free(i) == i \notin priv_pid_pool
After(i) == (i - last - 1) % MaxPids

(* Mutant: the bit of the pid is not looked at. *)
NextPid(i) == After(i) = 0

(* player_request_pid takes the first free pid after the one taken last. *)
FirstFree(i) == Free(i) /\ \A j \in Pids : Free(j) => After(i) <= After(j)

Take(i) ==
  /\ priv_pid_pool' = priv_pid_pool \cup {i}
  /\ priv_pid_data' = [priv_pid_data EXCEPT ![i] = NULL]
  /\ priv_pid_used' = [priv_pid_used EXCEPT ![i] = 0]
  /\ last' = i

(* player_release_pid *)
Release(i) ==
  /\ priv_pid_pool' = priv_pid_pool \ {i}
  /\ IF Free(i) THEN UNCHANGED <<priv_pid_data, priv_pid_used>>
     ELSE /\ priv_pid_data' = [priv_pid_data EXCEPT ![i] = NULL]
          /\ priv_pid_used' = [priv_pid_used EXCEPT ![i] = 0]
  /\ UNCHANGED last

(* player_open_pid_data: an open that finds no player counts too. *)
Opened(i) == IF Free(i) THEN NULL ELSE priv_pid_data[i]
CountIn(i) ==
  /\ priv_pid_used' = IF Free(i) THEN priv_pid_used ELSE [priv_pid_used EXCEPT ![i] = @ + 1]
  /\ UNCHANGED <<priv_pid_pool, priv_pid_data, last>>

(* player_close_pid_data *)
CountOut(i) ==
  /\ priv_pid_used' = IF Free(i) \/ priv_pid_used[i] = 0 THEN priv_pid_used
                      ELSE [priv_pid_used EXCEPT ![i] = @ - 1]
  /\ UNCHANGED <<priv_pid_pool, priv_pid_data, last>>

Goto(c, at) == call' = [call EXCEPT ![c].at = at]
GotoWith(c, para, at) == call' = [call EXCEPT ![c].para = para, ![c].at = at]
Return(c) == call' = [call EXCEPT ![c] = Idle]
-----------------------------------------------------------------------------
(* Mutant: that no pid is free is not looked at. *)
StartRequestBlindly(c) ==
  /\ call[c] = Idle
  /\ \E p \in Players : life[p] = "fresh"
  /\ \E i \in Pids \cup {-1} :
       /\ IF i \in Pids THEN FirstFree(i) /\ Take(i)
          ELSE Pids \subseteq priv_pid_pool /\ UNCHANGED pool
       /\ call' = [call EXCEPT ![c] = [op |-> "start", pid |-> i, para |-> NULL, at |-> "malloc"]]
       /\ nomem' = nomem \ {i}
  /\ UNCHANGED <<life, threads, mutexes, handles, calls>>

(* player_start. *)
StartRequest(c) ==
  /\ call[c] = Idle
  /\ \E p \in Players : life[p] = "fresh"
  /\ \E i \in Pids : /\ FirstFree(i) /\ Take(i)
                     /\ call' = [call EXCEPT ![c] = [op |-> "start", pid |-> i, para |-> NULL,
                                                     at |-> "malloc"]]
                     /\ nomem' = nomem \ {i}
  /\ UNCHANGED <<life, threads, mutexes, handles, calls>>

(* Without memory it returns, and keeps the pid. *)
StartMalloc(c) ==
  /\ call[c].at = "malloc"
  /\ \/ /\ Return(c) /\ nomem' = nomem \cup {call[c].pid}
        /\ UNCHANGED life
     \/ \E p \in Players :
          /\ life[p] = "fresh"
          /\ life' = [life EXCEPT ![p] = "allocated"]
          /\ GotoWith(c, p, "data")
          /\ UNCHANGED nomem
  /\ UNCHANGED <<pool, threads, mutexes, handles, calls>>

StartData(c) ==
  /\ call[c].at = "data"
  /\ priv_pid_data' = [priv_pid_data EXCEPT ![call[c].pid] = call[c].para]
  /\ Goto(c, "create")
  /\ UNCHANGED <<priv_pid_pool, priv_pid_used, last, life, threads, mutexes, handles, calls, nomem>>

(* The players that store t: allocated, and not exited yet. *)
Storing(t) == {p \in Players : life[p] = "allocated" /\ pthread_id[p] = t}

(* player_thread_create: the new thread gets a pthread_t that names no other
   thread now; a joined one may still be stored.  Nobody but the creator has
   the pid yet, so that the id is stored later than the thread starts makes no
   difference here. *)
StartCreate(c) ==
  /\ call[c].at = "create"
  /\ \/ \E t \in Tids :
          /\ bearer[t] = NULL
          /\ bearer' = [bearer EXCEPT ![t] = call[c].para]
          /\ pthread_id' = [pthread_id EXCEPT ![call[c].para] = t]
          /\ thread' = [thread EXCEPT ![call[c].para] = "init"]
          /\ secondhand' = IF Storing(t) = {} THEN secondhand ELSE secondhand \cup {call[c].para}
          /\ handles' = handles \cup {call[c].pid}
          /\ Return(c)
     \/ Goto(c, "free") /\ UNCHANGED <<bearer, pthread_id, thread, secondhand, handles>>
  /\ UNCHANGED <<pool, life, joined, stopping, mutexes, calls, nomem>>

(* Mutant: the player is freed, its pid is not. *)
StartFreeOnly(c) ==
  /\ call[c].at = "free"
  /\ life' = [life EXCEPT ![call[c].para] = "freed"]
  /\ Return(c)
  /\ UNCHANGED <<pool, threads, mutexes, handles, calls, nomem>>

StartFree(c) ==
  /\ call[c].at = "free"
  /\ life' = [life EXCEPT ![call[c].para] = "freed"]
  /\ GotoWith(c, NULL, "release")
  /\ UNCHANGED <<pool, threads, mutexes, handles, calls, nomem>>

StartRelease(c) ==
  /\ call[c].at = "release"
  /\ Release(call[c].pid)
  /\ Return(c)
  /\ UNCHANGED <<life, threads, mutexes, handles, calls, nomem>>
-----------------------------------------------------------------------------
(* A client calls with a pid that player_start returned.  The release of a
   pid warns if a call is still inside, so clients call player_exit last:
   when they are in no other call with the pid, nor will be. *)
Users(i) == {c \in Clients : call[c].pid = i}

First(op) == CASE op = "stop" -> "stop_enter"
               [] op = "exit" -> "exit_enter"
               [] op = "info" -> "info1"
               [] OTHER -> "open"

Begin(c) ==
  /\ call[c] = Idle /\ calls < MaxCalls
  /\ \E op \in Ops, i \in handles :
       /\ op = "exit" => Users(i) = {}
       /\ call' = [call EXCEPT ![c] = [op |-> op, pid |-> i, para |-> NULL, at |-> First(op)]]
       /\ handles' = IF op = "exit" THEN handles \ {i} ELSE handles
  /\ calls' = calls + 1
  /\ UNCHANGED <<pool, life, threads, mutexes, nomem>>

(* Open, act, close: player_get_bitrate, player_send_message and their like. *)
Open(c) ==
  /\ call[c].at = "open"
  /\ CountIn(call[c].pid)
  /\ IF Opened(call[c].pid) = NULL THEN Return(c)
     ELSE GotoWith(c, Opened(call[c].pid), "act")
  /\ UNCHANGED <<life, threads, mutexes, handles, calls, nomem>>

Over(p) == thread[p] \in {"exit", "ended"}

(* player_stop_async sends the stop, unless all is over or it has no memory
   for the command; audio_set_lrvolume returns without closing. *)
Act(c) ==
  /\ call[c].at = "act"
  /\ \/ UNCHANGED stopping
     \/ /\ call[c].op = "async" /\ ~ Over(call[c].para)
        /\ stopping' = stopping \cup {call[c].para}
  /\ IF call[c].op = "lrvolume" THEN Return(c) ELSE Goto(c, "close")
  /\ UNCHANGED <<pool, life, thread, pthread_id, bearer, joined, secondhand, mutexes, handles, calls,
                 nomem>>

Close(c) ==
  /\ call[c].at = "close"
  /\ CountOut(call[c].pid)
  /\ Return(c)
  /\ UNCHANGED <<life, threads, mutexes, handles, calls, nomem>>

(* player_get_media_info waits for PLAYER_INITOK: it reads the state thrice a
   round; an error found by the second reading makes it close what it has not
   opened. *)
State(i) == IF Opened(i) = NULL THEN "invalid" ELSE thread[Opened(i)]

InfoWaits(c) ==
  /\ \/ call[c].at = "info1" /\ Goto(c, IF State(call[c].pid) = "init" THEN "info2" ELSE "open")
     \/ call[c].at = "info2" /\ Goto(c, IF State(call[c].pid) \in {"over", "exit", "ended"}
                                        THEN "info_close" ELSE "info3")
     \/ /\ call[c].at = "info3"
        /\ IF State(call[c].pid) \in {"over", "exit", "ended"} THEN Return(c)
           ELSE Goto(c, "info1")
  /\ UNCHANGED <<pool, life, threads, mutexes, handles, calls, nomem>>

InfoCloses(c) ==
  /\ call[c].at = "info_close"
  /\ CountOut(call[c].pid)
  /\ Return(c)
  /\ UNCHANGED <<life, threads, mutexes, handles, calls, nomem>>
-----------------------------------------------------------------------------
(* pthread_join: it fails at once for a pthread_t that names no thread
   (ESRCH), or that another join waits for (EINVAL). *)
JoinBegins(c, t, waits, fails) ==
  /\ IF t = NULL \/ bearer[t] = NULL \/ t \in joined
     THEN Goto(c, fails) /\ UNCHANGED joined
     ELSE Goto(c, waits) /\ joined' = joined \cup {t}
  /\ UNCHANGED <<thread, pthread_id, bearer, stopping, secondhand>>

JoinEnds(t) ==
  /\ thread[bearer[t]] = "ended"
  /\ bearer' = [bearer EXCEPT ![t] = NULL]
  /\ joined' = joined \ {t}
  /\ UNCHANGED <<thread, pthread_id, stopping, secondhand>>

(* player_stop, called by a client or by player_exit. *)
StopReturns(c) == IF call[c].op = "exit" THEN Goto(c, "exit_join") ELSE Return(c)

StopEnter(c) ==
  /\ call[c].at = "stop_enter" /\ player_stop_mutex = NULL
  /\ CountIn(call[c].pid)
  /\ IF Opened(call[c].pid) = NULL
     THEN StopReturns(c) /\ UNCHANGED player_stop_mutex
     ELSE /\ player_stop_mutex' = c
          /\ GotoWith(c, Opened(call[c].pid), "stop_test")
  /\ UNCHANGED <<life, threads, player_exit_mutex, handles, calls, nomem>>

(* Mutant: a player that plays no more is taken for one that has exited. *)
StopTestAny(c) ==
  /\ call[c].at = "stop_test"
  /\ Goto(c, IF thread[call[c].para] \in {"over", "exit", "ended"} THEN "stop_leave" ELSE "stop_send")
  /\ UNCHANGED <<pool, life, threads, mutexes, handles, calls, nomem>>

StopTest(c) ==
  /\ call[c].at = "stop_test"
  /\ Goto(c, IF Over(call[c].para) THEN "stop_leave" ELSE "stop_send")
  /\ UNCHANGED <<pool, life, threads, mutexes, handles, calls, nomem>>

(* Without memory for the command it sends nothing and joins nothing. *)
StopSend(c) ==
  /\ call[c].at = "stop_send"
  /\ \/ stopping' = stopping \cup {call[c].para} /\ Goto(c, "stop_join")
     \/ Goto(c, "stop_fail") /\ UNCHANGED stopping
  /\ UNCHANGED <<pool, life, thread, pthread_id, bearer, joined, secondhand, mutexes, handles, calls,
                 nomem>>

StopJoin(c) ==
  /\ call[c].at = "stop_join"
  /\ JoinBegins(c, pthread_id[call[c].para], "stop_wait", "stop_fail")
  /\ UNCHANGED <<pool, life, mutexes, handles, calls, nomem>>

StopJoined(c) ==
  /\ call[c].at = "stop_wait"
  /\ JoinEnds(pthread_id[call[c].para])
  /\ Goto(c, "stop_leave")
  /\ UNCHANGED <<pool, life, mutexes, handles, calls, nomem>>

(* Mutant: the early return forgets the lock. *)
StopLeaveLocked(c) ==
  /\ call[c].at \in {"stop_leave", "stop_fail"}
  /\ CountOut(call[c].pid)
  /\ player_stop_mutex' = IF Over(call[c].para) /\ call[c].para \notin stopping THEN c ELSE NULL
  /\ StopReturns(c)
  /\ UNCHANGED <<life, threads, player_exit_mutex, handles, calls, nomem>>

(* Close, unlock, return: success, or the error of message_alloc or of the join. *)
StopLeave(c) ==
  /\ call[c].at \in {"stop_leave", "stop_fail"}
  /\ CountOut(call[c].pid)
  /\ player_stop_mutex' = NULL
  /\ StopReturns(c)
  /\ UNCHANGED <<life, threads, player_exit_mutex, handles, calls, nomem>>
-----------------------------------------------------------------------------
(* player_exit. *)
ExitEnter(c) ==
  /\ call[c].at = "exit_enter" /\ player_exit_mutex = NULL
  /\ player_exit_mutex' = c
  /\ CountIn(call[c].pid)
  /\ LET p == Opened(call[c].pid) IN
       GotoWith(c, p, IF p = NULL THEN "exit_close" ELSE "exit_test")
  /\ UNCHANGED <<life, threads, player_stop_mutex, handles, calls, nomem>>

(* Mutant: a player that is over is not waited for. *)
ExitTestFrees(c) ==
  /\ call[c].at = "exit_test"
  /\ Goto(c, IF Over(call[c].para) THEN "exit_free" ELSE "stop_enter")
  /\ UNCHANGED <<pool, life, threads, mutexes, handles, calls, nomem>>

ExitTest(c) ==
  /\ call[c].at = "exit_test"
  /\ Goto(c, IF Over(call[c].para) THEN "exit_join" ELSE "stop_enter")
  /\ UNCHANGED <<pool, life, threads, mutexes, handles, calls, nomem>>

(* The thread is joined again, though player_stop may have joined it, and
   whether or not it was told to stop; if the join fails, so much the worse. *)
ExitJoin(c) ==
  /\ call[c].at = "exit_join"
  /\ JoinBegins(c, pthread_id[call[c].para], "exit_wait", "exit_free")
  /\ UNCHANGED <<pool, life, mutexes, handles, calls, nomem>>

ExitJoined(c) ==
  /\ call[c].at = "exit_wait"
  /\ JoinEnds(pthread_id[call[c].para])
  /\ Goto(c, "exit_free")
  /\ UNCHANGED <<pool, life, mutexes, handles, calls, nomem>>

ExitFree(c) ==
  /\ call[c].at = "exit_free"
  /\ life' = [life EXCEPT ![call[c].para] = "freed"]
  /\ GotoWith(c, NULL, "exit_close")
  /\ UNCHANGED <<pool, threads, mutexes, handles, calls, nomem>>

ExitClose(c) ==
  /\ call[c].at = "exit_close"
  /\ CountOut(call[c].pid)
  /\ Goto(c, "exit_release")
  /\ UNCHANGED <<life, threads, mutexes, handles, calls, nomem>>

ExitRelease(c) ==
  /\ call[c].at = "exit_release"
  /\ Release(call[c].pid)
  /\ player_exit_mutex' = NULL
  /\ Return(c)
  /\ UNCHANGED <<life, threads, player_stop_mutex, handles, calls, nomem>>
-----------------------------------------------------------------------------
(* The player thread: it becomes ready, it plays to an end, an error or a
   stop, it sets PLAYER_EXIT, reports it, and ends. *)
ThreadStep(p, from, to) ==
  /\ thread[p] \in from
  /\ thread' = [thread EXCEPT ![p] = to]
  /\ UNCHANGED <<pool, life, pthread_id, bearer, joined, stopping, secondhand, mutexes, call, handles,
                 calls, nomem>>

Ready(p)    == ThreadStep(p, {"init"}, "play")
GetsOver(p) == ThreadStep(p, {"init", "play"}, "over")
Exits(p)    == ThreadStep(p, {"init", "play", "over"}, "exit")
Ends(p)     == ThreadStep(p, {"exit"}, "ended")

Start(c) == \/ StartRequest(c) \/ StartMalloc(c) \/ StartData(c) \/ StartCreate(c)
            \/ StartFree(c) \/ StartRelease(c)
Stop(c)  == \/ StopEnter(c) \/ StopTest(c) \/ StopSend(c) \/ StopJoin(c) \/ StopJoined(c)
            \/ StopLeave(c)
Exit(c)  == \/ ExitEnter(c) \/ ExitTest(c) \/ ExitJoin(c) \/ ExitJoined(c) \/ ExitFree(c)
            \/ ExitClose(c) \/ ExitRelease(c)
Use(c)   == Open(c) \/ Act(c) \/ Close(c) \/ InfoWaits(c) \/ InfoCloses(c)

Client(c)  == Start(c) \/ Begin(c) \/ Use(c) \/ Stop(c) \/ Exit(c)
Playing(p) == Ready(p) \/ GetsOver(p) \/ Exits(p) \/ Ends(p)

Next == (\E c \in Clients : Client(c)) \/ (\E p \in Players : Playing(p))

Spec == Init /\ [][Next]_vars

(* A call that was begun goes on; a thread that is over, or was told to stop,
   ends; one that opens its source gets somewhere. *)
FairSpec ==
  /\ Spec
  /\ \A c \in Clients : WF_vars(call[c] # Idle /\ Client(c))
  /\ \A p \in Players : /\ WF_vars(Ends(p))
                        /\ WF_vars(thread[p] = "init" /\ Playing(p))
                        /\ WF_vars(p \in stopping \cup {q \in Players : thread[q] = "over"} /\ Exits(p))
-----------------------------------------------------------------------------
(* While a call is inside, its pid leads to its player: no pid is given to two
   players, and none is released under a call. *)
PidStable ==
  \A c \in Clients : call[c].para # NULL /\ call[c].at # "data" =>
    call[c].pid \in priv_pid_pool /\ priv_pid_data[call[c].pid] = call[c].para

(* No player thread works on a player that was freed: player_exit joins it
   first.  The only thread it can miss is one that was given the pthread_t of
   a player joined but not exited yet: a join that is late for that player may
   wait for it, and then the join of its own exit is refused. *)
NoFreedAccess ==
  \A p \in Players \ secondhand : thread[p] \notin {"none", "ended"} => life[p] = "allocated"

(* A pid that is taken leads to a player, or a call is just taking or giving
   it back, unless player_start had no memory for the player. *)
PidsComeBack ==
  \A i \in priv_pid_pool \ nomem :
    \/ priv_pid_data[i] # NULL /\ life[priv_pid_data[i]] = "allocated"
    \/ \E c \in Clients : call[c].pid = i /\ call[c].op \in {"start", "exit"}

(* player_stop is synchronous: when it returns success the player has exited,
   be it stopped by this call, by another or by itself, and whatever thread its
   pthread_t names by now. *)
StopIsSynchronous ==
  [][\A c \in Clients : call[c].at = "stop_leave" /\ call'[c].at # "stop_leave" => Over(call[c].para)]_vars

(* A join waits for a thread that nobody told to stop: that of its player, for
   which the stop of an exit had no memory, or one that was given the pthread_t
   its player stores. *)
Stuck ==
  \E c \in Clients :
    /\ call[c].at \in {"stop_wait", "exit_wait"}
    /\ LET p == bearer[pthread_id[call[c].para]] IN
         thread[p] \in {"init", "play"} /\ p \notin stopping

(* Every call returns: the locks of stop and exit and the joins under them
   never wait for each other, if a player that is told to stop does.  What can
   hold them up for ever is a join of a player that plays on. *)
CallsReturn == \A c \in Clients : <>[]Stuck \/ (call[c] # Idle ~> call[c] = Idle)
=============================================================================
