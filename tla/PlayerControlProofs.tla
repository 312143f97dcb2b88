------------------------ MODULE PlayerControlProofs -------------------------
(***************************************************************************)
(* Proofs about PlayerControl, for any number of pids, players, pthread    *)
(* ids, clients and calls.                                                 *)
(***************************************************************************)
EXTENDS PlayerControl, TLAPS

StartSteps == {"malloc", "data", "create", "free", "release"}
UseSteps   == {"open", "act", "close", "info1", "info2", "info3", "info_close"}
ExitSteps  == {"exit_enter", "exit_test", "exit_join", "exit_wait", "exit_free",
               "exit_close", "exit_release"}
StepsOf(op) == IF op = "none" THEN {"idle"}
               ELSE IF op = "start" THEN StartSteps
               ELSE IF op = "stop" THEN StopSteps
               ELSE IF op = "exit" THEN StopSteps \cup ExitSteps
               ELSE UseSteps

(* The steps in which a call holds a player. *)
With == {"data", "create", "free", "act", "close", "stop_test", "stop_send", "stop_join",
         "stop_wait", "stop_leave", "stop_fail", "exit_test", "exit_join", "exit_wait", "exit_free"}

(* Every client is at a step of its call, with a pid if it is in one, and
   with a player where it needs one. *)
CallsOK ==
  \A c \in Clients :
    /\ call[c].at \in StepsOf(call[c].op)
    /\ IF call[c].op = "none" THEN call[c] = Idle ELSE call[c].pid \in Pids
    /\ call[c].at \in With => call[c].para # NULL
    /\ call[c].para # NULL => call[c].at \in With \/ (call[c].at = "stop_enter" /\ call[c].op = "exit")

(* The client that starts or exits a player has its pid for itself; the other
   calls are made with pids that were handed out and not taken back. *)
Alone(c) == call[c].op \in {"start", "exit"}
PidsOwned ==
  /\ handles \subseteq priv_pid_pool
  /\ \A i \in priv_pid_pool \ nomem :
       i \in handles \/ \E c \in Clients : call[c].pid = i /\ Alone(c)
  /\ \A c \in Clients : call[c].op # "none" =>
       /\ call[c].pid \in priv_pid_pool
       /\ call[c].pid \in handles <=> ~ Alone(c)
       /\ Alone(c) => \A d \in Clients : call[d].pid = call[c].pid => d = c

(* A pid that leads to a player that is there. *)
Served(i) == priv_pid_data[i] # NULL /\ life[priv_pid_data[i]] = "allocated"

PlayersOwned ==
  /\ \A i \in Pids : priv_pid_data[i] # NULL =>
       /\ i \in priv_pid_pool
       /\ life[priv_pid_data[i]] # "fresh"
       /\ \A j \in Pids : priv_pid_data[j] = priv_pid_data[i] => j = i
  /\ \A i \in handles : Served(i)
  /\ \A c \in Clients : call[c].op = "exit" /\ call[c].at \notin {"exit_close", "exit_release"} =>
       Served(call[c].pid)
  /\ \A c \in Clients : call[c].para # NULL => life[call[c].para] = "allocated"
  /\ \A c \in Clients : call[c].at = "data" =>
       /\ \A i \in Pids : priv_pid_data[i] # call[c].para
       /\ \A d \in Clients : call[d].at = "data" /\ call[d].para = call[c].para => d = c

Owners == CallsOK /\ PidsOwned /\ PlayersOwned /\ PidStable

PidInv == TypeOK /\ Owners

(* Threads and their ids, which may be used again once joined. *)
Fresh == {"data", "create", "free"}
Living(p) == thread[p] \notin {"none", "ended"}
Sole(p) == Living(p) /\ p \notin secondhand
Tid(c) == pthread_id[call[c].para]
Waits(c) == call[c].at \in {"stop_wait", "exit_wait"}

ThreadsOK ==
  /\ \A p \in Players : thread[p] = "none" <=> pthread_id[p] = NULL
  /\ \A p \in Players : life[p] = "fresh" => thread[p] = "none"
  /\ \A c \in Clients : call[c].at \in Fresh => thread[call[c].para] = "none"
  /\ \A c \in Clients : call[c].at \in With \ Fresh => thread[call[c].para] # "none"
  /\ \A i \in handles : thread[priv_pid_data[i]] # "none"
  /\ \A c \in Clients : call[c].op = "exit" =>
       priv_pid_data[call[c].pid] # NULL /\ thread[priv_pid_data[call[c].pid]] # "none"
  /\ \A p \in Players : Living(p) => bearer[pthread_id[p]] = p
  /\ \A t \in Tids : bearer[t] # NULL => pthread_id[bearer[t]] = t
  /\ \A p, q \in Players : Sole(p) /\ pthread_id[q] = pthread_id[p] /\ life[q] = "allocated" => q = p

(* Every join that waits is the only one for its pthread_t; after a join that
   succeeds, or a look at the state, the thread is known to be over; and a
   player is freed after its thread, unless that got its pthread_t second hand. *)
JoinsOK ==
  /\ \A t \in joined : \E c \in Clients : Waits(c) /\ Tid(c) = t
  /\ \A c \in Clients : Waits(c) => Tid(c) \in joined /\ bearer[Tid(c)] # NULL
  /\ \A c, d \in Clients : Waits(c) /\ Waits(d) /\ Tid(c) = Tid(d) => c = d
  /\ \A c \in Clients : call[c].at = "stop_leave" => Over(call[c].para)
  /\ \A c \in Clients : call[c].at = "exit_free" => ~ Sole(call[c].para)
  /\ \A p \in Players : Sole(p) => life[p] = "allocated"

ThreadInv == PidInv /\ ThreadsOK /\ JoinsOK
-----------------------------------------------------------------------------
(* What a step does to the calls of the clients. *)

CallTypes == [Clients -> [op : Kinds \cup {"start", "none"}, pid : Pids \cup {-1},
                          para : Players \cup {NULL}, at : Steps]]

(* The call of client c becomes the given one; the others stay. *)
Becomes(c, op, pid, para, at) ==
  /\ call' \in CallTypes
  /\ call'[c] = [op |-> op, pid |-> pid, para |-> para, at |-> at]
  /\ \A d \in Clients : d # c => call'[d] = call[d]

(* The fields of a call have the types that TypeOK gives them. *)
LEMMA CallFields ==
  ASSUME call \in CallTypes, NEW c \in Clients
  PROVE  /\ call[c].op \in Kinds \cup {"start", "none"} /\ call[c].pid \in Pids \cup {-1}
         /\ call[c].para \in Players \cup {NULL} /\ call[c].at \in Steps
         /\ call[c] = [op |-> call[c].op, pid |-> call[c].pid, para |-> call[c].para,
                       at |-> call[c].at]
BY DEF CallTypes

(* Becomes, field by field, and for the other clients. *)
LEMMA BecomesFields ==
  ASSUME NEW c \in Clients, NEW op, NEW i, NEW p, NEW at, Becomes(c, op, i, p, at)
  PROVE  /\ call'[c].op = op /\ call'[c].pid = i /\ call'[c].para = p /\ call'[c].at = at
         /\ \A d \in Clients : d # c => call'[d] = call[d]
BY DEF Becomes

(* Goto changes the step of one call and nothing else. *)
LEMMA GotoBecomes ==
  ASSUME call \in CallTypes, NEW c \in Clients, NEW at \in Steps, Goto(c, at)
  PROVE  Becomes(c, call[c].op, call[c].pid, call[c].para, at)
BY DEF CallTypes, Goto, Becomes

(* GotoWith changes the player and the step of one call. *)
LEMMA HoldBecomes ==
  ASSUME call \in CallTypes, NEW c \in Clients, NEW at \in Steps, NEW p \in Players \cup {NULL},
         GotoWith(c, p, at)
  PROVE  Becomes(c, call[c].op, call[c].pid, p, at)
BY DEF CallTypes, Becomes, GotoWith

(* A call that begins. *)
LEMMA NewBecomes ==
  ASSUME call \in CallTypes, NEW c \in Clients, NEW at \in Steps, NEW i \in Pids,
         NEW op \in Kinds \cup {"start"},
         call' = [call EXCEPT ![c] = [op |-> op, pid |-> i, para |-> NULL, at |-> at]]
  PROVE  Becomes(c, op, i, NULL, at)
BY DEF CallTypes, Becomes

(* A call that returns leaves its client idle. *)
LEMMA ReturnBecomes ==
  ASSUME call \in CallTypes, NEW c \in Clients, Return(c)
  PROVE  Becomes(c, "none", -1, NULL, "idle")
BY DEF CallTypes, Becomes, Return, Idle, Steps
-----------------------------------------------------------------------------
(* The invariant of pids and players, step by step. *)

(* The type of call, by its short name. *)
LEMMA TypeCall == ASSUME TypeOK PROVE call \in CallTypes
BY DEF TypeOK, CallTypes

Kept == UNCHANGED <<priv_pid_pool, priv_pid_data, handles, life>>

(* A call goes on: it keeps its player, lets it go, or gets the one its pid
   leads to. *)
LEMMA GoesOn ==
  ASSUME TypeOK, Owners, Kept, UNCHANGED nomem,
         NEW c \in Clients, NEW at \in Steps, NEW p \in Players \cup {NULL},
         call[c].op # "none", Becomes(c, call[c].op, call[c].pid, p, at),
         at \in StepsOf(call[c].op), at # "data",
         at \in With => p # NULL,
         p # NULL => at \in With \/ (at = "stop_enter" /\ call[c].op = "exit"),
         \/ p = NULL
         \/ p = call[c].para /\ call[c].at # "data"
         \/ p = priv_pid_data[call[c].pid] /\ Served(call[c].pid),
         call[c].op = "exit" /\ at \notin {"exit_close", "exit_release"} => Served(call[c].pid)
  PROVE  Owners'
<1> DEFINE op == call[c].op
           i  == call[c].pid
<1>0. /\ call'[c].op = op /\ call'[c].pid = i /\ call'[c].para = p /\ call'[c].at = at
      /\ \A d \in Clients : d # c => call'[d] = call[d]
  BY DEF Becomes
<1>1. CallsOK'
  BY <1>0 DEF Owners, CallsOK, Idle
<1>2. PidsOwned'
  BY <1>0 DEF Owners, PidsOwned, Kept, Alone
<1>3. PlayersOwned'
  BY <1>0 DEF Owners, PlayersOwned, PidStable, Kept, Served
<1>4. PidStable'
  BY <1>0 DEF Owners, PidStable, Kept, Served, PidsOwned
<1> QED BY <1>1, <1>2, <1>3, <1>4 DEF Owners

(* A call returns, other than one that has its pid for itself. *)
LEMMA Returns ==
  ASSUME TypeOK, Owners, Kept, NEW c \in Clients, Return(c),
         call[c].op # "none", nomem \subseteq nomem', ~ Alone(c) \/ call[c].pid \in nomem'
  PROVE  Owners'
<1>0. /\ call'[c].op = "none" /\ call'[c].pid = -1 /\ call'[c].para = NULL /\ call'[c].at = "idle"
      /\ call'[c] = Idle
      /\ \A d \in Clients : d # c => call'[d] = call[d]
  BY TypeCall, ReturnBecomes DEF Becomes, Idle
<1>1. CallsOK'
  BY <1>0 DEF Owners, CallsOK, StepsOf, With
<1>2. PidsOwned'
  <2>1. \A i \in priv_pid_pool \ nomem' :
          i \in handles \/ \E d \in Clients : call'[d].pid = i /\ Alone(d)'
    <3> SUFFICES ASSUME NEW i \in priv_pid_pool \ nomem', i \notin handles
                 PROVE  \E d \in Clients : call'[d].pid = i /\ Alone(d)'
      OBVIOUS
    <3>1. PICK d \in Clients : call[d].pid = i /\ Alone(d)
      BY DEF Owners, PidsOwned
    <3>2. d # c
      BY <3>1
    <3> QED BY <1>0, <3>1, <3>2 DEF Alone
  <2>2. \A d \in Clients : call'[d].op # "none" => d # c /\ call'[d] = call[d]
    BY <1>0
  <2>3. ASSUME NEW d \in Clients, call'[d].op # "none"
        PROVE  /\ call'[d].pid \in priv_pid_pool
               /\ call'[d].pid \in handles <=> ~ Alone(d)'
               /\ Alone(d)' => \A e \in Clients : call'[e].pid = call'[d].pid => e = d
    <3>1. call[d].pid \in Pids /\ call[d].pid # -1
      BY <2>2, <2>3 DEF Owners, CallsOK, Pids
    <3> QED BY <1>0, <2>2, <2>3, <3>1 DEF Owners, PidsOwned, Alone
  <2> QED BY <2>1, <2>3 DEF Owners, PidsOwned, Kept
<1>3. PlayersOwned'
  BY <1>0 DEF Owners, PlayersOwned, Kept, Served
<1>4. PidStable'
  BY <1>0 DEF Owners, PidStable, Kept
<1> QED BY <1>1, <1>2, <1>3, <1>4 DEF Owners
-----------------------------------------------------------------------------
(* The steps that take up, hand out or give back a pid or a player. *)

(* player_start takes a pid that nobody has, and clears its data. *)
LEMMA OwnersStartRequest ==
  ASSUME ControlAssumption, TypeOK, Owners, NEW c \in Clients, StartRequest(c)
  PROVE  Owners'
<1>1. PICK i \in Pids : /\ FirstFree(i) /\ Take(i) /\ nomem' = nomem \ {i}
                        /\ call' = [call EXCEPT ![c] = [op |-> "start", pid |-> i,
                                                        para |-> NULL, at |-> "malloc"]]
  BY DEF StartRequest
<1>0. /\ call'[c].op = "start" /\ call'[c].pid = i /\ call'[c].para = NULL /\ call'[c].at = "malloc"
      /\ \A d \in Clients : d # c => call'[d] = call[d]
  <2>1. Becomes(c, "start", i, NULL, "malloc")
    BY <1>1, TypeCall, NewBecomes DEF Steps
  <2> QED BY <2>1, BecomesFields
<1>2. /\ i \notin priv_pid_pool /\ priv_pid_pool' = priv_pid_pool \cup {i}
      /\ \A j \in Pids : priv_pid_data'[j] = IF j = i THEN NULL ELSE priv_pid_data[j]
      /\ UNCHANGED <<handles, life>> /\ call[c] = Idle
  BY <1>1 DEF FirstFree, Free, Take, StartRequest, TypeOK
<1>3. /\ i \notin handles /\ i # -1
      /\ \A d \in Clients : d # c => call[d].pid # i
  BY <1>2 DEF Owners, PidsOwned, CallsOK, Idle, Pids
<1>4. CallsOK'
  BY <1>0 DEF Owners, CallsOK, StepsOf, StartSteps, With
<1>5. PidsOwned'
  BY <1>0, <1>1, <1>2, <1>3 DEF Owners, PidsOwned, Alone, Idle
<1>6. PlayersOwned'
  <2>1. \A j \in handles : j \in Pids /\ j # i
    BY <1>3 DEF TypeOK
  <2>2. \A d \in Clients : call'[d].op = "exit" => d # c /\ call[d].pid \in Pids /\ call[d].pid # i
    BY <1>0, <1>3 DEF Owners, CallsOK
  <2> QED BY <1>0, <1>2, <2>1, <2>2 DEF Owners, PlayersOwned, Served
<1>7. PidStable'
  <2>1. \A d \in Clients : call'[d].para # NULL => d # c /\ call[d].para # NULL /\ call[d].pid \in Pids
                                                   /\ call[d].pid # i
    BY <1>0, <1>3 DEF Owners, CallsOK, Idle
  <2> QED BY <1>0, <1>2, <2>1 DEF Owners, PidStable
<1> QED BY <1>4, <1>5, <1>6, <1>7 DEF Owners

(* player_start gets memory that nobody has, or returns and loses its pid. *)
LEMMA OwnersStartMalloc ==
  ASSUME ControlAssumption, TypeOK, Owners, NEW c \in Clients, StartMalloc(c)
  PROVE  Owners'
<1>1. call[c].at = "malloc" /\ call[c].op # "none"
  BY DEF StartMalloc, Owners, CallsOK, Idle
<1>2. CASE Return(c) /\ nomem' = nomem \cup {call[c].pid} /\ UNCHANGED life
  BY <1>1, <1>2, Returns DEF StartMalloc, Kept, pool
<1>3. ASSUME NEW p \in Players, life[p] = "fresh", life' = [life EXCEPT ![p] = "allocated"],
             GotoWith(c, p, "data"), UNCHANGED nomem
      PROVE  Owners'
  <2>0. /\ call'[c].op = call[c].op /\ call'[c].pid = call[c].pid
        /\ call'[c].para = p /\ call'[c].at = "data"
        /\ \A d \in Clients : d # c => call'[d] = call[d]
    <3>1. Becomes(c, call[c].op, call[c].pid, p, "data")
      BY <1>3, TypeCall, HoldBecomes DEF Steps
    <3> QED BY <3>1, BecomesFields
  <2>1. /\ UNCHANGED <<priv_pid_pool, priv_pid_data, handles>> /\ p # NULL
        /\ \A q \in Players : life'[q] = IF q = p THEN "allocated" ELSE life[q]
    BY <1>3 DEF StartMalloc, pool, TypeOK, ControlAssumption
  <2>2. call[c].op = "start"
    BY <1>1 DEF Owners, CallsOK, StepsOf, StopSteps, ExitSteps, UseSteps
  <2>3. CallsOK'
    BY <2>0, <2>1, <2>2 DEF Owners, CallsOK, StepsOf, StartSteps, With, Idle
  <2>4. PidsOwned'
    <3>1. \A d \in Clients : call'[d].op = call[d].op /\ call'[d].pid = call[d].pid
      BY <2>0
    <3> QED BY <3>1, <2>1, <1>3 DEF Owners, PidsOwned, Alone
  <2>5. /\ \A i \in Pids : priv_pid_data[i] # NULL => priv_pid_data[i] \in Players /\ priv_pid_data[i] # p
        /\ \A d \in Clients : call[d].para # NULL => call[d].para \in Players /\ call[d].para # p
    BY <1>3, TypeCall, CallFields DEF Owners, PlayersOwned, TypeOK
  <2>6. PlayersOwned'
    <3>1. \A i \in Pids : Served(i) => Served(i)'
      BY <2>1, <2>5 DEF Served
    <3>2. handles \subseteq Pids /\ \A d \in Clients : call[d].op = "exit" => call[d].pid \in Pids
      BY DEF TypeOK, Owners, CallsOK
    <3>3. \A d \in Clients : call[d].at = "data" => call[d].para # p
      BY <2>1, <2>5
    <3> QED BY <2>0, <2>1, <2>2, <2>5, <3>1, <3>2, <3>3 DEF Owners, PlayersOwned
  <2>7. PidStable'
    BY <2>0, <2>1 DEF Owners, PidStable
  <2> QED BY <2>3, <2>4, <2>6, <2>7 DEF Owners
<1> QED BY <1>2, <1>3 DEF StartMalloc

(* player_start stores the player in its pid. *)
LEMMA OwnersStartData ==
  ASSUME ControlAssumption, TypeOK, Owners, NEW c \in Clients, StartData(c)
  PROVE  Owners'
<1> DEFINE i == call[c].pid
           p == call[c].para
<1>0. /\ call'[c].op = call[c].op /\ call'[c].pid = i /\ call'[c].para = p /\ call'[c].at = "create"
      /\ \A d \in Clients : d # c => call'[d] = call[d]
  <2>1. Becomes(c, call[c].op, i, p, "create")
    BY TypeCall, GotoBecomes DEF Steps, StartData
  <2> QED BY <2>1, BecomesFields
<1>1. /\ call[c].at = "data" /\ call[c].op = "start" /\ i \in Pids /\ i \in priv_pid_pool
      /\ p \in Players /\ p # NULL
  BY TypeCall, CallFields DEF StartData, Owners, CallsOK, PidsOwned, StepsOf, StopSteps, ExitSteps,
                              UseSteps, With, Idle
<1>2. /\ \A j \in Pids : priv_pid_data'[j] = IF j = i THEN p ELSE priv_pid_data[j]
      /\ UNCHANGED <<priv_pid_pool, handles, life, nomem>>
  BY <1>1 DEF StartData, TypeOK
<1>3. /\ i \notin handles
      /\ \A d \in Clients : d # c => call[d].pid # i
  BY <1>1 DEF Owners, PidsOwned, Alone
<1>4. CallsOK'
  BY <1>0, <1>1 DEF Owners, CallsOK, StepsOf, StartSteps, With
<1>5. PidsOwned'
  BY <1>0, <1>1, <1>2 DEF Owners, PidsOwned, Alone
<1>6. PlayersOwned'
  <2>1. \A j \in handles : j \in Pids /\ j # i
    BY <1>3 DEF TypeOK
  <2>2. \A d \in Clients : call'[d].op = "exit" => d # c /\ call[d].pid \in Pids /\ call[d].pid # i
    BY <1>0, <1>1, <1>3 DEF Owners, CallsOK
  <2>3. /\ life[p] = "allocated"
        /\ \A j \in Pids : priv_pid_data[j] # p
        /\ \A d \in Clients : call[d].at = "data" /\ call[d].para = p => d = c
    BY <1>1 DEF Owners, PlayersOwned
  <2> QED BY <1>0, <1>1, <1>2, <2>1, <2>2, <2>3 DEF Owners, PlayersOwned, Served
<1>7. PidStable'
  <2>1. \A d \in Clients : d # c /\ call'[d].para # NULL => call[d].para # NULL /\ call[d].pid \in Pids
                                                             /\ call[d].pid # i
    BY <1>0, <1>3 DEF Owners, CallsOK, Idle
  <2> QED BY <1>0, <1>1, <1>2, <2>1 DEF Owners, PidStable
<1> QED BY <1>4, <1>5, <1>6, <1>7 DEF Owners

(* A call with a player shares it with no call of another pid. *)
LEMMA OwnPlayer ==
  ASSUME TypeOK, Owners, NEW c \in Clients, call[c].para # NULL, call[c].at # "data"
  PROVE  /\ call[c].pid \in Pids /\ call[c].para \in Players
         /\ priv_pid_data[call[c].pid] = call[c].para
         /\ \A i \in Pids : priv_pid_data[i] = call[c].para => i = call[c].pid
         /\ \A d \in Clients : call[d].para = call[c].para => call[d].pid = call[c].pid
<1>1. call[c].pid \in Pids /\ call[c].para \in Players
  <2>1. call[c].op # "none"
    BY DEF Owners, CallsOK, Idle
  <2> QED BY <2>1, TypeCall, CallFields DEF Owners, CallsOK
<1>2. priv_pid_data[call[c].pid] = call[c].para
  BY DEF Owners, PidStable
<1>3. \A i \in Pids : priv_pid_data[i] = call[c].para => i = call[c].pid
  BY <1>1, <1>2 DEF Owners, PlayersOwned
<1>4. ASSUME NEW d \in Clients, call[d].para = call[c].para
      PROVE  call[d].pid = call[c].pid
  <2>1. call[d].at # "data"
    BY <1>1, <1>2, <1>4 DEF Owners, PlayersOwned
  <2>2. call[d].pid \in Pids
    BY <1>4 DEF Owners, CallsOK, Idle
  <2>3. priv_pid_data[call[d].pid] = call[d].para
    BY <1>4, <2>1 DEF Owners, PidStable
  <2> QED BY <1>3, <1>4, <2>2, <2>3
<1> QED BY <1>1, <1>2, <1>3, <1>4

(* The pid of a player is handed out once its thread is created. *)
LEMMA OwnersStartCreate ==
  ASSUME ControlAssumption, TypeOK, Owners, NEW c \in Clients, StartCreate(c)
  PROVE  Owners'
<1> DEFINE i == call[c].pid
           p == call[c].para
<1>1. /\ call[c].at = "create" /\ call[c].op = "start" /\ i \in Pids /\ i \in priv_pid_pool
      /\ p # NULL
  BY DEF StartCreate, Owners, CallsOK, PidsOwned, StepsOf, StopSteps, ExitSteps, UseSteps, With, Idle
<1>2. UNCHANGED <<priv_pid_pool, priv_pid_data, life, nomem>>
  BY DEF StartCreate, pool
<1>3. CASE Goto(c, "free") /\ UNCHANGED handles
  <2>1. Becomes(c, call[c].op, i, p, "free")
    BY <1>3, TypeCall, GotoBecomes DEF Steps
  <2> QED BY <1>1, <1>2, <1>3, <2>1, TypeCall, CallFields, GoesOn
          DEF Kept, StepsOf, StartSteps, With, Steps
<1>4. CASE handles' = handles \cup {i} /\ Return(c)
  <2>0. /\ call'[c].op = "none" /\ call'[c].pid = -1 /\ call'[c].para = NULL /\ call'[c].at = "idle"
        /\ call'[c] = Idle
        /\ \A d \in Clients : d # c => call'[d] = call[d]
    BY <1>4, TypeCall, ReturnBecomes DEF Becomes, Idle
  <2>1. /\ i \notin handles
        /\ \A d \in Clients : d # c => call[d].pid # i
    BY <1>1 DEF Owners, PidsOwned, Alone
  <2>2. CallsOK'
    BY <2>0 DEF Owners, CallsOK, StepsOf, With
  <2>3. PidsOwned'
    <3>1. \A j \in priv_pid_pool \ nomem :
            j \in handles' \/ \E d \in Clients : call'[d].pid = j /\ Alone(d)'
      <4> SUFFICES ASSUME NEW j \in priv_pid_pool \ nomem, j \notin handles'
                   PROVE  \E d \in Clients : call'[d].pid = j /\ Alone(d)'
        OBVIOUS
      <4>1. PICK d \in Clients : call[d].pid = j /\ Alone(d)
        BY <1>4 DEF Owners, PidsOwned
      <4>2. d # c
        BY <1>4, <4>1
      <4> QED BY <2>0, <4>1, <4>2 DEF Alone
    <3>2. ASSUME NEW d \in Clients, call'[d].op # "none"
          PROVE  /\ call'[d].pid \in priv_pid_pool
                 /\ call'[d].pid \in handles' <=> ~ Alone(d)'
                 /\ Alone(d)' => \A e \in Clients : call'[e].pid = call'[d].pid => e = d
      <4>1. d # c /\ call'[d] = call[d] /\ call[d].pid \in Pids /\ call[d].pid # -1
        BY <2>0, <3>2 DEF Owners, CallsOK, Pids
      <4>2. call[d].pid # i
        BY <2>1, <4>1
      <4> QED BY <1>4, <2>0, <4>1, <4>2, <3>2 DEF Owners, PidsOwned, Alone
    <3> QED BY <1>1, <1>2, <1>4, <3>1, <3>2 DEF Owners, PidsOwned
  <2>4. PlayersOwned'
    <3>1. Served(i)
      BY <1>1 DEF Owners, PlayersOwned, PidStable, Served
    <3> QED BY <1>2, <1>4, <2>0, <3>1 DEF Owners, PlayersOwned, Served
  <2>5. PidStable'
    BY <1>2, <2>0 DEF Owners, PidStable
  <2> QED BY <2>2, <2>3, <2>4, <2>5 DEF Owners
<1> QED BY <1>3, <1>4 DEF StartCreate

(* A player is freed by the call that has its pid for itself. *)
LEMMA OwnersFree ==
  ASSUME ControlAssumption, TypeOK, Owners, NEW c \in Clients, NEW at \in Steps,
         Alone(c), call[c].para # NULL, call[c].at # "data", GotoWith(c, NULL, at),
         life' = [life EXCEPT ![call[c].para] = "freed"],
         UNCHANGED <<pool, handles, nomem>>,
         at \in StepsOf(call[c].op), at \notin With,
         call[c].op = "exit" => at \in {"exit_close", "exit_release"}
  PROVE  Owners'
<1> DEFINE i == call[c].pid
           p == call[c].para
<1>0. /\ call'[c].op = call[c].op /\ call'[c].pid = i /\ call'[c].para = NULL /\ call'[c].at = at
      /\ \A d \in Clients : d # c => call'[d] = call[d]
  BY TypeCall, HoldBecomes, BecomesFields
<1>1. /\ i \in Pids /\ p \in Players /\ priv_pid_data[i] = p
      /\ \A j \in Pids : priv_pid_data[j] = p => j = i
      /\ \A d \in Clients : call[d].para = p => call[d].pid = i
  BY OwnPlayer
<1>2. /\ \A q \in Players : life'[q] = IF q = p THEN "freed" ELSE life[q]
      /\ UNCHANGED <<priv_pid_pool, priv_pid_data, handles, nomem>>
  BY DEF TypeOK, pool
<1>3. i \notin handles /\ \A d \in Clients : d # c => call[d].pid # i
  BY DEF Owners, PidsOwned, Alone
<1>4. CallsOK'
  BY <1>0, <1>1 DEF Owners, CallsOK, Alone
<1>5. PidsOwned'
  <2>1. \A d \in Clients : call'[d].op = call[d].op /\ call'[d].pid = call[d].pid
    BY <1>0
  <2> QED BY <1>2, <2>1 DEF Owners, PidsOwned, Alone
<1>6. PlayersOwned'
  <2>1. \A j \in Pids : j # i /\ Served(j) => Served(j)'
    BY <1>1, <1>2 DEF Served, TypeOK
  <2>2. \A j \in handles : j \in Pids /\ j # i
    BY <1>3 DEF TypeOK
  <2>3. \A d \in Clients : call'[d].op = "exit" /\ call'[d].at \notin {"exit_close", "exit_release"} =>
          d # c /\ call[d].pid \in Pids /\ call[d].pid # i
    BY <1>0, <1>3 DEF Owners, CallsOK
  <2>4. \A d \in Clients : call'[d].para # NULL => d # c /\ call[d].para \in Players /\ call[d].para # p
    <3> SUFFICES ASSUME NEW d \in Clients, call'[d].para # NULL
                 PROVE  d # c /\ call[d].para \in Players /\ call[d].para # p
      OBVIOUS
    <3>1. d # c /\ call'[d] = call[d]
      BY <1>0
    <3>2. call[d].para \in Players
      BY <3>1, TypeCall, CallFields
    <3> QED BY <1>1, <1>3, <3>1, <3>2
  <2>5. \A j \in Pids : priv_pid_data[j] # NULL => life'[priv_pid_data[j]] # "fresh"
    BY <1>2 DEF Owners, PlayersOwned, TypeOK
  <2>6. at # "data"
    BY DEF With
  <2> QED BY <1>0, <1>2, <2>1, <2>2, <2>3, <2>4, <2>5, <2>6 DEF Owners, PlayersOwned
<1>7. PidStable'
  BY <1>0, <1>2 DEF Owners, PidStable
<1> QED BY <1>4, <1>5, <1>6, <1>7 DEF Owners

(* A pid is given back by the call that has it for itself. *)
LEMMA OwnersRelease ==
  ASSUME ControlAssumption, TypeOK, Owners, NEW c \in Clients,
         Alone(c), Return(c), Release(call[c].pid), UNCHANGED <<life, handles, nomem>>
  PROVE  Owners'
<1> DEFINE i == call[c].pid
<1>0. /\ call'[c].op = "none" /\ call'[c].pid = -1 /\ call'[c].para = NULL /\ call'[c].at = "idle"
      /\ call'[c] = Idle
      /\ \A d \in Clients : d # c => call'[d] = call[d]
  BY TypeCall, ReturnBecomes DEF Becomes, Idle
<1>1. /\ i \in Pids /\ i \in priv_pid_pool /\ i \notin handles
      /\ \A d \in Clients : d # c => call[d].pid # i
  BY DEF Owners, CallsOK, PidsOwned, Alone
<1>2. /\ priv_pid_pool' = priv_pid_pool \ {i}
      /\ \A j \in Pids : priv_pid_data'[j] = IF j = i THEN NULL ELSE priv_pid_data[j]
  BY <1>1 DEF Release, Free, TypeOK
<1>3. CallsOK'
  BY <1>0 DEF Owners, CallsOK, StepsOf, With
<1>4. ASSUME NEW d \in Clients, call'[d].op # "none"
      PROVE  d # c /\ call'[d] = call[d] /\ call[d].pid \in Pids /\ call[d].pid # i /\ call[d].pid # -1
  BY <1>0, <1>1, <1>4 DEF Owners, CallsOK, Pids
<1>5. PidsOwned'
  <2>1. \A j \in priv_pid_pool' \ nomem :
          j \in handles \/ \E d \in Clients : call'[d].pid = j /\ Alone(d)'
    <3> SUFFICES ASSUME NEW j \in priv_pid_pool' \ nomem, j \notin handles
                 PROVE  \E d \in Clients : call'[d].pid = j /\ Alone(d)'
      OBVIOUS
    <3>1. PICK d \in Clients : call[d].pid = j /\ Alone(d)
      BY <1>2 DEF Owners, PidsOwned
    <3> QED BY <1>0, <1>2, <3>1 DEF Alone
  <2>2. ASSUME NEW d \in Clients, call'[d].op # "none"
        PROVE  /\ call'[d].pid \in priv_pid_pool'
               /\ call'[d].pid \in handles <=> ~ Alone(d)'
               /\ Alone(d)' => \A e \in Clients : call'[e].pid = call'[d].pid => e = d
    BY <1>0, <1>2, <1>4, <2>2 DEF Owners, PidsOwned, Alone
  <2> QED BY <1>1, <1>2, <2>1, <2>2 DEF Owners, PidsOwned
<1>6. PlayersOwned'
  <2>1. \A j \in handles : j \in Pids /\ j # i
    BY <1>1 DEF TypeOK
  <2>2. \A d \in Clients : call'[d].op = "exit" => d # c /\ call[d].pid \in Pids /\ call[d].pid # i
    BY <1>4
  <2>3. \A d \in Clients : call'[d].at = "data" \/ call'[d].para # NULL => d # c
    BY <1>0
  <2>4. \A j \in Pids : j # i /\ Served(j) => Served(j)'
    BY <1>2 DEF Served
  <2>5. \A j \in Pids : priv_pid_data'[j] # NULL => j # i /\ priv_pid_data'[j] = priv_pid_data[j]
    BY <1>2
  <2>6. \A j \in Pids : priv_pid_data'[j] # NULL =>
          /\ j \in priv_pid_pool' /\ life[priv_pid_data'[j]] # "fresh"
          /\ \A k \in Pids : priv_pid_data'[k] = priv_pid_data'[j] => k = j
    BY <1>2, <2>5 DEF Owners, PlayersOwned
  <2>7. /\ \A j \in handles : Served(j)'
        /\ \A d \in Clients : call'[d].op = "exit" /\ call'[d].at \notin {"exit_close", "exit_release"} =>
             Served(call[d].pid)'
    <3>1. \A j \in handles : Served(j)
      BY DEF Owners, PlayersOwned
    <3>2. \A d \in Clients : call[d].op = "exit" /\ call[d].at \notin {"exit_close", "exit_release"} =>
             Served(call[d].pid)
      BY DEF Owners, PlayersOwned
    <3> QED BY <1>0, <2>1, <2>2, <2>4, <3>1, <3>2
  <2>8. \A d \in Clients : call'[d].para # NULL => life[call'[d].para] = "allocated"
    BY <1>0, <2>3 DEF Owners, PlayersOwned
  <2>9. \A d \in Clients : call'[d].at = "data" =>
          /\ \A j \in Pids : priv_pid_data'[j] # call'[d].para
          /\ \A e \in Clients : call'[e].at = "data" /\ call'[e].para = call'[d].para => e = d
    <3> SUFFICES ASSUME NEW d \in Clients, call'[d].at = "data"
                 PROVE  /\ \A j \in Pids : priv_pid_data'[j] # call'[d].para
                        /\ \A e \in Clients : call'[e].at = "data" /\ call'[e].para = call'[d].para
                             => e = d
      OBVIOUS
    <3>1. d # c /\ call'[d] = call[d] /\ call[d].para # NULL
      BY <1>0 DEF Owners, CallsOK, With
    <3> QED BY <1>0, <1>2, <2>3, <3>1 DEF Owners, PlayersOwned
  <2> QED BY <2>6, <2>7, <2>8, <2>9 DEF PlayersOwned
<1>7. PidStable'
  <2>1. \A d \in Clients : call'[d].para # NULL => d # c /\ call[d].pid \in Pids /\ call[d].pid # i
    BY <1>0, <1>1 DEF Owners, CallsOK, Idle
  <2> QED BY <1>0, <1>2, <2>1 DEF Owners, PidStable
<1> QED BY <1>3, <1>5, <1>6, <1>7 DEF Owners

(* A call is made with a pid that was handed out; an exit takes it back. *)
LEMMA OwnersBegin ==
  ASSUME ControlAssumption, TypeOK, Owners, NEW c \in Clients, Begin(c)
  PROVE  Owners'
<1>1. PICK op \in Ops, i \in handles :
        /\ op = "exit" => Users(i) = {}
        /\ call' = [call EXCEPT ![c] = [op |-> op, pid |-> i, para |-> NULL, at |-> First(op)]]
        /\ handles' = IF op = "exit" THEN handles \ {i} ELSE handles
  BY DEF Begin
<1>2. /\ op \in Kinds /\ op # "start" /\ op # "none" /\ i \in Pids /\ i \in priv_pid_pool
      /\ call[c] = Idle /\ UNCHANGED <<priv_pid_pool, priv_pid_data, life, nomem>>
  BY DEF Begin, pool, ControlAssumption, Kinds, TypeOK, Owners, PidsOwned
<1>3. /\ First(op) \in StepsOf(op) /\ First(op) \in Steps /\ First(op) \notin With
      /\ op = "exit" => First(op) = "exit_enter"
  BY <1>2 DEF First, StepsOf, StopSteps, ExitSteps, UseSteps, Steps, With, Kinds
<1>0. /\ call'[c].op = op /\ call'[c].pid = i /\ call'[c].para = NULL /\ call'[c].at = First(op)
      /\ \A d \in Clients : d # c => call'[d] = call[d]
  <2>1. Becomes(c, op, i, NULL, First(op))
    BY <1>1, <1>2, <1>3, TypeCall, NewBecomes
  <2> QED BY <2>1, BecomesFields
<1>4. op = "exit" => \A d \in Clients : call[d].pid # i
  BY <1>1 DEF Users
<1>5. CallsOK'
  BY <1>0, <1>2, <1>3 DEF Owners, CallsOK
<1>6. PidsOwned'
  <2>1. \A d \in Clients : Alone(d) => d # c /\ call[d].pid # i
    BY <1>2 DEF Alone, Owners, PidsOwned, Idle
  <2>2. \A j \in priv_pid_pool \ nomem :
          j \in handles' \/ \E d \in Clients : call'[d].pid = j /\ Alone(d)'
    <3> SUFFICES ASSUME NEW j \in priv_pid_pool \ nomem, j \notin handles'
                 PROVE  \E d \in Clients : call'[d].pid = j /\ Alone(d)'
      OBVIOUS
    <3>1. CASE j \in handles
      BY <1>0, <1>1, <3>1 DEF Alone
    <3>2. CASE j \notin handles
      <4>1. PICK d \in Clients : call[d].pid = j /\ Alone(d)
        BY <3>2 DEF Owners, PidsOwned
      <4> QED BY <1>0, <2>1, <4>1 DEF Alone
    <3> QED BY <3>1, <3>2
  <2>3. ASSUME NEW d \in Clients, call'[d].op # "none"
        PROVE  /\ call'[d].pid \in priv_pid_pool
               /\ call'[d].pid \in handles' <=> ~ Alone(d)'
               /\ Alone(d)' => \A e \in Clients : call'[e].pid = call'[d].pid => e = d
    <3>1. CASE d = c
      BY <1>0, <1>1, <1>2, <1>4, <3>1 DEF Alone
    <3>2. CASE d # c
      <4>1. call'[d] = call[d] /\ call[d].op # "none" /\ (op = "exit" => call[d].pid # i)
        BY <1>0, <1>4, <2>3, <3>2
      <4>2. Alone(d) => call[d].pid # i
        BY <2>1
      <4> QED BY <1>0, <1>1, <1>2, <4>1, <4>2 DEF Owners, PidsOwned, Alone
    <3> QED BY <3>1, <3>2
  <2> QED BY <1>1, <1>2, <2>2, <2>3 DEF Owners, PidsOwned
<1>7. PlayersOwned'
  <2>1. Served(i)
    BY DEF Owners, PlayersOwned
  <2>2. First(op) # "data"
    BY <1>3 DEF With
  <2> QED BY <1>0, <1>1, <1>2, <2>1, <2>2 DEF Owners, PlayersOwned, Served
<1>8. PidStable'
  BY <1>0, <1>2 DEF Owners, PidStable
<1> QED BY <1>5, <1>6, <1>7, <1>8 DEF Owners
-----------------------------------------------------------------------------
(* The steps of a call that goes on. *)

(* What the step of a call tells about its kind, its pid and its player. *)
LEMMA Where ==
  ASSUME TypeOK, Owners, NEW c \in Clients
  PROVE  /\ call[c].at \in UseSteps => call[c].op \notin {"none", "start", "stop", "exit"}
         /\ call[c].at \in StartSteps => call[c].op = "start"
         /\ call[c].at \in StopSteps => call[c].op \in {"stop", "exit"}
         /\ call[c].at \in ExitSteps => call[c].op = "exit"
         /\ call[c].at # "idle" => call[c].op # "none" /\ call[c].pid \in Pids
                                   /\ call[c].pid \in priv_pid_pool
         /\ call[c].at # "idle" /\ ~ Alone(c) => Served(call[c].pid)
         /\ call[c].op = "exit" /\ call[c].at \notin {"exit_close", "exit_release"} =>
              Served(call[c].pid)
         /\ call[c].at \in With => call[c].para \in Players /\ call[c].para # NULL
<1>1. /\ call[c].at \in UseSteps => call[c].op \notin {"none", "start", "stop", "exit"}
      /\ call[c].at \in StartSteps => call[c].op = "start"
      /\ call[c].at \in StopSteps => call[c].op \in {"stop", "exit"}
      /\ call[c].at \in ExitSteps => call[c].op = "exit"
  BY DEF Owners, CallsOK, StepsOf, UseSteps, StartSteps, StopSteps, ExitSteps
<1>2. /\ call[c].at # "idle" => call[c].op # "none" /\ call[c].pid \in Pids
      /\ call[c].at \in With => call[c].para # NULL
  BY DEF Owners, CallsOK, Idle
<1>3. call[c].at # "idle" => call[c].pid \in priv_pid_pool /\ (~ Alone(c) => call[c].pid \in handles)
  BY <1>2 DEF Owners, PidsOwned
<1>4. /\ \A i \in handles : Served(i)
      /\ call[c].op = "exit" /\ call[c].at \notin {"exit_close", "exit_release"} =>
              Served(call[c].pid)
  BY DEF Owners, PlayersOwned
<1> QED BY <1>1, <1>2, <1>3, <1>4, TypeCall, CallFields

(* Opening and closing the data of a pid change use counts only. *)
LEMMA KeptByCount ==
  ASSUME NEW i, CountIn(i) \/ CountOut(i), UNCHANGED <<life, handles>>
  PROVE  Kept
BY DEF CountIn, CountOut, Kept

(* The calls that open, act and close. *)
LEMMA OwnersUse ==
  ASSUME ControlAssumption, TypeOK, Owners, NEW c \in Clients, Use(c)
  PROVE  Owners'
<1>1. /\ call[c].at \in UseSteps /\ Kept /\ UNCHANGED nomem
  BY KeptByCount DEF Use, Open, Act, Close, InfoWaits, InfoCloses, UseSteps, Kept, pool
<1>2. /\ call[c].op \notin {"none", "start", "stop", "exit"} /\ ~ Alone(c)
      /\ call[c].pid \in Pids /\ call[c].pid \in priv_pid_pool /\ Served(call[c].pid)
      /\ StepsOf(call[c].op) = UseSteps
  BY <1>1, Where DEF UseSteps, StepsOf, Alone
<1>3. CASE Return(c)
  BY <1>1, <1>2, <1>3, Returns
<1>4. ASSUME NEW at \in UseSteps \ {"act", "close"}, Goto(c, at), call[c].at \notin With
      PROVE  Owners'
  <2>1. /\ call[c].para = NULL /\ at \in Steps
    BY <1>2, <1>4 DEF Owners, CallsOK, UseSteps, Steps
  <2>2. Becomes(c, call[c].op, call[c].pid, NULL, at)
    BY <1>4, <2>1, TypeCall, GotoBecomes
  <2> QED BY <1>1, <1>2, <1>4, <2>1, <2>2, GoesOn DEF UseSteps, With
<1>5. CASE call[c].at = "act" /\ Goto(c, "close")
  <2>1. call[c].para \in Players /\ call[c].para # NULL
    BY <1>5, Where DEF With
  <2>2. Becomes(c, call[c].op, call[c].pid, call[c].para, "close")
    BY <1>5, TypeCall, GotoBecomes DEF Steps
  <2> QED BY <1>1, <1>2, <1>5, <2>1, <2>2, GoesOn DEF UseSteps, With, Steps
<1>6. CASE GotoWith(c, Opened(call[c].pid), "act")
  <2>1. /\ Opened(call[c].pid) = priv_pid_data[call[c].pid]
        /\ Opened(call[c].pid) \in Players /\ Opened(call[c].pid) # NULL
    BY <1>2 DEF Opened, Free, Served, TypeOK
  <2>2. Becomes(c, call[c].op, call[c].pid, Opened(call[c].pid), "act")
    BY <1>6, <2>1, TypeCall, HoldBecomes DEF Steps
  <2> QED BY <1>1, <1>2, <1>6, <2>1, <2>2, GoesOn DEF UseSteps, With, Steps
<1>7. CASE Open(c)
  BY <1>3, <1>6, <1>7 DEF Open
<1>8. CASE Act(c)
  BY <1>3, <1>5, <1>8 DEF Act
<1>9. CASE Close(c) \/ InfoCloses(c)
  BY <1>3, <1>9 DEF Close, InfoCloses
<1>10. CASE InfoWaits(c)
  BY <1>3, <1>4, <1>10 DEF InfoWaits, UseSteps, With
<1> QED BY <1>7, <1>8, <1>9, <1>10 DEF Use

(* Two ways to go on in player_stop and player_exit. *)
LEMMA StopGoesOn ==
  ASSUME TypeOK, Owners, Kept, UNCHANGED nomem, NEW c \in Clients, NEW at \in Steps,
         call[c].op \in {"stop", "exit"}, at \in StepsOf(call[c].op), Goto(c, at),
         at \in With => call[c].para # NULL,
         call[c].para # NULL => at \in With \/ (at = "stop_enter" /\ call[c].op = "exit"),
         call[c].at \in {"exit_close", "exit_release"} => at = "exit_release"
  PROVE  Owners'
<1>1. at # "data" /\ call[c].at \notin {"idle", "data"}
  BY DEF Owners, CallsOK, StepsOf, StopSteps, ExitSteps, StartSteps
<1>2. /\ call[c].op # "none" /\ call[c].para \in Players \cup {NULL}
      /\ call[c].op = "exit" /\ call[c].at \notin {"exit_close", "exit_release"} => Served(call[c].pid)
  BY Where, TypeCall, CallFields
<1>3. Becomes(c, call[c].op, call[c].pid, call[c].para, at)
  BY TypeCall, GotoBecomes
<1> QED BY <1>1, <1>2, <1>3, GoesOn

(* player_stop finds the player that its pid leads to. *)
LEMMA StopOpens ==
  ASSUME TypeOK, Owners, NEW c \in Clients, call[c].at \in {"stop_enter", "exit_enter"}
  PROVE  /\ call[c].op \in {"stop", "exit"} /\ Served(call[c].pid)
         /\ Opened(call[c].pid) = priv_pid_data[call[c].pid]
         /\ Opened(call[c].pid) \in Players /\ Opened(call[c].pid) # NULL
<1>1. /\ call[c].op \in {"stop", "exit"} /\ call[c].pid \in Pids /\ call[c].pid \in priv_pid_pool
      /\ Served(call[c].pid)
  BY Where DEF StopSteps, ExitSteps, Alone
<1> QED BY <1>1 DEF Opened, Free, Served, TypeOK

(* player_stop and player_exit go on with the player they found. *)
LEMMA StopGetsPlayer ==
  ASSUME TypeOK, Owners, Kept, UNCHANGED nomem, NEW c \in Clients, NEW at \in Steps,
         call[c].at \in {"stop_enter", "exit_enter"},
         at \in With, at \in StepsOf(call[c].op), GotoWith(c, Opened(call[c].pid), at)
  PROVE  Owners'
<1>1. at # "data"
  BY StopOpens DEF StepsOf, StopSteps, ExitSteps
<1>2. Becomes(c, call[c].op, call[c].pid, Opened(call[c].pid), at)
  BY StopOpens, TypeCall, HoldBecomes
<1> QED BY <1>1, <1>2, StopOpens, GoesOn

(* The steps of player_stop, called by a client or by player_exit. *)
LEMMA OwnersStop ==
  ASSUME ControlAssumption, TypeOK, Owners, NEW c \in Clients, Stop(c)
  PROVE  Owners'
<1>1. /\ call[c].at \in StopSteps /\ Kept /\ UNCHANGED nomem
  BY KeptByCount DEF Stop, StopEnter, StopTest, StopSend, StopJoin, StopJoined, StopLeave,
                     StopSteps, Kept, pool
<1>2. /\ call[c].op \in {"stop", "exit"} /\ call[c].op # "none"
      /\ StopSteps \subseteq StepsOf(call[c].op) /\ StopSteps \subseteq Steps
      /\ call[c].op = "exit" => "exit_join" \in StepsOf(call[c].op)
      /\ call[c].at # "stop_enter" => call[c].at \in With /\ call[c].para # NULL
  BY <1>1, Where DEF StepsOf, StopSteps, Steps, ExitSteps, With
<1>3. CASE StopEnter(c)
  BY <1>1, <1>2, <1>3, StopOpens, StopGetsPlayer DEF StopEnter, StopSteps, With
<1>4. ASSUME NEW at \in StopSteps \ {"stop_enter"}, Goto(c, at), call[c].at # "stop_enter"
      PROVE  Owners'
  BY <1>1, <1>2, <1>4, StopGoesOn DEF StopSteps, With
<1>5. CASE StopTest(c) \/ StopSend(c) \/ StopJoin(c) \/ StopJoined(c)
  BY <1>4, <1>5 DEF StopTest, StopSend, StopJoin, StopJoined, JoinBegins, StopSteps
<1>6. CASE StopLeave(c)
  <2>1. CASE call[c].op = "exit"
    <3>1. Goto(c, "exit_join") /\ call[c].at \in {"stop_leave", "stop_fail"}
      BY <1>6, <2>1 DEF StopLeave, StopReturns
    <3> QED BY <1>1, <1>2, <2>1, <3>1, StopGoesOn DEF Steps, With
  <2>2. CASE call[c].op # "exit"
    <3>1. Return(c) /\ ~ Alone(c)
      BY <1>2, <1>6, <2>2 DEF StopLeave, StopReturns, Alone
    <3> QED BY <1>1, <1>2, <3>1, Returns
  <2> QED BY <2>1, <2>2
<1> QED BY <1>3, <1>5, <1>6 DEF Stop

(* The steps of player_exit. *)
LEMMA OwnersExit ==
  ASSUME ControlAssumption, TypeOK, Owners, NEW c \in Clients, Exit(c)
  PROVE  Owners'
<1>1. call[c].at \in ExitSteps
  BY DEF Exit, ExitEnter, ExitTest, ExitJoin, ExitJoined, ExitFree, ExitClose, ExitRelease, ExitSteps
<1>2. /\ call[c].op = "exit" /\ Alone(c)
      /\ StepsOf(call[c].op) = StopSteps \cup ExitSteps /\ StopSteps \cup ExitSteps \subseteq Steps
  BY <1>1, Where DEF StepsOf, StopSteps, Steps, ExitSteps, Alone
<1>3. CASE ExitEnter(c)
  <2>1. GotoWith(c, Opened(call[c].pid), "exit_test") /\ call[c].at = "exit_enter"
    BY <1>3, StopOpens DEF ExitEnter
  <2>2. Kept /\ UNCHANGED nomem
    BY <1>3, KeptByCount DEF ExitEnter
  <2> QED BY <1>2, <2>1, <2>2, StopGetsPlayer DEF ExitSteps, With
<1>4. CASE ExitTest(c) \/ ExitJoin(c) \/ ExitJoined(c)
  <2>1. Kept /\ UNCHANGED nomem /\ call[c].at \in {"exit_test", "exit_join", "exit_wait"}
    BY <1>4 DEF ExitTest, ExitJoin, ExitJoined, Kept, pool
  <2>2. call[c].para # NULL
    BY <2>1, Where DEF With
  <2>3. PICK at \in {"exit_join", "stop_enter", "exit_wait", "exit_free"} : Goto(c, at)
    BY <1>4 DEF ExitTest, ExitJoin, ExitJoined, JoinBegins
  <2>4. at \in With \/ at = "stop_enter"
    BY DEF With
  <2>5. at \in StopSteps \cup ExitSteps
    BY DEF StopSteps, ExitSteps
  <2> QED BY <1>2, <2>1, <2>2, <2>3, <2>4, <2>5, StopGoesOn
<1>5. CASE ExitFree(c)
  <2>1. /\ call[c].at = "exit_free" /\ call[c].para # NULL
        /\ "exit_close" \in Steps /\ "exit_close" \in ExitSteps /\ "exit_close" \notin With
    BY <1>5, Where DEF ExitFree, With, Steps, ExitSteps
  <2> QED BY <1>2, <1>5, <2>1, OwnersFree DEF ExitFree
<1>6. CASE ExitClose(c)
  <2>1. Kept /\ UNCHANGED nomem /\ call[c].at = "exit_close" /\ Goto(c, "exit_release")
    BY <1>6, KeptByCount DEF ExitClose
  <2>2. call[c].para = NULL
    BY <2>1 DEF Owners, CallsOK, With
  <2> QED BY <1>2, <2>1, <2>2, StopGoesOn DEF ExitSteps, With
<1>7. CASE ExitRelease(c)
  BY <1>2, <1>7, OwnersRelease DEF ExitRelease
<1> QED BY <1>3, <1>4, <1>5, <1>6, <1>7 DEF Exit

(* The steps of player_start. *)
LEMMA OwnersStart ==
  ASSUME ControlAssumption, TypeOK, Owners, NEW c \in Clients, Start(c)
  PROVE  Owners'
<1>1. CASE StartFree(c)
  <2>1. /\ call[c].at = "free" /\ call[c].op = "start" /\ Alone(c) /\ call[c].para # NULL
    BY <1>1, Where DEF StartFree, StartSteps, Alone, With
  <2>2. /\ "release" \in Steps /\ "release" \in StepsOf("start") /\ "release" \notin With
    BY DEF Steps, StepsOf, StartSteps, With
  <2> QED BY <1>1, <2>1, <2>2, OwnersFree DEF StartFree
<1>2. CASE StartRelease(c)
  <2>1. Alone(c)
    BY <1>2, Where DEF StartRelease, StartSteps, Alone
  <2> QED BY <1>2, <2>1, OwnersRelease DEF StartRelease
<1> QED BY <1>1, <1>2, OwnersStartRequest, OwnersStartMalloc, OwnersStartData, OwnersStartCreate DEF Start

(* A step that changes nothing. *)
LEMMA OwnersUnchanged ==
  ASSUME Owners, Kept, UNCHANGED <<call, nomem>>
  PROVE  Owners'
BY DEF Owners, Kept, CallsOK, PidsOwned, PlayersOwned, PidStable, Alone, Served

(* Every step keeps pids and players with their owners. *)
LEMMA OwnersStep ==
  ASSUME ControlAssumption, TypeOK, Owners, [Next]_vars
  PROVE  Owners'
<1>1. ASSUME NEW c \in Clients, Client(c) PROVE Owners'
  BY <1>1, OwnersStart, OwnersBegin, OwnersUse, OwnersStop, OwnersExit DEF Client
<1>2. ASSUME NEW p \in Players, Playing(p) PROVE Owners'
  <2>1. Kept /\ UNCHANGED <<call, nomem>>
    BY <1>2 DEF Playing, Ready, GetsOver, Exits, Ends, ThreadStep, Kept, pool
  <2> QED BY <2>1, OwnersUnchanged
<1>3. CASE UNCHANGED vars
  BY <1>3, OwnersUnchanged DEF vars, Kept, pool
<1> QED BY <1>1, <1>2, <1>3 DEF Next
-----------------------------------------------------------------------------
(* Types. *)

(* TypeOK, with the type of call by its short name. *)
LEMMA TypeIsCall ==
  ASSUME call' \in CallTypes,
         /\ priv_pid_pool' \subseteq Pids
         /\ priv_pid_data' \in [Pids -> Players \cup {NULL}]
         /\ priv_pid_used' \in [Pids -> Nat]
         /\ last' \in Pids \cup {-1}
         /\ life' \in [Players -> {"fresh", "allocated", "freed"}]
         /\ thread' \in [Players -> {"none", "init", "play", "over", "exit", "ended"}]
         /\ pthread_id' \in [Players -> Tids \cup {NULL}]
         /\ bearer' \in [Tids -> Players \cup {NULL}]
         /\ joined' \subseteq Tids /\ stopping' \subseteq Players /\ secondhand' \subseteq Players
         /\ player_stop_mutex' \in Clients \cup {NULL} /\ player_exit_mutex' \in Clients \cup {NULL}
         /\ handles' \subseteq Pids /\ calls' \in 0..MaxCalls /\ nomem' \subseteq Pids
  PROVE  TypeOK'
BY DEF TypeOK, CallTypes

(* Goto keeps the type of call. *)
LEMMA GotoType ==
  ASSUME TypeOK, NEW c \in Clients, NEW at \in Steps, Goto(c, at)
  PROVE  call' \in CallTypes
BY TypeCall, GotoBecomes DEF Becomes

(* GotoWith keeps the type of call. *)
LEMMA HoldType ==
  ASSUME TypeOK, NEW c \in Clients, NEW at \in Steps, NEW p \in Players \cup {NULL}, GotoWith(c, p, at)
  PROVE  call' \in CallTypes
BY TypeCall, HoldBecomes DEF Becomes

(* Return keeps the type of call. *)
LEMMA ReturnType ==
  ASSUME TypeOK, NEW c \in Clients, Return(c)
  PROVE  call' \in CallTypes
BY TypeCall, ReturnBecomes DEF Becomes

(* No use count is taken below zero. *)
LEMMA CountType ==
  ASSUME TypeOK, NEW i \in Pids, CountIn(i) \/ CountOut(i)
  PROVE  /\ priv_pid_used' \in [Pids -> Nat]
         /\ UNCHANGED <<priv_pid_pool, priv_pid_data, last>>
<1>1. priv_pid_used \in [Pids -> Nat] /\ priv_pid_used[i] \in Nat
  BY DEF TypeOK
<1>2. CASE CountIn(i)
  BY <1>1, <1>2 DEF CountIn
<1>3. CASE CountOut(i)
  <2>1. priv_pid_used[i] # 0 => priv_pid_used[i] - 1 \in Nat
    BY <1>1
  <2> QED BY <1>1, <1>3, <2>1 DEF CountOut
<1> QED BY <1>2, <1>3

(* The steps of player_start keep the types. *)
LEMMA StartType ==
  ASSUME ControlAssumption, TypeOK, Owners, NEW c \in Clients, Start(c)
  PROVE  TypeOK'
<1>0. /\ call[c].pid \in Pids \cup {-1} /\ call[c].para \in Players \cup {NULL}
      /\ call[c].at # "idle" => call[c].pid \in Pids
      /\ call[c].at \in With => call[c].para \in Players
  BY Where, TypeCall, CallFields
<1>1. CASE StartRequest(c)
  <2>1. PICK i \in Pids : Take(i) /\ nomem' = nomem \ {i}
                          /\ call' = [call EXCEPT ![c] = [op |-> "start", pid |-> i,
                                                        para |-> NULL, at |-> "malloc"]]
    BY <1>1 DEF StartRequest
  <2>2. call' \in CallTypes
    BY <2>1, TypeCall, NewBecomes DEF Becomes, Steps
  <2> QED BY <1>1, <2>1, <2>2, TypeIsCall DEF StartRequest, Take, TypeOK, threads, mutexes
<1>2. CASE StartMalloc(c)
  <2>1. call[c].at = "malloc" /\ call[c].pid \in Pids
    BY <1>0, <1>2 DEF StartMalloc
  <2>2. call' \in CallTypes
    BY <1>2, ReturnType, HoldType DEF StartMalloc, Steps
  <2>3. life' \in [Players -> {"fresh", "allocated", "freed"}] /\ nomem' \subseteq Pids
    BY <1>2, <2>1 DEF StartMalloc, TypeOK
  <2> QED BY <1>2, <2>2, <2>3, TypeIsCall DEF StartMalloc, TypeOK, pool, threads, mutexes
<1>3. CASE StartData(c)
  <2>1. call' \in CallTypes
    BY <1>3, GotoType DEF StartData, Steps
  <2>2. priv_pid_data' \in [Pids -> Players \cup {NULL}]
    BY <1>0, <1>3 DEF StartData, TypeOK
  <2> QED BY <1>3, <2>1, <2>2, TypeIsCall DEF StartData, TypeOK, threads, mutexes
<1>4. CASE StartCreate(c)
  <2>1. call' \in CallTypes
    BY <1>4, GotoType, ReturnType DEF StartCreate, Steps
  <2>2. call[c].at = "create" /\ call[c].pid \in Pids /\ call[c].para \in Players
    BY <1>0, <1>4 DEF StartCreate, With
  <2>3. /\ bearer' \in [Tids -> Players \cup {NULL}]
        /\ pthread_id' \in [Players -> Tids \cup {NULL}]
        /\ thread' \in [Players -> {"none", "init", "play", "over", "exit", "ended"}]
        /\ handles' \subseteq Pids /\ secondhand' \subseteq Players
    BY <1>4, <2>2 DEF StartCreate, TypeOK
  <2> QED BY <1>4, <2>1, <2>3, TypeIsCall DEF StartCreate, TypeOK, pool, mutexes
<1>5. CASE StartFree(c)
  <2>1. call' \in CallTypes
    BY <1>5, HoldType DEF StartFree, Steps
  <2>2. life' \in [Players -> {"fresh", "allocated", "freed"}]
    BY <1>5 DEF StartFree, TypeOK
  <2> QED BY <1>5, <2>1, <2>2, TypeIsCall DEF StartFree, TypeOK, pool, threads, mutexes
<1>6. CASE StartRelease(c)
  <2>1. call' \in CallTypes
    BY <1>6, ReturnType DEF StartRelease
  <2> QED BY <1>6, <2>1, TypeIsCall DEF StartRelease, Release, TypeOK, threads, mutexes
<1> QED BY <1>1, <1>2, <1>3, <1>4, <1>5, <1>6 DEF Start

(* The start of a call keeps the types. *)
LEMMA BeginType ==
  ASSUME ControlAssumption, TypeOK, Owners, NEW c \in Clients, Begin(c)
  PROVE  TypeOK'
<1>1. PICK op \in Ops, i \in handles :
        /\ call' = [call EXCEPT ![c] = [op |-> op, pid |-> i, para |-> NULL, at |-> First(op)]]
        /\ handles' = IF op = "exit" THEN handles \ {i} ELSE handles
  BY DEF Begin
<1>2. op \in Kinds /\ i \in Pids /\ First(op) \in Steps
  BY DEF ControlAssumption, TypeOK, First, Steps, StopSteps
<1>3. call' \in CallTypes
  BY <1>1, <1>2, TypeCall, NewBecomes DEF Becomes
<1>4. calls' \in 0..MaxCalls
  BY DEF Begin, TypeOK, ControlAssumption
<1> QED BY <1>1, <1>3, <1>4, TypeIsCall DEF Begin, TypeOK, pool, threads, mutexes

(* The calls that open, act and close keep the types. *)
LEMMA UseType ==
  ASSUME ControlAssumption, TypeOK, Owners, NEW c \in Clients, Use(c)
  PROVE  TypeOK'
<1>0. /\ call[c].at # "idle" => call[c].pid \in Pids
      /\ call[c].at \in With => call[c].para \in Players
  BY Where
<1>1. CASE Open(c)
  <2>1. call[c].pid \in Pids
    BY <1>0, <1>1 DEF Open
  <2>2. Opened(call[c].pid) \in Players \cup {NULL}
    BY <2>1 DEF Opened, TypeOK
  <2>3. call' \in CallTypes
    BY <1>1, <2>2, ReturnType, HoldType DEF Open, Steps
  <2> QED BY <1>1, <2>1, <2>3, CountType, TypeIsCall DEF Open, TypeOK, threads, mutexes
<1>2. CASE Act(c)
  <2>1. call' \in CallTypes
    BY <1>2, ReturnType, GotoType DEF Act, Steps
  <2>2. call[c].para \in Players
    BY <1>0, <1>2 DEF Act, With
  <2> QED BY <1>2, <2>1, <2>2, TypeIsCall DEF Act, TypeOK, pool, mutexes
<1>3. CASE Close(c) \/ InfoCloses(c)
  <2>1. call[c].pid \in Pids
    BY <1>0, <1>3 DEF Close, InfoCloses
  <2>2. call' \in CallTypes
    BY <1>3, ReturnType DEF Close, InfoCloses
  <2> QED BY <1>3, <2>1, <2>2, CountType, TypeIsCall DEF Close, InfoCloses, TypeOK, threads, mutexes
<1>4. CASE InfoWaits(c)
  <2>1. call' \in CallTypes
    BY <1>4, ReturnType, GotoType DEF InfoWaits, Steps
  <2> QED BY <1>4, <2>1, TypeIsCall DEF InfoWaits, TypeOK, pool, threads, mutexes
<1> QED BY <1>1, <1>2, <1>3, <1>4 DEF Use

(* A join keeps the types, whether it begins, fails or ends. *)
LEMMA JoinType ==
  ASSUME TypeOK, NEW c \in Clients, NEW t \in Tids \cup {NULL},
         NEW waits \in Steps, NEW goes \in Steps,
         JoinBegins(c, t, waits, goes) \/ (JoinEnds(t) /\ Goto(c, goes))
  PROVE  /\ call' \in CallTypes
         /\ bearer' \in [Tids -> Players \cup {NULL}] /\ joined' \subseteq Tids
         /\ UNCHANGED <<thread, pthread_id, stopping, secondhand>>
<1>1. CASE JoinBegins(c, t, waits, goes)
  BY <1>1, GotoType DEF JoinBegins, TypeOK
<1>2. CASE JoinEnds(t) /\ Goto(c, goes)
  BY <1>2, GotoType DEF JoinEnds, TypeOK
<1> QED BY <1>1, <1>2

(* The return of player_stop keeps the type of call. *)
LEMMA StopReturnsType ==
  ASSUME TypeOK, NEW c \in Clients, StopReturns(c)
  PROVE  call' \in CallTypes
BY GotoType, ReturnType DEF StopReturns, Steps

(* The steps of player_stop keep the types. *)
LEMMA StopType ==
  ASSUME ControlAssumption, TypeOK, Owners, NEW c \in Clients, Stop(c)
  PROVE  TypeOK'
<1>0. /\ call[c].at # "idle" => call[c].pid \in Pids
      /\ call[c].at \in With => call[c].para \in Players
  BY Where
<1>1. CASE StopEnter(c)
  <2>1. call[c].pid \in Pids
    BY <1>0, <1>1 DEF StopEnter
  <2>2. call' \in CallTypes
    BY <1>1, <2>1, StopReturnsType, HoldType DEF StopEnter, Steps, StopSteps, Opened, TypeOK
  <2>3. player_stop_mutex' \in Clients \cup {NULL}
    BY <1>1 DEF StopEnter, TypeOK
  <2> QED BY <1>1, <2>1, <2>2, <2>3, CountType, TypeIsCall DEF StopEnter, TypeOK, threads
<1>2. CASE StopTest(c)
  <2>1. call' \in CallTypes
    BY <1>2, GotoType DEF StopTest, Steps, StopSteps
  <2> QED BY <1>2, <2>1, TypeIsCall DEF StopTest, TypeOK, pool, threads, mutexes
<1>3. CASE StopSend(c)
  <2>1. call' \in CallTypes /\ call[c].para \in Players
    BY <1>0, <1>3, GotoType DEF StopSend, Steps, StopSteps, With
  <2> QED BY <1>3, <2>1, TypeIsCall DEF StopSend, TypeOK, pool, mutexes
<1>4. CASE StopJoin(c) \/ StopJoined(c)
  <2>1. call[c].para \in Players
    BY <1>0, <1>4 DEF StopJoin, StopJoined, With
  <2>2. pthread_id[call[c].para] \in Tids \cup {NULL}
    BY <2>1 DEF TypeOK
  <2>3. /\ call' \in CallTypes
        /\ bearer' \in [Tids -> Players \cup {NULL}] /\ joined' \subseteq Tids
        /\ UNCHANGED <<thread, pthread_id, stopping, secondhand>>
    BY <1>4, <2>2, JoinType DEF StopJoin, StopJoined, Steps, StopSteps
  <2> QED BY <1>4, <2>3, TypeIsCall DEF StopJoin, StopJoined, TypeOK, pool, mutexes
<1>5. CASE StopLeave(c)
  <2>1. call[c].pid \in Pids /\ call' \in CallTypes
    BY <1>0, <1>5, StopReturnsType DEF StopLeave
  <2> QED BY <1>5, <2>1, CountType, TypeIsCall DEF StopLeave, TypeOK, threads
<1> QED BY <1>1, <1>2, <1>3, <1>4, <1>5 DEF Stop

(* The steps of player_exit keep the types. *)
LEMMA ExitType ==
  ASSUME ControlAssumption, TypeOK, Owners, NEW c \in Clients, Exit(c)
  PROVE  TypeOK'
<1>0. /\ call[c].at # "idle" => call[c].pid \in Pids
      /\ call[c].at \in With => call[c].para \in Players
  BY Where
<1>1. CASE ExitEnter(c)
  <2>1. call[c].pid \in Pids
    BY <1>0, <1>1 DEF ExitEnter
  <2>2. Opened(call[c].pid) \in Players \cup {NULL}
    BY <2>1 DEF Opened, TypeOK
  <2>3. call' \in CallTypes
    BY <1>1, <2>2, HoldType DEF ExitEnter, Steps
  <2> QED BY <1>1, <2>1, <2>3, CountType, TypeIsCall DEF ExitEnter, TypeOK, threads
<1>2. CASE ExitTest(c)
  <2>1. call' \in CallTypes
    BY <1>2, GotoType DEF ExitTest, Steps, StopSteps
  <2> QED BY <1>2, <2>1, TypeIsCall DEF ExitTest, TypeOK, pool, threads, mutexes
<1>3. CASE ExitJoin(c) \/ ExitJoined(c)
  <2>1. call[c].para \in Players
    BY <1>0, <1>3 DEF ExitJoin, ExitJoined, With
  <2>2. pthread_id[call[c].para] \in Tids \cup {NULL}
    BY <2>1 DEF TypeOK
  <2>3. /\ call' \in CallTypes
        /\ bearer' \in [Tids -> Players \cup {NULL}] /\ joined' \subseteq Tids
        /\ UNCHANGED <<thread, pthread_id, stopping, secondhand>>
    BY <1>3, <2>2, JoinType DEF ExitJoin, ExitJoined, Steps
  <2> QED BY <1>3, <2>3, TypeIsCall DEF ExitJoin, ExitJoined, TypeOK, pool, mutexes
<1>4. CASE ExitFree(c)
  <2>1. call' \in CallTypes
    BY <1>4, HoldType DEF ExitFree, Steps
  <2>2. life' \in [Players -> {"fresh", "allocated", "freed"}]
    BY <1>4 DEF ExitFree, TypeOK
  <2> QED BY <1>4, <2>1, <2>2, TypeIsCall DEF ExitFree, TypeOK, pool, threads, mutexes
<1>5. CASE ExitClose(c)
  <2>1. call[c].pid \in Pids /\ call' \in CallTypes
    BY <1>0, <1>5, GotoType DEF ExitClose, Steps
  <2> QED BY <1>5, <2>1, CountType, TypeIsCall DEF ExitClose, TypeOK, threads, mutexes
<1>6. CASE ExitRelease(c)
  <2>1. call' \in CallTypes
    BY <1>6, ReturnType DEF ExitRelease
  <2> QED BY <1>6, <2>1, TypeIsCall DEF ExitRelease, Release, TypeOK, threads
<1> QED BY <1>1, <1>2, <1>3, <1>4, <1>5, <1>6 DEF Exit

(* Every step keeps the types. *)
LEMMA TypeStep ==
  ASSUME ControlAssumption, TypeOK, Owners, [Next]_vars
  PROVE  TypeOK'
<1>1. ASSUME NEW c \in Clients, Client(c) PROVE TypeOK'
  BY <1>1, StartType, BeginType, UseType, StopType, ExitType DEF Client
<1>2. ASSUME NEW p \in Players, Playing(p) PROVE TypeOK'
  <2>1. /\ thread' \in [Players -> {"none", "init", "play", "over", "exit", "ended"}]
        /\ UNCHANGED <<pool, life, pthread_id, bearer, joined, stopping, secondhand, mutexes, call,
                       handles, calls, nomem>>
    BY <1>2 DEF Playing, Ready, GetsOver, Exits, Ends, ThreadStep, TypeOK
  <2> QED BY <2>1, TypeCall, TypeIsCall DEF TypeOK, pool, mutexes
<1>3. CASE UNCHANGED vars
  BY <1>3 DEF vars, pool, threads, mutexes, TypeOK
<1> QED BY <1>1, <1>2, <1>3 DEF Next
-----------------------------------------------------------------------------
(* The invariant of pids and players holds at first. *)
LEMMA PidInvInit ==
  ASSUME ControlAssumption, Init
  PROVE  PidInv
<1>1. TypeOK
  BY DEF ControlAssumption, Init, TypeOK, Idle, Pids, Steps
<1>2. \A c \in Clients : call[c] = Idle
  BY DEF Init
<1>3. CallsOK /\ PidsOwned /\ PlayersOwned /\ PidStable
  BY <1>2 DEF Init, CallsOK, PidsOwned, PlayersOwned, PidStable, Idle, StepsOf, With
<1> QED BY <1>1, <1>3 DEF PidInv, Owners

(* Every call is at one of its steps, and every pid and player has its owner: the
   invariant from which the properties of the pid pool follow. *)
THEOREM PidInvariance == Spec => []PidInv
<1>1. Init => PidInv
  BY ControlAssumption, PidInvInit
<1>2. PidInv /\ [Next]_vars => PidInv'
  BY ControlAssumption, OwnersStep, TypeStep DEF PidInv
<1> QED BY <1>1, <1>2, PTL DEF Spec

(* Every variable of the pid pool and of the calls keeps its type; in
   particular player_start goes on only with a pid of the pool, and no use
   count is taken below zero. *)
THEOREM TypeCorrect == Spec => []TypeOK
<1>1. PidInv => TypeOK
  BY DEF PidInv
<1> QED BY <1>1, PidInvariance, PTL

(* While a call is inside, its pid leads to its player: player_request_pid
   gives no pid to two players, and player_release_pid takes none from under
   a call, however many clients call at once. *)
THEOREM PidsStable == Spec => []PidStable
<1>1. PidInv => PidStable
  BY DEF PidInv, Owners
<1> QED BY <1>1, PidInvariance, PTL

(* A pid that is taken leads to a living player, or a call is taking or giving
   it back; or it was lost to a player_start without memory. *)
THEOREM PidsReturn == Spec => []PidsComeBack
<1>1. PidInv => PidsComeBack
  BY DEF PidInv, Owners, PidsComeBack, PidsOwned, PlayersOwned, Served, Alone, TypeOK
<1> QED BY <1>1, PidInvariance, PTL
-----------------------------------------------------------------------------
(* Threads and joins. *)

(* A step that leaves the threads as they are. *)
LEMMA ThreadsKept ==
  ASSUME TypeOK, ThreadsOK, UNCHANGED <<thread, pthread_id, bearer, secondhand>>,
         NEW c \in Clients, NEW op, NEW i, NEW p, NEW at, Becomes(c, op, i, p, at),
         \A q \in Players : life'[q] = "fresh" => life[q] = "fresh",
         \A q \in Players : life'[q] = "allocated" /\ pthread_id[q] # NULL => life[q] = "allocated",
         handles' \subseteq handles,
         \A j \in handles' : priv_pid_data'[j] = priv_pid_data[j],
         \A d \in Clients : d # c /\ call[d].op = "exit" =>
           priv_pid_data'[call[d].pid] = priv_pid_data[call[d].pid],
         op = "exit" => priv_pid_data'[i] # NULL /\ thread[priv_pid_data'[i]] # "none",
         at \in Fresh => thread[p] = "none",
         at \in With \ Fresh => thread[p] # "none"
  PROVE  ThreadsOK'
<1>0. /\ call'[c].op = op /\ call'[c].pid = i /\ call'[c].para = p /\ call'[c].at = at
      /\ \A d \in Clients : d # c => call'[d] = call[d]
  BY BecomesFields
<1>1. /\ \A d \in Clients : call'[d].at \in Fresh => thread[call'[d].para] = "none"
      /\ \A d \in Clients : call'[d].at \in With \ Fresh => thread[call'[d].para] # "none"
  BY <1>0 DEF ThreadsOK
<1>2. \A d \in Clients : call'[d].op = "exit" =>
        priv_pid_data'[call'[d].pid] # NULL /\ thread[priv_pid_data'[call'[d].pid]] # "none"
  BY <1>0 DEF ThreadsOK
<1>3. \A j \in handles' : thread[priv_pid_data'[j]] # "none"
  BY DEF ThreadsOK
<1>4. \A q \in Players : life'[q] = "fresh" => thread[q] = "none"
  BY DEF ThreadsOK
<1>5. \A q, o \in Players : Sole(q) /\ pthread_id[o] = pthread_id[q] /\ life'[o] = "allocated" => o = q
  BY DEF ThreadsOK, Sole, Living
<1> QED BY <1>1, <1>2, <1>3, <1>4, <1>5 DEF ThreadsOK, Living, Sole

(* A step that begins and ends no join. *)
LEMMA JoinsKept ==
  ASSUME TypeOK, JoinsOK, UNCHANGED <<thread, pthread_id, bearer, joined, secondhand>>,
         NEW c \in Clients, NEW op, NEW i, NEW p, NEW at, Becomes(c, op, i, p, at),
         ~ Waits(c), at \notin {"stop_wait", "exit_wait"},
         at = "stop_leave" => Over(p),
         at = "exit_free" => ~ Sole(p),
         \A q \in Players : Sole(q) /\ life[q] = "allocated" => life'[q] = "allocated"
  PROVE  JoinsOK'
<1>0. /\ call'[c].op = op /\ call'[c].pid = i /\ call'[c].para = p /\ call'[c].at = at
      /\ \A d \in Clients : d # c => call'[d] = call[d]
  BY BecomesFields
<1>1. /\ \A t \in joined : \E d \in Clients : Waits(d)' /\ Tid(d)' = t
      /\ \A d \in Clients : Waits(d)' => Tid(d)' \in joined /\ bearer[Tid(d)'] # NULL
      /\ \A d, e \in Clients : Waits(d)' /\ Waits(e)' /\ Tid(d)' = Tid(e)' => d = e
  BY <1>0 DEF JoinsOK, Waits, Tid
<1>2. /\ \A d \in Clients : call'[d].at = "stop_leave" => thread[call'[d].para] \in {"exit", "ended"}
      /\ \A d \in Clients : call'[d].at = "exit_free" => ~ Sole(call'[d].para)
  BY <1>0 DEF JoinsOK, Over
<1>3. \A q \in Players : Sole(q) => life'[q] = "allocated"
  BY DEF JoinsOK
<1> QED BY <1>1, <1>2, <1>3 DEF JoinsOK, Living, Sole, Over, Waits, Tid

(* A call that joins holds a player that has, or had, a thread. *)
LEMMA Joining ==
  ASSUME ControlAssumption, ThreadInv, NEW c \in Clients,
         call[c].at \in {"stop_join", "stop_wait", "exit_join", "exit_wait"}
  PROVE  /\ call[c].para \in Players /\ thread[call[c].para] # "none"
         /\ Tid(c) # NULL /\ Tid(c) \in Tids
<1>1. call[c].para \in Players /\ call[c].para # NULL /\ thread[call[c].para] # "none"
  BY Where DEF ThreadInv, PidInv, ThreadsOK, With, Fresh
<1> QED BY <1>1 DEF ThreadInv, PidInv, TypeOK, ThreadsOK, Tid

(* A thread that the join of player_exit does not find has ended; nor does
   another call wait for it, unless it got its pthread_t second hand. *)
LEMMA ExitJoinFails ==
  ASSUME ControlAssumption, ThreadInv, NEW c \in Clients, call[c].at = "exit_join",
         Tid(c) = NULL \/ bearer[Tid(c)] = NULL \/ Tid(c) \in joined
  PROVE  ~ Sole(call[c].para)
<1> DEFINE p == call[c].para
<1> SUFFICES ASSUME Sole(p) PROVE FALSE
  OBVIOUS
<1>1. p \in Players /\ p # NULL /\ Tid(c) # NULL /\ call[c].op = "exit" /\ call[c].at # "data"
  BY Joining, Where DEF ThreadInv, PidInv, ExitSteps, ControlAssumption
<1>2. bearer[Tid(c)] = p
  BY <1>1 DEF ThreadInv, ThreadsOK, Sole, Tid
<1>3. PICK d \in Clients : Waits(d) /\ Tid(d) = Tid(c)
  BY <1>1, <1>2 DEF ThreadInv, JoinsOK
<1>4. /\ call[d].para \in Players /\ life[call[d].para] = "allocated"
      /\ pthread_id[call[d].para] = pthread_id[p]
  BY <1>3, Joining DEF ThreadInv, PidInv, Owners, PlayersOwned, Tid, Waits, ControlAssumption
<1>5. call[d].para = p
  BY <1>1, <1>4 DEF ThreadInv, ThreadsOK
<1>6. call[d].pid = call[c].pid
  BY <1>1, <1>5, OwnPlayer DEF ThreadInv, PidInv
<1>7. d = c
  BY <1>1, <1>6 DEF ThreadInv, PidInv, Owners, PidsOwned, Alone
<1> QED BY <1>3, <1>7 DEF Waits

(* The thread that a join has waited for has ended, and so has that of the
   player whose call it was. *)
LEMMA JoinSucceeds ==
  ASSUME ControlAssumption, ThreadInv, NEW c \in Clients, Waits(c), JoinEnds(Tid(c))
  PROVE  thread[call[c].para] = "ended"
<1>1. call[c].para \in Players /\ thread[call[c].para] # "none"
  BY Joining DEF Waits
<1>2. Living(call[c].para) => bearer[Tid(c)] = call[c].para
  BY <1>1 DEF ThreadInv, ThreadsOK, Tid
<1> QED BY <1>1, <1>2 DEF JoinEnds, Living
-----------------------------------------------------------------------------
(* The steps that neither create nor join a thread. *)

Quiet == UNCHANGED <<thread, pthread_id, bearer, joined, secondhand>>

(* The call goes on, or returns, and the players stay. *)
LEMMA GoesOnQuietly ==
  ASSUME ControlAssumption, ThreadInv, Quiet, UNCHANGED <<priv_pid_data, life, handles>>,
         NEW c \in Clients, NEW at \in Steps, NEW p \in Players \cup {NULL},
         Becomes(c, call[c].op, call[c].pid, p, at),
         ~ Waits(c), at \notin {"stop_wait", "exit_wait"},
         at = "stop_leave" => Over(p),
         at = "exit_free" => ~ Sole(p),
         at \in Fresh => thread[p] = "none",
         at \in With \ Fresh => thread[p] # "none"
  PROVE  (ThreadsOK /\ JoinsOK)'
<1>1. call[c].op = "exit" =>
        priv_pid_data'[call[c].pid] # NULL /\ thread[priv_pid_data'[call[c].pid]] # "none"
  BY DEF ThreadInv, ThreadsOK
<1>2. ThreadsOK'
  BY <1>1, ThreadsKept DEF ThreadInv, PidInv, Quiet
<1>3. JoinsOK'
  BY JoinsKept DEF ThreadInv, PidInv, Quiet, ControlAssumption
<1> QED BY <1>2, <1>3

(* The call returns; the pid it may have released is of no other call. *)
LEMMA ReturnsQuietly ==
  ASSUME ControlAssumption, ThreadInv, Quiet, UNCHANGED <<life, handles>>,
         NEW c \in Clients, Return(c), ~ Waits(c),
         \A j \in handles : priv_pid_data'[j] = priv_pid_data[j],
         \A d \in Clients : d # c /\ call[d].op = "exit" =>
           priv_pid_data'[call[d].pid] = priv_pid_data[call[d].pid]
  PROVE  (ThreadsOK /\ JoinsOK)'
<1>1. Becomes(c, "none", -1, NULL, "idle")
  BY TypeCall, ReturnBecomes DEF ThreadInv, PidInv
<1>2. ThreadsOK'
  BY <1>1, ThreadsKept DEF ThreadInv, PidInv, Quiet, With, Fresh
<1>3. JoinsOK'
  BY <1>1, JoinsKept DEF ThreadInv, PidInv, Quiet, ControlAssumption, StopSteps
<1> QED BY <1>2, <1>3

(* What is known of the player of a call, and of the one its pid leads to. *)
LEMMA Known ==
  ASSUME ControlAssumption, ThreadInv, NEW c \in Clients
  PROVE  /\ call[c].at \in With \ Fresh => thread[call[c].para] # "none"
         /\ call[c].at \in Fresh => thread[call[c].para] = "none"
         /\ call[c].at \in {"open", "stop_enter", "exit_enter"} =>
              /\ Opened(call[c].pid) \in Players /\ Opened(call[c].pid) # NULL
              /\ thread[Opened(call[c].pid)] # "none"
<1>1. ASSUME call[c].at \in {"open", "stop_enter", "exit_enter"}
      PROVE  /\ Opened(call[c].pid) \in Players /\ Opened(call[c].pid) # NULL
             /\ thread[Opened(call[c].pid)] # "none"
  <2>1. call[c].op # "start" /\ call[c].op # "none" /\ call[c].pid \in Pids /\ call[c].pid \in priv_pid_pool
    BY <1>1, Where DEF ThreadInv, PidInv, UseSteps, StopSteps, ExitSteps
  <2>2. Served(call[c].pid)
    BY <1>1, <2>1, Where DEF ThreadInv, PidInv, Alone
  <2>3. Opened(call[c].pid) = priv_pid_data[call[c].pid] /\ Opened(call[c].pid) \in Players
    BY <2>1, <2>2 DEF Opened, Free, Served, ThreadInv, PidInv, TypeOK
  <2>4. call[c].op # "exit" => call[c].pid \in handles
    BY <2>1 DEF ThreadInv, PidInv, Owners, PidsOwned, Alone
  <2> QED BY <2>1, <2>2, <2>3, <2>4 DEF ThreadInv, ThreadsOK, Served
<1> QED BY <1>1 DEF ThreadInv, ThreadsOK

(* The calls that open, act and close. *)
LEMMA UseQuiet ==
  ASSUME ControlAssumption, ThreadInv, NEW c \in Clients, Use(c)
  PROVE  (ThreadsOK /\ JoinsOK)'
<1>1. /\ Quiet /\ UNCHANGED <<priv_pid_data, life, handles>>
      /\ call[c].at \in UseSteps /\ ~ Waits(c)
  BY DEF Use, Open, Act, Close, InfoWaits, InfoCloses, CountIn, CountOut, Quiet, pool, threads,
         mutexes, UseSteps, Waits
<1>2. CASE Return(c)
  BY <1>1, <1>2, ReturnsQuietly
<1>3. ASSUME NEW at \in UseSteps \ {"act", "close"}, Goto(c, at)
      PROVE  (ThreadsOK /\ JoinsOK)'
  <2>1. Becomes(c, call[c].op, call[c].pid, call[c].para, at) /\ at \in Steps
    BY <1>3, TypeCall, GotoBecomes DEF UseSteps, Steps, ThreadInv, PidInv
  <2>2. /\ at \notin With /\ at \notin StopSteps
        /\ at \notin {"exit_free", "stop_leave", "stop_wait", "exit_wait"}
    BY <1>3 DEF UseSteps, StopSteps, With
  <2>3. call[c].para \in Players \cup {NULL} /\ at \notin Fresh
    BY <2>2, TypeCall, CallFields DEF ThreadInv, PidInv, With, Fresh
  <2> QED BY <1>1, <2>1, <2>2, <2>3, GoesOnQuietly DEF StopSteps
<1>4. CASE call[c].at = "act" /\ Goto(c, "close")
  <2>1. Becomes(c, call[c].op, call[c].pid, call[c].para, "close") /\ "close" \in Steps
    BY <1>4, TypeCall, GotoBecomes DEF Steps, ThreadInv, PidInv
  <2>2. call[c].para \in Players \cup {NULL} /\ thread[call[c].para] # "none"
    BY <1>4, Known, TypeCall, CallFields DEF ThreadInv, PidInv, With, Fresh
  <2> QED BY <1>1, <2>1, <2>2, GoesOnQuietly DEF StopSteps, Fresh
<1>5. CASE call[c].at = "open" /\ GotoWith(c, Opened(call[c].pid), "act")
  <2>1. Opened(call[c].pid) \in Players /\ thread[Opened(call[c].pid)] # "none"
    BY <1>5, Known
  <2>2. Becomes(c, call[c].op, call[c].pid, Opened(call[c].pid), "act") /\ "act" \in Steps
    BY <1>5, <2>1, TypeCall, HoldBecomes DEF Steps, ThreadInv, PidInv
  <2> QED BY <1>1, <2>1, <2>2, GoesOnQuietly DEF StopSteps, Fresh
<1>6. CASE Open(c)
  BY <1>2, <1>5, <1>6 DEF Open
<1>7. CASE Act(c)
  BY <1>2, <1>4, <1>7 DEF Act
<1>8. CASE Close(c) \/ InfoCloses(c)
  BY <1>2, <1>8 DEF Close, InfoCloses
<1>9. CASE InfoWaits(c)
  BY <1>2, <1>3, <1>9 DEF InfoWaits, UseSteps
<1> QED BY <1>6, <1>7, <1>8, <1>9 DEF Use

(* The start of a call. *)
LEMMA BeginQuiet ==
  ASSUME ControlAssumption, ThreadInv, NEW c \in Clients, Begin(c)
  PROVE  (ThreadsOK /\ JoinsOK)'
<1>1. PICK op \in Ops, i \in handles :
        /\ call' = [call EXCEPT ![c] = [op |-> op, pid |-> i, para |-> NULL, at |-> First(op)]]
        /\ handles' = IF op = "exit" THEN handles \ {i} ELSE handles
  BY DEF Begin
<1>2. /\ op \in Kinds /\ i \in Pids
      /\ First(op) \in Steps /\ First(op) \notin With /\ First(op) \notin Fresh
      /\ First(op) \notin StopSteps \ {"stop_enter"} /\ First(op) \notin {"stop_wait", "exit_wait"}
  BY DEF ControlAssumption, ThreadInv, PidInv, TypeOK, First, Steps, StopSteps, With, Fresh
<1>3. Becomes(c, op, i, NULL, First(op))
  BY <1>1, <1>2, TypeCall, NewBecomes DEF ThreadInv, PidInv
<1>4. Quiet /\ UNCHANGED <<priv_pid_data, life>> /\ call[c] = Idle
  BY DEF Begin, pool, threads, Quiet
<1>5. handles' \subseteq handles /\ priv_pid_data'[i] # NULL /\ thread[priv_pid_data'[i]] # "none"
  BY <1>1, <1>4 DEF ThreadInv, ThreadsOK, PidInv, Owners, PlayersOwned, Served
<1>6. ThreadsOK'
  BY <1>2, <1>3, <1>4, <1>5, ThreadsKept DEF ThreadInv, PidInv, Quiet
<1>7. First(op) # "stop_leave" /\ First(op) # "exit_free" /\ ~ Waits(c)
  BY <1>2, <1>4 DEF With, Waits, Idle
<1>8. JoinsOK'
  BY <1>2, <1>3, <1>4, <1>7, JoinsKept DEF ThreadInv, PidInv, Quiet, ControlAssumption
<1> QED BY <1>6, <1>8

(* The steps of player_stop and player_exit that go on to a step with or
   without a player, and do not join. *)
LEMMA StopExitQuiet ==
  ASSUME ControlAssumption, ThreadInv, NEW c \in Clients,
         \/ StopEnter(c) \/ StopTest(c) \/ StopSend(c) \/ StopLeave(c)
         \/ ExitEnter(c) \/ ExitTest(c) \/ ExitClose(c)
  PROVE  (ThreadsOK /\ JoinsOK)'
<1>1. Quiet /\ UNCHANGED <<priv_pid_data, life, handles>> /\ ~ Waits(c)
  BY DEF StopEnter, StopTest, StopSend, StopLeave, ExitEnter, ExitTest, ExitClose, CountIn, CountOut,
         Quiet, pool, threads, Waits
<1>2. call[c].para \in Players \cup {NULL} /\ call \in CallTypes
  BY TypeCall, CallFields DEF ThreadInv, PidInv
<1>3. CASE StopEnter(c)
  <2>1. /\ Opened(call[c].pid) \in Players /\ Opened(call[c].pid) # NULL
        /\ thread[Opened(call[c].pid)] # "none"
    BY <1>3, Known DEF StopEnter
  <2>2. GotoWith(c, Opened(call[c].pid), "stop_test")
    BY <1>3, <2>1 DEF StopEnter
  <2>3. Becomes(c, call[c].op, call[c].pid, Opened(call[c].pid), "stop_test") /\ "stop_test" \in Steps
    BY <1>2, <2>1, <2>2, HoldBecomes DEF Steps, StopSteps
  <2> QED BY <1>1, <2>1, <2>2, <2>3, GoesOnQuietly DEF Fresh
<1>4. CASE StopTest(c) \/ StopSend(c)
  <2>1. PICK at \in {"stop_leave", "stop_send", "stop_join", "stop_fail"} :
          Goto(c, at) /\ (at = "stop_leave" => Over(call[c].para))
    BY <1>4 DEF StopTest, StopSend
  <2>2. Becomes(c, call[c].op, call[c].pid, call[c].para, at) /\ at \in Steps
    BY <1>2, <2>1, GotoBecomes DEF Steps, StopSteps
  <2>3. thread[call[c].para] # "none"
    BY <1>4, Known DEF StopTest, StopSend, With, Fresh
  <2> QED BY <1>1, <1>2, <2>1, <2>2, <2>3, GoesOnQuietly DEF Fresh
<1>5. CASE StopLeave(c)
  <2>1. thread[call[c].para] # "none" /\ StopReturns(c)
    BY <1>5, Known DEF StopLeave, StopSteps, With, Fresh
  <2>2. CASE Goto(c, "exit_join")
    <3>1. Becomes(c, call[c].op, call[c].pid, call[c].para, "exit_join") /\ "exit_join" \in Steps
      BY <1>2, <2>2, GotoBecomes DEF Steps
    <3> QED BY <1>1, <1>2, <2>1, <3>1, GoesOnQuietly DEF Fresh, StopSteps
  <2>3. CASE Return(c)
    BY <1>1, <2>1, <2>3, ReturnsQuietly
  <2> QED BY <2>1, <2>2, <2>3 DEF StopReturns
<1>6. CASE ExitEnter(c)
  <2>1. /\ Opened(call[c].pid) \in Players /\ Opened(call[c].pid) # NULL
        /\ thread[Opened(call[c].pid)] # "none"
    BY <1>6, Known DEF ExitEnter
  <2>2. GotoWith(c, Opened(call[c].pid), "exit_test")
    BY <1>6, <2>1 DEF ExitEnter
  <2>3. Becomes(c, call[c].op, call[c].pid, Opened(call[c].pid), "exit_test") /\ "exit_test" \in Steps
    BY <1>2, <2>1, <2>2, HoldBecomes DEF Steps
  <2> QED BY <1>1, <2>1, <2>2, <2>3, GoesOnQuietly DEF Fresh, StopSteps
<1>7. CASE ExitTest(c)
  <2>1. PICK at \in {"exit_join", "stop_enter"} : Goto(c, at)
    BY <1>7 DEF ExitTest
  <2>2. Becomes(c, call[c].op, call[c].pid, call[c].para, at) /\ at \in Steps
    BY <1>2, <2>1, GotoBecomes DEF Steps, StopSteps
  <2>3. thread[call[c].para] # "none"
    BY <1>7, Known DEF ExitTest, With, Fresh
  <2> QED BY <1>1, <1>2, <2>1, <2>2, <2>3, GoesOnQuietly DEF Fresh, StopSteps
<1>8. CASE ExitClose(c)
  <2>1. Becomes(c, call[c].op, call[c].pid, call[c].para, "exit_release") /\ "exit_release" \in Steps
    BY <1>2, <1>8, GotoBecomes DEF Steps, ExitClose
  <2> QED BY <1>1, <1>2, <2>1, GoesOnQuietly DEF Fresh, With
<1> QED BY <1>3, <1>4, <1>5, <1>6, <1>7, <1>8

(* The steps that take or give back a pid: no other exit is about it, and it
   is not handed out. *)
LEMMA PidQuiet ==
  ASSUME ControlAssumption, ThreadInv, NEW c \in Clients,
         StartRequest(c) \/ StartData(c) \/ StartRelease(c) \/ ExitRelease(c)
  PROVE  (ThreadsOK /\ JoinsOK)'
<1>1. Quiet /\ UNCHANGED <<life, handles>> /\ ~ Waits(c)
  BY DEF StartRequest, StartData, StartRelease, ExitRelease, Quiet, threads, Waits, Idle
<1>2. CASE StartRequest(c)
  <2>1. PICK i \in Pids :
          /\ FirstFree(i) /\ Take(i)
          /\ call' = [call EXCEPT ![c] = [op |-> "start", pid |-> i, para |-> NULL, at |-> "malloc"]]
    BY <1>2 DEF StartRequest
  <2>2. Becomes(c, "start", i, NULL, "malloc")
    BY <2>1, TypeCall, NewBecomes DEF Steps, ThreadInv, PidInv
  <2>3. \A j \in Pids \ {i} : priv_pid_data'[j] = priv_pid_data[j]
    BY <2>1 DEF Take, ThreadInv, PidInv, TypeOK
  <2>4. /\ handles \subseteq Pids /\ i \notin handles
        /\ \A d \in Clients : call[d].op = "exit" => call[d].pid \in Pids \ {i}
    BY <2>1 DEF ThreadInv, PidInv, TypeOK, Owners, CallsOK, PidsOwned, FirstFree, Free
  <2>5. ThreadsOK'
    BY <1>1, <2>2, <2>3, <2>4, ThreadsKept DEF ThreadInv, PidInv, Quiet, With, Fresh
  <2>6. JoinsOK'
    BY <1>1, <2>2, JoinsKept DEF ThreadInv, PidInv, Quiet, ControlAssumption, StopSteps
  <2> QED BY <2>5, <2>6
<1>3. ASSUME StartData(c) \/ StartRelease(c) \/ ExitRelease(c)
      PROVE  /\ Alone(c) /\ call[c].pid \in Pids
             /\ \A j \in handles : j \in Pids /\ j # call[c].pid
             /\ \A d \in Clients : d # c /\ call[d].op = "exit" =>
                  call[d].pid \in Pids /\ call[d].pid # call[c].pid
             /\ \A j \in Pids : j # call[c].pid => priv_pid_data'[j] = priv_pid_data[j]
  <2>1. call[c].op \in {"start", "exit"} /\ call[c].pid \in Pids
    BY <1>3, Where DEF StartData, StartRelease, ExitRelease, StartSteps, ExitSteps, ThreadInv, PidInv
  <2>2. \A j \in Pids : j # call[c].pid => priv_pid_data'[j] = priv_pid_data[j]
    BY <1>3, <2>1 DEF StartData, StartRelease, ExitRelease, Release, ThreadInv, PidInv, TypeOK
  <2> QED BY <2>1, <2>2 DEF ThreadInv, PidInv, TypeOK, Owners, CallsOK, PidsOwned, Alone
<1>4. CASE StartRelease(c) \/ ExitRelease(c)
  <2>1. Return(c)
    BY <1>4 DEF StartRelease, ExitRelease
  <2> QED BY <1>1, <1>3, <1>4, <2>1, ReturnsQuietly
<1>5. CASE StartData(c)
  <2>1. Becomes(c, call[c].op, call[c].pid, call[c].para, "create") /\ call[c].op = "start"
    BY <1>5, TypeCall, GotoBecomes, Where DEF StartData, Steps, StartSteps, ThreadInv, PidInv
  <2>2. thread[call[c].para] = "none"
    BY <1>5, Known DEF StartData, Fresh
  <2>3. ThreadsOK'
    BY <1>1, <1>3, <1>5, <2>1, <2>2, ThreadsKept DEF ThreadInv, PidInv, Quiet, With, Fresh
  <2>4. JoinsOK'
    BY <1>1, <2>1, JoinsKept DEF ThreadInv, PidInv, Quiet, ControlAssumption, StopSteps
  <2> QED BY <2>3, <2>4
<1> QED BY <1>2, <1>4, <1>5

(* The steps that give a player its memory, or take it from one without a
   living thread. *)
LEMMA LifeQuiet ==
  ASSUME ControlAssumption, ThreadInv, NEW c \in Clients,
         StartMalloc(c) \/ StartFree(c) \/ ExitFree(c)
  PROVE  (ThreadsOK /\ JoinsOK)'
<1>1. Quiet /\ UNCHANGED <<priv_pid_data, handles>> /\ ~ Waits(c)
  BY DEF StartMalloc, StartFree, ExitFree, Quiet, pool, threads, Waits
<1>2. CASE Return(c) /\ UNCHANGED life
  BY <1>1, <1>2, ReturnsQuietly
<1>3. ASSUME NEW p \in Players, life[p] = "fresh", life' = [life EXCEPT ![p] = "allocated"],
             GotoWith(c, p, "data"), call[c].at = "malloc"
      PROVE  (ThreadsOK /\ JoinsOK)'
  <2>1. Becomes(c, call[c].op, call[c].pid, p, "data") /\ call[c].op = "start"
    BY <1>3, TypeCall, HoldBecomes, Where DEF Steps, StartSteps, ThreadInv, PidInv
  <2>2. /\ thread[p] = "none" /\ pthread_id[p] = NULL
        /\ \A q \in Players : life'[q] = IF q = p THEN "allocated" ELSE life[q]
    BY <1>3 DEF ThreadInv, PidInv, TypeOK, ThreadsOK
  <2>3. ThreadsOK'
    BY <1>1, <2>1, <2>2, ThreadsKept DEF ThreadInv, PidInv, Quiet, Fresh
  <2>4. JoinsOK'
    BY <1>1, <2>1, <2>2, JoinsKept DEF ThreadInv, PidInv, Quiet, ControlAssumption, StopSteps
  <2> QED BY <2>3, <2>4
<1>4. ASSUME StartFree(c) \/ ExitFree(c) PROVE (ThreadsOK /\ JoinsOK)'
  <2>1. PICK at \in {"release", "exit_close"} : GotoWith(c, NULL, at)
    BY <1>4 DEF StartFree, ExitFree
  <2>2. Becomes(c, call[c].op, call[c].pid, NULL, at)
    BY <2>1, TypeCall, HoldBecomes DEF Steps, ThreadInv, PidInv
  <2>3. call[c].para \in Players /\ ~ Sole(call[c].para)
    BY <1>4, Known, Where DEF StartFree, ExitFree, Fresh, With, ThreadInv, PidInv, JoinsOK, Sole, Living
  <2>4. \A q \in Players : life'[q] = IF q = call[c].para THEN "freed" ELSE life[q]
    BY <1>4, <2>3 DEF StartFree, ExitFree, ThreadInv, PidInv, TypeOK
  <2>5. call[c].op = "exit" =>
        priv_pid_data'[call[c].pid] # NULL /\ thread[priv_pid_data'[call[c].pid]] # "none"
    BY <1>1 DEF ThreadInv, ThreadsOK
  <2>6. ThreadsOK'
    BY <1>1, <2>1, <2>2, <2>4, <2>5, ThreadsKept DEF ThreadInv, PidInv, Quiet, Fresh, With
  <2>7. JoinsOK'
    BY <1>1, <2>1, <2>2, <2>3, <2>4, JoinsKept
    DEF ThreadInv, PidInv, Quiet
  <2> QED BY <2>6, <2>7
<1> QED BY <1>2, <1>3, <1>4 DEF StartMalloc
-----------------------------------------------------------------------------
(* The steps that create, run or join a thread. *)

(* A new thread gets an id that names no other, and its player no other call
   works on; if a player still stores the id, the new one has it second hand. *)
LEMMA CreateKeeps ==
  ASSUME ControlAssumption, ThreadInv, NEW c \in Clients, StartCreate(c)
  PROVE  (ThreadsOK /\ JoinsOK)'
<1> DEFINE p == call[c].para
<1>1. /\ call[c].at = "create" /\ call[c].op = "start" /\ p \in Players /\ p # NULL
      /\ call[c].pid \in Pids /\ thread[p] = "none" /\ pthread_id[p] = NULL
  BY Known, Where DEF StartCreate, StartSteps, With, Fresh, ThreadInv, PidInv, ThreadsOK
<1>2. /\ priv_pid_data[call[c].pid] = p /\ life[p] = "allocated"
      /\ \A d \in Clients : d # c => call[d].para # p
  <2>1. priv_pid_data[call[c].pid] = p /\ \A d \in Clients : call[d].para = p => call[d].pid = call[c].pid
    BY <1>1, OwnPlayer DEF ThreadInv, PidInv
  <2> QED BY <1>1, <2>1 DEF ThreadInv, PidInv, Owners, PidsOwned, PlayersOwned, Alone
<1>3. UNCHANGED <<priv_pid_data, life, joined>>
  BY DEF StartCreate, pool
<1>4. CASE Goto(c, "free") /\ UNCHANGED <<bearer, pthread_id, thread, secondhand, handles>>
  <2>1. Becomes(c, call[c].op, call[c].pid, p, "free") /\ "free" \in Steps
    BY <1>4, TypeCall, GotoBecomes DEF Steps, ThreadInv, PidInv
  <2> QED BY <1>1, <1>3, <1>4, <2>1, GoesOnQuietly DEF Quiet, Waits, StopSteps, Fresh
<1>5. ASSUME NEW t \in Tids, bearer[t] = NULL,
             secondhand' = IF Storing(t) = {} THEN secondhand ELSE secondhand \cup {p},
             bearer' = [bearer EXCEPT ![t] = p], pthread_id' = [pthread_id EXCEPT ![p] = t],
             thread' = [thread EXCEPT ![p] = "init"],
             handles' = handles \cup {call[c].pid}, Return(c)
      PROVE  (ThreadsOK /\ JoinsOK)'
  <2>0. /\ call'[c].op = "none" /\ call'[c].para = NULL /\ call'[c].at = "idle"
        /\ \A d \in Clients : d # c => call'[d] = call[d]
    BY <1>5, TypeCall, ReturnBecomes, BecomesFields DEF ThreadInv, PidInv
  <2>1. /\ \A q \in Players : thread'[q] = IF q = p THEN "init" ELSE thread[q]
        /\ \A q \in Players : pthread_id'[q] = IF q = p THEN t ELSE pthread_id[q]
        /\ \A u \in Tids : bearer'[u] = IF u = t THEN p ELSE bearer[u]
        /\ t # NULL
    BY <1>1, <1>5 DEF ThreadInv, PidInv, TypeOK, ControlAssumption
  <2>2. \A d \in Clients : call[d].at \in With => call[d].para \in Players
    BY Where DEF ThreadInv, PidInv
  <2>3. \A q \in Players : pthread_id[q] \in Tids \cup {NULL}
    BY DEF ThreadInv, PidInv, TypeOK
  <2>4. ThreadsOK'
    <3>1. \A q \in Players : thread'[q] = "none" <=> pthread_id'[q] = NULL
      BY <2>1 DEF ThreadInv, ThreadsOK
    <3>2. \A q \in Players : life'[q] = "fresh" => thread'[q] = "none"
      BY <1>2, <1>3, <2>1 DEF ThreadInv, ThreadsOK
    <3>3. \A d \in Clients : call'[d].at \in Fresh => thread'[call'[d].para] = "none"
      <4> SUFFICES ASSUME NEW d \in Clients, call'[d].at \in Fresh PROVE thread'[call'[d].para] = "none"
        OBVIOUS
      <4>1. d # c /\ call'[d] = call[d] /\ call[d].at \in Fresh
        BY <2>0 DEF Fresh
      <4>2. call[d].para \in Players /\ call[d].para # p
        BY <1>2, <2>2, <4>1 DEF Fresh, With
      <4> QED BY <2>1, <4>1, <4>2 DEF ThreadInv, ThreadsOK
    <3>4. \A d \in Clients : call'[d].at \in With \ Fresh => thread'[call'[d].para] # "none"
      <4> SUFFICES ASSUME NEW d \in Clients, call'[d].at \in With \ Fresh
                   PROVE  thread'[call'[d].para] # "none"
        OBVIOUS
      <4>1. d # c /\ call'[d] = call[d]
        BY <2>0 DEF With
      <4>2. call[d].para \in Players /\ thread[call[d].para] # "none"
        BY <2>2, <4>1 DEF ThreadInv, ThreadsOK
      <4> QED BY <2>1, <4>1, <4>2
    <3>5. \A i \in handles' : thread'[priv_pid_data'[i]] # "none"
      <4> SUFFICES ASSUME NEW i \in handles' PROVE thread'[priv_pid_data[i]] # "none"
        BY <1>3
      <4>1. CASE i = call[c].pid
        BY <1>1, <1>2, <2>1, <4>1
      <4>2. CASE i \in handles
        <5>1. priv_pid_data[i] \in Players /\ thread[priv_pid_data[i]] # "none"
          BY <4>2 DEF ThreadInv, PidInv, TypeOK, Owners, PlayersOwned, Served, ThreadsOK
        <5> QED BY <2>1, <5>1
      <4> QED BY <1>5, <4>1, <4>2
    <3>6. \A d \in Clients : call'[d].op = "exit" =>
            priv_pid_data'[call'[d].pid] # NULL /\ thread'[priv_pid_data'[call'[d].pid]] # "none"
      <4> SUFFICES ASSUME NEW d \in Clients, call'[d].op = "exit"
                   PROVE  priv_pid_data[call'[d].pid] # NULL /\ thread'[priv_pid_data[call'[d].pid]] # "none"
        BY <1>3
      <4>1. /\ call'[d] = call[d] /\ call[d].op = "exit" /\ priv_pid_data[call[d].pid] # NULL
            /\ thread[priv_pid_data[call[d].pid]] # "none"
        BY <2>0 DEF ThreadInv, ThreadsOK
      <4>2. CASE priv_pid_data[call[d].pid] = p
        BY <1>1, <4>1, <4>2
      <4>3. CASE priv_pid_data[call[d].pid] # p
        BY <1>5, <4>1, <4>3 DEF ThreadInv, PidInv, TypeOK
      <4> QED BY <4>2, <4>3
    <3>7. \A q \in Players : Living(q)' => bearer'[pthread_id'[q]] = q
      <4> SUFFICES ASSUME NEW q \in Players, Living(q)' PROVE bearer'[pthread_id'[q]] = q
        OBVIOUS
      <4>1. CASE q = p
        BY <2>1, <4>1
      <4>2. CASE q # p
        <5>1. Living(q) /\ pthread_id[q] \in Tids /\ bearer[pthread_id[q]] = q
          BY <1>5, <2>1, <2>3, <4>2 DEF Living, ThreadInv, ThreadsOK
        <5>2. pthread_id[q] # t
          BY <1>5, <5>1 DEF ControlAssumption
        <5> QED BY <2>1, <4>2, <5>1, <5>2
      <4> QED BY <4>1, <4>2
    <3>8. \A u \in Tids : bearer'[u] # NULL => pthread_id'[bearer'[u]] = u
      <4> SUFFICES ASSUME NEW u \in Tids, bearer'[u] # NULL PROVE pthread_id'[bearer'[u]] = u
        OBVIOUS
      <4>1. CASE u = t
        BY <1>1, <2>1, <4>1
      <4>2. CASE u # t
        <5>1. bearer'[u] = bearer[u] /\ bearer[u] \in Players /\ pthread_id[bearer[u]] = u
          BY <2>1, <4>2 DEF ThreadInv, PidInv, TypeOK, ThreadsOK
        <5>2. bearer[u] # p
          BY <1>1, <5>1 DEF ControlAssumption
        <5> QED BY <2>1, <5>1, <5>2
      <4> QED BY <4>1, <4>2
    <3>9. \A q, o \in Players :
            Sole(q)' /\ pthread_id'[o] = pthread_id'[q] /\ life'[o] = "allocated" => o = q
      <4> SUFFICES ASSUME NEW q \in Players, NEW o \in Players, Sole(q)',
                          pthread_id'[o] = pthread_id'[q], life[o] = "allocated"
                   PROVE  o = q
        BY <1>3
      <4>1. CASE q = p
        <5>1. Storing(t) = {}
          BY <1>5, <4>1 DEF Sole
        <5> QED BY <1>3, <2>1, <4>1, <5>1 DEF Storing
      <4>2. CASE q # p
        <5>1. Sole(q) /\ bearer[pthread_id[q]] = q /\ pthread_id'[q] = pthread_id[q]
          BY <1>5, <2>1, <4>2 DEF Sole, Living, ThreadInv, ThreadsOK
        <5>2. pthread_id[q] # t
          BY <1>5, <5>1 DEF ControlAssumption
        <5>3. o # p /\ pthread_id[o] = pthread_id[q]
          BY <2>1, <5>1, <5>2
        <5> QED BY <5>1, <5>3 DEF ThreadInv, ThreadsOK
      <4> QED BY <4>1, <4>2
    <3> QED BY <3>1, <3>2, <3>3, <3>4, <3>5, <3>6, <3>7, <3>8, <3>9 DEF ThreadsOK
  <2>5. \A d \in Clients : call'[d].at \in With =>
          /\ d # c /\ call'[d] = call[d] /\ call[d].para \in Players
          /\ thread'[call[d].para] = thread[call[d].para]
          /\ pthread_id'[call[d].para] = pthread_id[call[d].para]
    <3> SUFFICES ASSUME NEW d \in Clients, call'[d].at \in With
                 PROVE  /\ d # c /\ call'[d] = call[d] /\ call[d].para \in Players
                        /\ thread'[call[d].para] = thread[call[d].para]
                        /\ pthread_id'[call[d].para] = pthread_id[call[d].para]
      OBVIOUS
    <3>1. d # c /\ call'[d] = call[d]
      BY <2>0 DEF With
    <3>2. call[d].para \in Players /\ call[d].para # p
      BY <1>2, <2>2, <3>1
    <3> QED BY <2>1, <3>1, <3>2
  <2>6. \A d \in Clients : Waits(d) => d # c
    BY <1>1 DEF Waits
  <2>7. JoinsOK'
    <3>1. \A d \in Clients : Waits(d)' <=> Waits(d)
      BY <2>0, <2>6 DEF Waits
    <3>2. ASSUME NEW d \in Clients, Waits(d)
          PROVE  Tid(d)' = Tid(d) /\ Tid(d) \in joined /\ bearer'[Tid(d)] # NULL
      <4>1. call'[d] = call[d] /\ call[d].at \in With /\ Tid(d) \in Tids
        BY <2>0, <2>6, <3>2, Joining DEF Waits, With
      <4>2. Tid(d)' = Tid(d)
        BY <2>5, <4>1 DEF Tid
      <4>3. Tid(d) \in joined /\ bearer[Tid(d)] # NULL
        BY <3>2 DEF ThreadInv, JoinsOK
      <4> QED BY <1>1, <2>1, <4>1, <4>2, <4>3
    <3>3. /\ \A u \in joined : \E d \in Clients : Waits(d)' /\ Tid(d)' = u
          /\ \A d \in Clients : Waits(d)' => Tid(d)' \in joined /\ bearer'[Tid(d)'] # NULL
          /\ \A d, e \in Clients : Waits(d)' /\ Waits(e)' /\ Tid(d)' = Tid(e)' => d = e
      <4>1. /\ \A u \in joined : \E d \in Clients : Waits(d) /\ Tid(d) = u
            /\ \A d, e \in Clients : Waits(d) /\ Waits(e) /\ Tid(d) = Tid(e) => d = e
        BY DEF ThreadInv, JoinsOK
      <4>2. \A u \in joined : \E d \in Clients : Waits(d)' /\ Tid(d)' = u
        BY <3>1, <3>2, <4>1
      <4>3. \A d \in Clients : Waits(d)' => Tid(d)' \in joined /\ bearer'[Tid(d)'] # NULL
        BY <3>1, <3>2
      <4>4. \A d, e \in Clients : Waits(d)' /\ Waits(e)' /\ Tid(d)' = Tid(e)' => d = e
        BY <3>1, <3>2, <4>1
      <4> QED BY <4>2, <4>3, <4>4
    <3>4. \A q \in Players : q # p => (Sole(q)' <=> Sole(q))
      BY <1>5, <2>1 DEF Sole, Living
    <3>5. \A d \in Clients : call'[d].at = "stop_leave" => thread'[call'[d].para] \in {"exit", "ended"}
      BY <2>5 DEF ThreadInv, JoinsOK, Over, With
    <3>6. \A d \in Clients : call'[d].at = "exit_free" => ~ Sole(call[d].para)'
      <4> SUFFICES ASSUME NEW d \in Clients, call'[d].at = "exit_free" PROVE ~ Sole(call[d].para)'
        OBVIOUS
      <4>1. d # c /\ call'[d] = call[d] /\ call[d].para \in Players
        BY <2>5 DEF With
      <4>2. call[d].para # p /\ ~ Sole(call[d].para)
        BY <1>2, <4>1 DEF ThreadInv, JoinsOK
      <4>3. thread'[call[d].para] = thread[call[d].para] /\ secondhand \subseteq secondhand'
        BY <1>5, <2>1, <4>1, <4>2
      <4> QED BY <4>1, <4>2, <4>3 DEF Sole, Living
    <3>7. \A q \in Players : Sole(q)' => life'[q] = "allocated"
      BY <1>2, <1>3, <3>4 DEF ThreadInv, JoinsOK
    <3> QED BY <1>3, <3>3, <3>5, <3>6, <3>7 DEF JoinsOK, Over
  <2> QED BY <2>4, <2>7
<1> QED BY <1>4, <1>5 DEF StartCreate

(* A thread never turns back: what is over stays over. *)
LEMMA PlayingKeeps ==
  ASSUME ControlAssumption, ThreadInv, NEW p \in Players, Playing(p)
  PROVE  (ThreadsOK /\ JoinsOK)'
<1>1. /\ UNCHANGED <<priv_pid_data, handles, life, pthread_id, bearer, joined, secondhand, call>>
      /\ thread[p] \in {"init", "play", "over", "exit"}
      /\ thread'[p] \in {"play", "over", "exit", "ended"}
      /\ thread[p] = "exit" => thread'[p] = "ended"
      /\ \A q \in Players : q # p => thread'[q] = thread[q]
  BY DEF Playing, Ready, GetsOver, Exits, Ends, ThreadStep, pool, ThreadInv, PidInv, TypeOK
<1>2. /\ \A q \in Players : thread'[q] = "none" <=> thread[q] = "none"
      /\ \A q \in Players : thread[q] = "ended" => thread'[q] = "ended"
      /\ \A q \in Players : thread[q] \in {"exit", "ended"} => thread'[q] \in {"exit", "ended"}
      /\ \A q \in Players : Sole(q)' => Sole(q)
  BY <1>1 DEF Sole, Living
<1>3. /\ \A d \in Clients : call[d].at \in With => call[d].para \in Players
      /\ \A d \in Clients : call[d].op = "exit" => call[d].pid \in Pids
      /\ \A i \in handles : priv_pid_data[i] \in Players
  BY Where DEF ThreadInv, PidInv, Owners, CallsOK, PlayersOwned, Served, TypeOK
<1>4. \A d \in Clients : call[d].op = "exit" =>
        priv_pid_data[call[d].pid] # NULL /\ thread'[priv_pid_data[call[d].pid]] # "none"
  BY <1>2, <1>3 DEF ThreadInv, PidInv, TypeOK, ThreadsOK
<1>5. \A q \in Players : Living(q)' => Living(q)
  BY <1>1 DEF Living
<1>6. ThreadsOK'
  BY <1>1, <1>2, <1>3, <1>4, <1>5 DEF ThreadInv, ThreadsOK, Fresh, With
<1>7. JoinsOK'
  BY <1>1, <1>2, <1>3 DEF ThreadInv, JoinsOK, Over, Waits, Tid, With
<1> QED BY <1>6, <1>7

(* A join waits for a thread for which no other waits, or it fails. *)
LEMMA JoinKeeps ==
  ASSUME ControlAssumption, ThreadInv, NEW c \in Clients, StopJoin(c) \/ ExitJoin(c)
  PROVE  (ThreadsOK /\ JoinsOK)'
<1> DEFINE waits == IF call[c].at = "stop_join" THEN "stop_wait" ELSE "exit_wait"
           fails == IF call[c].at = "stop_join" THEN "stop_fail" ELSE "exit_free"
<1>1. /\ call[c].at \in {"stop_join", "exit_join"} /\ JoinBegins(c, Tid(c), waits, fails)
      /\ UNCHANGED <<priv_pid_data, handles, life, thread, pthread_id, bearer, secondhand>>
  BY DEF StopJoin, ExitJoin, JoinBegins, Tid, pool
<1>2. call[c].para \in Players /\ thread[call[c].para] # "none" /\ Tid(c) \in Tids
  BY <1>1, Joining
<1>3. CASE /\ Tid(c) = NULL \/ bearer[Tid(c)] = NULL \/ Tid(c) \in joined
           /\ Goto(c, fails) /\ UNCHANGED joined
  <2>1. Becomes(c, call[c].op, call[c].pid, call[c].para, fails) /\ fails \in Steps
    BY <1>3, TypeCall, GotoBecomes DEF Steps, StopSteps, ThreadInv, PidInv
  <2>2. fails = "exit_free" => ~ Sole(call[c].para)
    BY <1>1, <1>3, ExitJoinFails
  <2> QED BY <1>1, <1>2, <1>3, <2>1, <2>2, GoesOnQuietly DEF Quiet, Waits, Fresh
<1>4. CASE /\ bearer[Tid(c)] # NULL /\ Tid(c) \notin joined
           /\ Goto(c, waits) /\ joined' = joined \cup {Tid(c)}
  <2>1. Becomes(c, call[c].op, call[c].pid, call[c].para, waits)
    BY <1>4, TypeCall, GotoBecomes DEF Steps, StopSteps, ThreadInv, PidInv
  <2>2. /\ call'[c].para = call[c].para /\ call'[c].at = waits
        /\ \A d \in Clients : d # c => call'[d] = call[d]
    BY <2>1, BecomesFields
  <2>3. call[c].op = "exit" =>
          priv_pid_data'[call[c].pid] # NULL /\ thread[priv_pid_data'[call[c].pid]] # "none"
    BY <1>1 DEF ThreadInv, ThreadsOK
  <2>4. ThreadsOK'
    BY <1>1, <1>2, <2>1, <2>3, ThreadsKept DEF ThreadInv, PidInv, Fresh
  <2>5. JoinsOK'
    <3>1. \A t \in joined' : \E d \in Clients : Waits(d)' /\ Tid(d)' = t
      <4> SUFFICES ASSUME NEW t \in joined' PROVE \E d \in Clients : Waits(d)' /\ Tid(d)' = t
        OBVIOUS
      <4>1. CASE t = Tid(c)
        BY <1>1, <2>2, <4>1 DEF Waits, Tid
      <4>2. CASE t \in joined
        <5>1. PICK d \in Clients : Waits(d) /\ Tid(d) = t
          BY <4>2 DEF ThreadInv, JoinsOK
        <5>2. d # c
          BY <1>1, <5>1 DEF Waits
        <5> QED BY <1>1, <2>2, <5>1, <5>2 DEF Waits, Tid
      <4> QED BY <1>4, <4>1, <4>2
    <3>2. \A d \in Clients : Waits(d)' => Tid(d)' \in joined' /\ bearer'[Tid(d)'] # NULL
      BY <1>1, <1>4, <2>2 DEF ThreadInv, JoinsOK, Waits, Tid
    <3>3. \A d, e \in Clients : Waits(d)' /\ Waits(e)' /\ Tid(d)' = Tid(e)' => d = e
      <4>1. \A d \in Clients : d # c => (Waits(d)' <=> Waits(d)) /\ Tid(d)' = Tid(d)
        BY <1>1, <2>2 DEF Waits, Tid
      <4>2. \A d \in Clients : Waits(d) => Tid(d) # Tid(c)
        BY <1>4 DEF ThreadInv, JoinsOK
      <4>3. Tid(c)' = Tid(c)
        BY <1>1, <2>2 DEF Tid
      <4> QED BY <4>1, <4>2, <4>3 DEF ThreadInv, JoinsOK
    <3>4. /\ \A d \in Clients : call'[d].at = "stop_leave" => thread'[call'[d].para] \in {"exit", "ended"}
          /\ \A d \in Clients : call'[d].at = "exit_free" => ~ Sole(call'[d].para)
      BY <1>1, <2>2 DEF ThreadInv, JoinsOK, Over
    <3>5. \A q \in Players : Sole(q)' => life'[q] = "allocated"
      BY <1>1 DEF ThreadInv, JoinsOK, Living, Sole
    <3> QED BY <1>1, <3>1, <3>2, <3>3, <3>4, <3>5 DEF JoinsOK, Over, Sole, Living
  <2> QED BY <2>4, <2>5
<1> QED BY <1>1, <1>3, <1>4 DEF JoinBegins

(* A join that ends gives the id of its thread back; nobody else waits for it. *)
LEMMA JoinedKeeps ==
  ASSUME ControlAssumption, ThreadInv, NEW c \in Clients, StopJoined(c) \/ ExitJoined(c)
  PROVE  (ThreadsOK /\ JoinsOK)'
<1> DEFINE p == call[c].para
           goes == IF call[c].at = "stop_wait" THEN "stop_leave" ELSE "exit_free"
<1>1. /\ call[c].at \in {"stop_wait", "exit_wait"} /\ JoinEnds(Tid(c)) /\ Goto(c, goes)
      /\ UNCHANGED <<priv_pid_data, handles, life, thread, pthread_id, secondhand>>
  BY DEF StopJoined, ExitJoined, JoinEnds, Tid, pool
<1>2. /\ p \in Players /\ Tid(c) \in Tids /\ thread[bearer[Tid(c)]] = "ended"
      /\ thread[p] = "ended" /\ joined' = joined \ {Tid(c)}
      /\ \A t \in Tids : bearer'[t] = IF t = Tid(c) THEN NULL ELSE bearer[t]
  BY <1>1, Joining, JoinSucceeds DEF Waits, JoinEnds, ThreadInv, PidInv, TypeOK
<1>3. Becomes(c, call[c].op, call[c].pid, p, goes)
  BY <1>1, TypeCall, GotoBecomes DEF Steps, StopSteps, ThreadInv, PidInv
<1>4. /\ call'[c].op = call[c].op /\ call'[c].pid = call[c].pid
      /\ call'[c].para = p /\ call'[c].at = goes
      /\ \A d \in Clients : d # c => call'[d] = call[d]
  BY <1>3, BecomesFields
<1>5. \A d \in Clients : Waits(d) /\ d # c => Tid(d) \in Tids /\ Tid(d) # Tid(c)
  BY <1>1, Joining DEF ThreadInv, JoinsOK, Waits
<1>6. ThreadsOK'
  <2>1. \A q \in Players : Living(q) => bearer'[pthread_id[q]] = q
    <3> SUFFICES ASSUME NEW q \in Players, Living(q) PROVE bearer'[pthread_id[q]] = q
      OBVIOUS
    <3>1. /\ bearer[pthread_id[q]] = q /\ pthread_id[q] \in Tids
      BY DEF ThreadInv, PidInv, TypeOK, ThreadsOK, Living
    <3>2. pthread_id[q] # Tid(c)
      BY <1>2, <3>1 DEF Living
    <3> QED BY <1>2, <3>1, <3>2
  <2>2. \A t \in Tids : bearer'[t] # NULL => pthread_id[bearer'[t]] = t
    BY <1>2 DEF ThreadInv, ThreadsOK
  <2>3. /\ \A d \in Clients : call'[d].at \in Fresh => thread[call'[d].para] = "none"
        /\ \A d \in Clients : call'[d].at \in With \ Fresh => thread[call'[d].para] # "none"
    BY <1>2, <1>4 DEF ThreadInv, ThreadsOK, Fresh
  <2>4. \A d \in Clients : call'[d].op = call[d].op /\ call'[d].pid = call[d].pid
    BY <1>4
  <2> QED BY <1>1, <2>1, <2>2, <2>3, <2>4 DEF ThreadInv, ThreadsOK, Living, Sole
<1>7. JoinsOK'
  <2>1. \A t \in joined' : \E d \in Clients : Waits(d)' /\ Tid(d)' = t
    <3> SUFFICES ASSUME NEW t \in joined' PROVE \E d \in Clients : Waits(d)' /\ Tid(d)' = t
      OBVIOUS
    <3>1. PICK d \in Clients : Waits(d) /\ Tid(d) = t
      BY <1>2 DEF ThreadInv, JoinsOK
    <3>2. d # c
      BY <1>2, <3>1
    <3> QED BY <1>1, <1>4, <3>1, <3>2 DEF Waits, Tid
  <2>2. \A d \in Clients : Waits(d)' => d # c /\ Waits(d) /\ Tid(d)' = Tid(d)
    BY <1>1, <1>4 DEF Waits, Tid
  <2>3. /\ \A d \in Clients : Waits(d)' => Tid(d)' \in joined' /\ bearer'[Tid(d)'] # NULL
        /\ \A d, e \in Clients : Waits(d)' /\ Waits(e)' /\ Tid(d)' = Tid(e)' => d = e
    BY <1>2, <1>5, <2>2 DEF ThreadInv, JoinsOK
  <2>4. /\ \A d \in Clients : call'[d].at = "stop_leave" => thread'[call'[d].para] \in {"exit", "ended"}
        /\ \A d \in Clients : call'[d].at = "exit_free" => ~ Sole(call'[d].para)
    BY <1>1, <1>2, <1>4 DEF ThreadInv, JoinsOK, Over, Sole, Living
  <2>5. \A q \in Players : Sole(q)' => life'[q] = "allocated"
    BY <1>1 DEF ThreadInv, JoinsOK, Sole, Living
  <2> QED BY <1>1, <2>1, <2>3, <2>4, <2>5 DEF JoinsOK, Over, Sole, Living
<1> QED BY <1>6, <1>7
-----------------------------------------------------------------------------
(* Every step keeps the invariant of threads and joins. *)
LEMMA ThreadStepKeeps ==
  ASSUME ControlAssumption, ThreadInv, [Next]_vars
  PROVE  ThreadInv'
<1>1. PidInv'
  BY OwnersStep, TypeStep DEF ThreadInv, PidInv
<1>2. ASSUME NEW c \in Clients, Client(c) PROVE (ThreadsOK /\ JoinsOK)'
  <2>1. CASE Start(c)
    BY <2>1, PidQuiet, LifeQuiet, CreateKeeps DEF Start
  <2>2. CASE Begin(c) \/ Use(c)
    BY <2>2, BeginQuiet, UseQuiet
  <2>3. CASE Stop(c)
    BY <2>3, StopExitQuiet, JoinKeeps, JoinedKeeps DEF Stop
  <2>4. CASE Exit(c)
    BY <2>4, StopExitQuiet, JoinKeeps, JoinedKeeps, LifeQuiet, PidQuiet DEF Exit
  <2> QED BY <1>2, <2>1, <2>2, <2>3, <2>4 DEF Client
<1>3. ASSUME NEW p \in Players, Playing(p) PROVE (ThreadsOK /\ JoinsOK)'
  BY <1>3, PlayingKeeps
<1>4. CASE UNCHANGED vars
  <2>1. UNCHANGED <<priv_pid_data, handles, life, thread, pthread_id, bearer, joined,
                    secondhand, call>>
    BY <1>4 DEF vars, pool, threads
  <2>2. ThreadsOK'
    BY <2>1 DEF ThreadInv, ThreadsOK, Living, Sole
  <2>3. JoinsOK'
    BY <2>1 DEF ThreadInv, JoinsOK, Living, Sole, Over, Waits, Tid
  <2> QED BY <1>1, <2>2, <2>3 DEF ThreadInv
<1> QED BY <1>1, <1>2, <1>3, <1>4 DEF Next, ThreadInv

(* No two joins wait for one thread, a join that succeeds finds the thread of
   its player over, and player_exit frees a player whose thread has ended,
   unless that thread got its pthread_t second hand. *)
THEOREM ThreadInvariance == Spec => []ThreadInv
<1>1. Init => ThreadInv
  <2> SUFFICES ASSUME Init PROVE ThreadInv
    OBVIOUS
  <2>1. PidInv
    BY ControlAssumption, PidInvInit
  <2>2. /\ \A c \in Clients : call[c] = Idle
        /\ \A p \in Players : thread[p] = "none" /\ pthread_id[p] = NULL
        /\ \A t \in Tids : bearer[t] = NULL
        /\ joined = {} /\ handles = {}
    BY DEF Init
  <2>3. ThreadsOK
    BY <2>2 DEF ThreadsOK, Idle, With, Fresh, Living, Sole
  <2>4. JoinsOK
    BY <2>2 DEF JoinsOK, Idle, Waits, Living, Sole
  <2> QED BY <2>1, <2>3, <2>4 DEF ThreadInv
<1>2. ThreadInv /\ [Next]_vars => ThreadInv'
  BY ControlAssumption, ThreadStepKeeps
<1> QED BY <1>1, <1>2, PTL DEF Spec

(* No player thread works on a player that player_exit freed, however many
   clients call what and however often a pthread_t is used again, unless the
   thread got the pthread_t of a player that was joined but not yet exited. *)
THEOREM FreedIsUnused == Spec => []NoFreedAccess
<1>1. ThreadInv => NoFreedAccess
  BY DEF ThreadInv, JoinsOK, Sole, Living, NoFreedAccess
<1> QED BY <1>1, ThreadInvariance, PTL

(* player_stop is synchronous: a call that returns success, because it joined a
   thread or saw at once that there is nothing to stop, leaves the player
   exited; if it has no memory for the command, or its join fails, it says so. *)
THEOREM StopsAreSynchronous == Spec => StopIsSynchronous
<1>1. ThreadInv /\ [Next]_vars =>
        [\A c \in Clients : call[c].at = "stop_leave" /\ call'[c].at # "stop_leave" =>
           Over(call[c].para)]_vars
  BY DEF ThreadInv, JoinsOK
<1> QED BY <1>1, ThreadInvariance, PTL DEF Spec, StopIsSynchronous
=============================================================================
