---------------------------- MODULE MessagePool -----------------------------
(***************************************************************************)
(* The message pool of one player (amplayer/player/message.c): a ring of   *)
(* MESSAGE_MAX pointers to heap-allocated commands, shared by the threads  *)
(* that control the player (the clients) and the threads that execute its  *)
(* commands (the players: the player thread and its mate).                 *)
(*                                                                         *)
(* A step is one critical section of msg_mutex, or one malloc or free.     *)
(* The mutex is not held between the scan of send_message_update and the   *)
(* append that follows it, nor between taking a command and freeing it, so *)
(* those are separate steps.  A slot is not cleared when its command is    *)
(* taken: what stands outside the window of message_num slots is a stale   *)
(* pointer.                                                                *)
(***************************************************************************)
EXTENDS Integers, Sequences, FiniteSets

CONSTANTS
  MESSAGE_MAX,  \* slots of the ring
  Clients,      \* threads that send commands, and clear the pool to stop
  Players,      \* threads that take commands to execute them
  Cells,        \* addresses malloc can return for a player_cmd_t
  Kinds,        \* values of ctrl_cmd
  Args,         \* values of a command's parameters
  SEARCH,       \* CMD_SEARCH
  NULL

ASSUME PoolAssumption ==
  /\ MESSAGE_MAX \in Nat \ {0}
  /\ SEARCH \in Kinds
  /\ NULL \notin Cells
  /\ NULL \notin [kind : Kinds, arg : Args]

VARIABLES
  message_list,       \* the ring: slot -> command pointer
  message_num,
  message_in_index,
  message_out_index,
  mem,                \* heap: cell -> command it holds, NULL when free
  pc,                 \* where each thread is
  held                \* the command each thread works on, NULL for none

pool == <<message_list, message_num, message_in_index, message_out_index>>
vars == <<pool, mem, pc, held>>

Threads  == Clients \cup Players
Commands == [kind : Kinds, arg : Args]
Slots    == 0..(MESSAGE_MAX - 1)
Pcs      == {"idle", "update", "send", "free"}

(* Mutant: the index runs one too far before it wraps. *)
SuccOffByOne(i) == IF i = MESSAGE_MAX THEN 0 ELSE i + 1

Wrap(i) == i % MESSAGE_MAX
Succ(i) == Wrap(i + 1)

(* The i-th queued command stands in Slot(i); the oldest has i = 0. *)
Slot(i) == Wrap(message_out_index + i)
At(i)   == message_list[Slot(i)]
Queued  == {At(i) : i \in 0..(message_num - 1)}
Live    == {c \in Cells : mem[c] # NULL}

TypeOK ==
  /\ message_list \in [Slots -> Cells \cup {NULL}]
  /\ message_num \in 0..MESSAGE_MAX
  /\ message_in_index \in Slots
  /\ message_out_index \in Slots
  /\ mem \in [Cells -> Commands \cup {NULL}]
  /\ pc \in [Threads -> Pcs]
  /\ held \in [Threads -> Cells \cup {NULL}]

Init ==
  /\ message_list = [s \in Slots |-> NULL]
  /\ message_num = 0
  /\ message_in_index = 0
  /\ message_out_index = 0
  /\ mem = [c \in Cells |-> NULL]
  /\ pc = [t \in Threads |-> "idle"]
  /\ held = [t \in Threads |-> NULL]
-----------------------------------------------------------------------------
Goto(t, at) == pc' = [pc EXCEPT ![t] = at]

(* player_send_message: message_alloc and the copy of the caller's command.
   Where send_message_by_pid goes next depends on the command.  No free cell
   is a failed malloc: the call returns PLAYER_NOMEM and nothing changes. *)
Allocate(t) ==
  /\ pc[t] = "idle"
  /\ \E c \in Cells \ Live, cmd \in Commands :
       /\ mem' = [mem EXCEPT ![c] = cmd]
       /\ held' = [held EXCEPT ![t] = c]
       /\ Goto(t, IF cmd.kind = SEARCH THEN "update" ELSE "send")
  /\ UNCHANGED pool

(* Mutants: the scan runs over the whole ring, or starts at the second. *)
SameKindInRing(t) ==
  {i \in 0..(MESSAGE_MAX - 1) :
     /\ At(i) # NULL /\ mem[At(i)] # NULL
     /\ mem[At(i)].kind = mem[held[t]].kind}
SameKindButOldest(t) ==
  {i \in 1..(message_num - 1) :
     At(i) # NULL /\ mem[At(i)].kind = mem[held[t]].kind}

(* The positions of the queued commands of the same kind as thread t's. *)
SameKind(t) ==
  {i \in 0..(message_num - 1) :
     At(i) # NULL /\ mem[At(i)].kind = mem[held[t]].kind}

(* Mutant: the newest command of the same kind is overwritten. *)
UpdateHitNewest(t) ==
  /\ pc[t] = "update"
  /\ \E i \in SameKind(t) :
       /\ \A j \in SameKind(t) : i >= j
       /\ mem' = [mem EXCEPT ![At(i)] = mem[held[t]]]
  /\ Goto(t, "free")
  /\ UNCHANGED <<pool, held>>

(* send_message_update, under the mutex: the first queued command of the
   same kind is overwritten in place; *)
UpdateHit(t) ==
  /\ pc[t] = "update"
  /\ \E i \in SameKind(t) :
       /\ \A j \in SameKind(t) : i <= j
       /\ mem' = [mem EXCEPT ![At(i)] = mem[held[t]]]
  /\ Goto(t, "free")
  /\ UNCHANGED <<pool, held>>

(* with none, the mutex is released and send_message is called. *)
UpdateMiss(t) ==
  /\ pc[t] = "update"
  /\ SameKind(t) = {}
  /\ Goto(t, "send")
  /\ UNCHANGED <<pool, mem, held>>

(* send_message with a free slot. *)
SendRoom(t) ==
  /\ pc[t] = "send"
  /\ message_num < MESSAGE_MAX
  /\ message_list' = [message_list EXCEPT ![message_in_index] = held[t]]
  /\ message_in_index' = Succ(message_in_index)
  /\ message_num' = message_num + 1
  /\ held' = [held EXCEPT ![t] = NULL]
  /\ Goto(t, "idle")
  /\ UNCHANGED <<message_out_index, mem>>

(* Mutants: the oldest command is overwritten without message_out_index
   moving on, or without being freed. *)
SendFullStuckOut(t) ==
  /\ pc[t] = "send"
  /\ message_num >= MESSAGE_MAX
  /\ mem' = [mem EXCEPT ![message_list[message_in_index]] = NULL]
  /\ message_list' = [message_list EXCEPT ![message_in_index] = held[t]]
  /\ message_in_index' = Succ(message_in_index)
  /\ held' = [held EXCEPT ![t] = NULL]
  /\ Goto(t, "idle")
  /\ UNCHANGED <<message_num, message_out_index>>
SendFullLeaks(t) ==
  /\ pc[t] = "send"
  /\ message_num >= MESSAGE_MAX
  /\ message_out_index' = Succ(message_out_index)
  /\ message_list' = [message_list EXCEPT ![message_in_index] = held[t]]
  /\ message_in_index' = Succ(message_in_index)
  /\ held' = [held EXCEPT ![t] = NULL]
  /\ Goto(t, "idle")
  /\ UNCHANGED <<message_num, mem>>

(* send_message with every slot in use: the oldest command is freed and its
   slot, which is the one message_in_index names, is taken over. *)
SendFull(t) ==
  /\ pc[t] = "send"
  /\ message_num >= MESSAGE_MAX
  /\ mem' = [mem EXCEPT ![message_list[message_in_index]] = NULL]
  /\ message_out_index' = Succ(message_out_index)
  /\ message_list' = [message_list EXCEPT ![message_in_index] = held[t]]
  /\ message_in_index' = Succ(message_in_index)
  /\ held' = [held EXCEPT ![t] = NULL]
  /\ Goto(t, "idle")
  /\ UNCHANGED message_num

(* Mutant: the last command left is not seen. *)
GetButLast(t) ==
  /\ pc[t] = "idle"
  /\ message_num > 1
  /\ held' = [held EXCEPT ![t] = message_list[message_out_index]]
  /\ message_out_index' = Succ(message_out_index)
  /\ message_num' = message_num - 1
  /\ Goto(t, "free")
  /\ UNCHANGED <<message_list, message_in_index, mem>>

(* get_message: by a player, or by a client in clear_all_message. *)
Get(t) ==
  /\ pc[t] = "idle"
  /\ message_num > 0
  /\ held' = [held EXCEPT ![t] = message_list[message_out_index]]
  /\ message_out_index' = Succ(message_out_index)
  /\ message_num' = message_num - 1
  /\ Goto(t, "free")
  /\ UNCHANGED <<message_list, message_in_index, mem>>

(* message_free, of a command executed, cleared or merged into another. *)
Free(t) ==
  /\ pc[t] = "free"
  /\ mem' = [mem EXCEPT ![held[t]] = NULL]
  /\ held' = [held EXCEPT ![t] = NULL]
  /\ Goto(t, "idle")
  /\ UNCHANGED pool

Send(t)   == Allocate(t) \/ UpdateHit(t) \/ UpdateMiss(t) \/ SendRoom(t) \/ SendFull(t)
Player(t) == Get(t) \/ Free(t)

Next == (\E t \in Clients : Send(t)) \/ (\E t \in Threads : Player(t))

Spec == Init /\ [][Next]_vars

(* The player thread polls the pool for as long as it plays, and frees each
   command it takes. *)
FairSpec == Spec /\ \A t \in Players : WF_vars(Player(t))
-----------------------------------------------------------------------------
(* The two indices and the count agree: send_message, which finds its slot
   with message_in_index, and get_message, which uses message_out_index,
   never meet in the wrong slot. *)
RingOK == message_in_index = Slot(message_num)

Busy == {t \in Threads : pc[t] # "idle"}

(* Every command has exactly one owner: it is queued once, or it is in the
   hands of one thread; and only free cells have none.  So no command is
   freed twice, used after its free, or leaked, whatever the interleaving of
   senders, takers and clearers. *)
OneOwner ==
  /\ \A i, j \in 0..(message_num - 1) :
       At(i) = At(j) => i = j
  /\ \A t, u \in Busy : held[t] = held[u] => t = u
  /\ \A t \in Busy : held[t] \in Live \ Queued
  /\ Queued \subseteq Live
  /\ Live \subseteq Queued \cup {held[t] : t \in Busy}

(* A command that a thread executes is not rewritten under it by the update
   of send_message_update, which follows pointers found in the ring: it only
   changes by being freed by its owner. *)
HeldIsStable ==
  [][\A t \in Threads : pc[t] # "idle" /\ held'[t] = held[t] /\ pc'[t] # "idle"
       => mem'[held[t]] = mem[held[t]]]_vars

(* Searches do not pile up: a search waits in the queue only if it was the
   update of none, which two senders find at once only in the gap between
   scan and append.  Searches queued and on their way never outnumber the
   clients; with a single client at most one is queued. *)
SearchesQueued ==
  {i \in 0..(message_num - 1) : mem[At(i)].kind = SEARCH}
SearchesToAppend ==
  {t \in Clients : pc[t] = "send" /\ mem[held[t]].kind = SEARCH}
SearchesBounded ==
  Cardinality(SearchesQueued) + Cardinality(SearchesToAppend)
    <= Cardinality(Clients)

(* No command waits for ever: every command that is queued is taken, dropped
   by a full pool, or cleared.  *)
QueuedLeaves == \A c \in Cells : (c \in Queued) ~> (c \notin Queued)

(* The pool is the bounded queue of CommandQueue. *)
Abstraction == [i \in 1..message_num |-> mem[At(i - 1)]]

Queue == INSTANCE CommandQueue WITH QueueMax <- MESSAGE_MAX, queue <- Abstraction

(* Clients and players see a queue: commands are taken in the order they were
   sent, only the oldest is ever dropped and only when MESSAGE_MAX newer ones
   exist, and an update replaces one search by another in its place. *)
ImplementsQueue == Queue!Spec
=============================================================================
