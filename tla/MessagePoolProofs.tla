-------------------------- MODULE MessagePoolProofs -------------------------
(***************************************************************************)
(* Proofs about MessagePool, for every ring size, set of threads and heap. *)
(***************************************************************************)
EXTENDS MessagePool, SequenceTheorems, FiniteSetTheorems, TLAPS

(* Remainders as the ring uses them: the operand is less than two sizes. *)
LEMMA RingArithmetic ==
  ASSUME NEW n \in Nat \ {0}, NEW x \in 0..(2 * n - 1)
  PROVE  x % n = IF x < n THEN x ELSE x - n
<1>1. x = n * (x \div n) + (x % n) /\ x % n \in 0..(n - 1) /\ x \div n \in Int
  OBVIOUS
<1> DEFINE q == x \div n
<1>2. q >= 0
  <2>1. CASE q <= -1
    <3>1. n * q <= n * (-1)
      BY <2>1, <1>1
    <3> QED BY <3>1, <1>1
  <2> QED BY <2>1, <1>1
<1>3. q <= 1
  <2>1. CASE q >= 2
    <3>1. n * q >= n * 2
      BY <2>1, <1>1
    <3> QED BY <3>1, <1>1
  <2> QED BY <2>1, <1>1
<1>4. CASE q = 0
  BY <1>4, <1>1
<1>5. CASE q = 1
  BY <1>5, <1>1
<1> QED BY <1>1, <1>2, <1>3, <1>4, <1>5

(* Append and Tail, element by element. *)
LEMMA AppendAsFunction ==
  ASSUME NEW S, NEW s \in Seq(S), NEW e \in S, NEW f, NEW n \in Nat, Len(s) + 1 = n,
         f \in [1..n -> S], \A k \in 1..n : f[k] = IF k = n THEN e ELSE s[k]
  PROVE  f = Append(s, e)
<1>1. Len(s) \in Nat /\ s \in [1..Len(s) -> S]
  BY LenProperties
<1>2. f \in Seq(S) /\ Len(f) = n
  OBVIOUS
<1>3. \A k \in 1..n : f[k] = Append(s, e)[k]
  BY <1>1, AppendProperties
<1>4. Append(s, e) \in Seq(S) /\ Len(Append(s, e)) = n
  BY AppendProperties
<1> QED BY <1>2, <1>3, <1>4, SeqEqual

(* What Tail returns, as a function. *)
LEMMA TailAsFunction ==
  ASSUME NEW S, NEW s \in Seq(S), s # << >>
  PROVE  Tail(s) = [k \in 1..(Len(s) - 1) |-> s[k + 1]]
<1> DEFINE f == [k \in 1..(Len(s) - 1) |-> s[k + 1]]
<1>1. Len(s) \in Nat \ {0} /\ s \in [1..Len(s) -> S]
  BY LenProperties
<1>2. f \in [1..(Len(s) - 1) -> S]
  BY <1>1
<1>3. f \in Seq(S) /\ Len(f) = Len(s) - 1
  BY <1>1, <1>2
<1>4. /\ Tail(s) \in Seq(S) /\ Len(Tail(s)) = Len(s) - 1
      /\ \A i \in 1..Len(Tail(s)) : Tail(s)[i] = s[i + 1]
  BY HeadTailProperties
<1>5. \A k \in 1..(Len(s) - 1) : f[k] = Tail(s)[k]
  BY <1>1, <1>4
<1> HIDE DEF f
<1>6. f = Tail(s)
  BY <1>3, <1>4, <1>5, SeqEqual
<1> QED BY <1>6 DEF f

(* Wrap without the remainder, below twice the size of the ring. *)
LEMMA WrapValue ==
  ASSUME PoolAssumption
  PROVE  \A x \in 0..(2 * MESSAGE_MAX - 1) :
           Wrap(x) = IF x < MESSAGE_MAX THEN x ELSE x - MESSAGE_MAX
<1>1. MESSAGE_MAX \in Nat \ {0}
  BY DEF PoolAssumption
<1> QED BY <1>1, RingArithmetic, Zenon DEF Wrap

(* What Slot returns, without the remainder. *)
LEMMA SlotValue ==
  ASSUME PoolAssumption, TypeOK, NEW i \in 0..MESSAGE_MAX
  PROVE  Slot(i) = IF message_out_index + i < MESSAGE_MAX
                   THEN message_out_index + i
                   ELSE message_out_index + i - MESSAGE_MAX
<1>1. /\ message_out_index + i \in 0..(2 * MESSAGE_MAX - 1)
      /\ MESSAGE_MAX \in Nat \ {0} /\ message_out_index \in Nat /\ i \in Nat
  BY DEF PoolAssumption, TypeOK, Slots
<1> QED BY <1>1, WrapValue DEF Slot

(* Slot numbers the cells of the ring, each once. *)
LEMMA SlotFacts ==
  ASSUME PoolAssumption, TypeOK
  PROVE  /\ \A i \in 0..MESSAGE_MAX : Slot(i) \in Slots
         /\ \A i, j \in 0..(MESSAGE_MAX - 1) : Slot(i) = Slot(j) => i = j
         /\ Slot(0) = message_out_index
         /\ Slot(MESSAGE_MAX) = message_out_index
         /\ \A i \in Slots : Succ(i) \in Slots
<1>1. /\ MESSAGE_MAX \in Nat \ {0}
      /\ message_out_index \in 0..(MESSAGE_MAX - 1)
  BY DEF PoolAssumption, TypeOK, Slots
<1>2. \A i \in 0..MESSAGE_MAX :
        Slot(i) = IF message_out_index + i < MESSAGE_MAX
                  THEN message_out_index + i
                  ELSE message_out_index + i - MESSAGE_MAX
  BY SlotValue
<1>3. \A i \in Slots : Succ(i) \in Slots
  BY <1>1, WrapValue DEF Succ, Slots
<1> QED BY <1>1, <1>2, <1>3 DEF Slots

(* The slot after the i-th is the (i+1)-th. *)
LEMMA SlotSucc ==
  ASSUME PoolAssumption, TypeOK
  PROVE  \A i \in 0..(MESSAGE_MAX - 1) : Succ(Slot(i)) = Slot(i + 1)
<1>1. MESSAGE_MAX \in Nat \ {0} /\ message_out_index \in 0..(MESSAGE_MAX - 1)
  BY DEF PoolAssumption, TypeOK, Slots
<1> TAKE i \in 0..(MESSAGE_MAX - 1)
<1>2. \A j \in 0..MESSAGE_MAX :
        Slot(j) = IF message_out_index + j < MESSAGE_MAX
                  THEN message_out_index + j
                  ELSE message_out_index + j - MESSAGE_MAX
  BY SlotValue
<1>3. Slot(i) + 1 \in 0..(2 * MESSAGE_MAX - 1) /\ Slot(i) \in Nat
  BY <1>1, <1>2
<1>4. Succ(Slot(i)) = IF Slot(i) + 1 < MESSAGE_MAX
                      THEN Slot(i) + 1 ELSE Slot(i) + 1 - MESSAGE_MAX
  BY <1>1, <1>3, WrapValue DEF Succ
<1> QED BY <1>1, <1>2, <1>4

(* Moving message_out_index on by one renumbers the window. *)
LEMMA SlotShift ==
  ASSUME PoolAssumption, TypeOK, message_out_index' = Succ(message_out_index)
  PROVE  \A i \in 0..(MESSAGE_MAX - 1) : Slot(i)' = Slot(i + 1)
<1>1. MESSAGE_MAX \in Nat \ {0} /\ message_out_index \in 0..(MESSAGE_MAX - 1)
  BY DEF PoolAssumption, TypeOK, Slots
<1>2. message_out_index' = IF message_out_index + 1 < MESSAGE_MAX
                           THEN message_out_index + 1 ELSE 0
  BY <1>1, WrapValue DEF Succ
<1> TAKE i \in 0..(MESSAGE_MAX - 1)
<1>3. Slot(i + 1) = IF message_out_index + i + 1 < MESSAGE_MAX
                    THEN message_out_index + i + 1
                    ELSE message_out_index + i + 1 - MESSAGE_MAX
  <2>1. i + 1 \in 0..MESSAGE_MAX
    BY <1>1
  <2> QED BY <2>1, <1>1, SlotValue
<1>4. Slot(i)' = Wrap(message_out_index' + i)
  BY DEF Slot, Wrap
<1>5. message_out_index' + i \in 0..(2 * MESSAGE_MAX - 1)
  BY <1>1, <1>2
<1> QED BY <1>1, <1>2, <1>3, <1>4, <1>5, WrapValue

-----------------------------------------------------------------------------
IInv == TypeOK /\ RingOK /\ OneOwner

(* The command that a thread holds is allocated, and not in the ring. *)
LEMMA HeldCell ==
  ASSUME PoolAssumption, IInv, NEW t \in Threads, pc[t] # "idle"
  PROVE  held[t] \in Cells /\ held[t] \notin Queued /\ mem[held[t]] \in Commands
BY DEF PoolAssumption, IInv, TypeOK, OneOwner, Live, Busy, Commands

(* The commands of the window are allocated, and in the ring. *)
LEMMA QueuedCell ==
  ASSUME PoolAssumption, IInv, NEW i \in 0..(message_num - 1)
  PROVE  At(i) \in Cells /\ At(i) \in Queued /\ mem[At(i)] \in Commands
BY DEF PoolAssumption, IInv, TypeOK, OneOwner, Live, Queued, Commands

(* What each action on the ring does to the window of queued commands. *)
LEMMA WindowAfterSendRoom ==
  ASSUME PoolAssumption, IInv, NEW t \in Threads, SendRoom(t)
  PROVE  /\ TypeOK' /\ RingOK'
         /\ message_num' = message_num + 1
         /\ \A i \in 0..message_num :
              At(i)' = IF i = message_num THEN held[t] ELSE At(i)
<1> USE DEF SendRoom, Goto
<1>1. /\ MESSAGE_MAX \in Nat \ {0} /\ message_num \in 0..(MESSAGE_MAX - 1)
      /\ message_in_index = Slot(message_num) /\ message_in_index \in Slots
      /\ message_list \in [Slots -> Cells \cup {NULL}]
  BY DEF PoolAssumption, IInv, TypeOK, RingOK
<1>2. \A i : Slot(i)' = Slot(i)
  BY DEF Slot, Wrap
<1>3. TypeOK'
  BY <1>1, SlotFacts, HeldCell DEF IInv, TypeOK, Pcs
<1>4. RingOK'
  <2>1. (Slot(message_num))' = Slot(message_num')
    BY DEF Slot, Wrap
  <2>2. Slot(message_num') = Succ(Slot(message_num))
    BY <1>1, SlotSucc DEF IInv
  <2> QED BY <1>1, <2>1, <2>2 DEF RingOK
<1>5. ASSUME NEW i \in 0..message_num
      PROVE  At(i)' = IF i = message_num THEN held[t] ELSE At(i)
  <2>1. Slot(i) \in Slots /\ (Slot(i) = Slot(message_num) => i = message_num)
    BY <1>1, SlotFacts DEF IInv
  <2>2. message_list' = [message_list EXCEPT ![Slot(message_num)] = held[t]]
    BY <1>1
  <2> QED BY <2>1, <2>2, <1>1, <1>2 DEF At
<1> QED BY <1>1, <1>3, <1>4, <1>5

(* The window of the ring when the oldest command is dropped for a new one. *)
LEMMA WindowAfterSendFull ==
  ASSUME PoolAssumption, IInv, NEW t \in Threads, SendFull(t)
  PROVE  /\ TypeOK' /\ RingOK'
         /\ message_num = MESSAGE_MAX /\ message_num' = MESSAGE_MAX
         /\ message_list[message_in_index] = At(0)
         /\ \A i \in 0..(MESSAGE_MAX - 1) :
              At(i)' = IF i = MESSAGE_MAX - 1 THEN held[t] ELSE At(i + 1)
<1> USE DEF SendFull, Goto
<1>1. /\ MESSAGE_MAX \in Nat \ {0} /\ message_num = MESSAGE_MAX
      /\ message_in_index = message_out_index /\ message_in_index \in Slots
      /\ message_list \in [Slots -> Cells \cup {NULL}]
      /\ Slot(0) = message_out_index
  BY SlotFacts DEF PoolAssumption, IInv, TypeOK, RingOK
<1>2. \A i \in 0..(MESSAGE_MAX - 1) : Slot(i)' = Slot(i + 1)
  BY SlotShift DEF IInv
<1>3. TypeOK'
  BY <1>1, SlotFacts, HeldCell DEF IInv, TypeOK, Pcs
<1>4. RingOK'
  <2>1. /\ message_out_index' + MESSAGE_MAX \in 0..(2 * MESSAGE_MAX - 1)
        /\ message_out_index' \in 0..(MESSAGE_MAX - 1)
    BY <1>1, <1>3 DEF TypeOK, Slots
  <2>2. Wrap(message_out_index' + MESSAGE_MAX) = message_out_index'
    BY <1>1, <2>1, WrapValue
  <2>3. (Slot(message_num))' = Wrap(message_out_index' + MESSAGE_MAX)
    BY <1>1 DEF Slot, Wrap
  <2> QED BY <1>1, <2>2, <2>3 DEF RingOK
<1>5. message_list[message_in_index] = At(0)
  BY <1>1 DEF At
<1>6. ASSUME NEW i \in 0..(MESSAGE_MAX - 1)
      PROVE  At(i)' = IF i = MESSAGE_MAX - 1 THEN held[t] ELSE At(i + 1)
  <2>1. /\ Slot(i + 1) \in Slots /\ i + 1 \in 0..MESSAGE_MAX
        /\ Slot(MESSAGE_MAX) = message_out_index
    BY <1>1, SlotFacts DEF IInv
  <2>2. i # MESSAGE_MAX - 1 => Slot(i + 1) # message_out_index
    <3>1. i # MESSAGE_MAX - 1 => i + 1 \in 0..(MESSAGE_MAX - 1) /\ i + 1 # 0
      BY <1>1
    <3>2. 0 \in 0..(MESSAGE_MAX - 1)
      BY <1>1
    <3> QED BY <3>1, <3>2, <1>1, SlotFacts DEF IInv
  <2>3. message_list' = [message_list EXCEPT ![message_out_index] = held[t]]
    BY <1>1
  <2>4. Slot(i)' = Slot(i + 1)
    BY <1>2
  <2>5. CASE i = MESSAGE_MAX - 1
    <3>1. Slot(i + 1) = message_out_index
      BY <2>5, <2>1, <1>1
    <3> QED BY <2>5, <2>3, <2>4, <3>1, <1>1 DEF At
  <2>6. CASE i # MESSAGE_MAX - 1
    BY <2>1, <2>2, <2>3, <2>4, <2>6, <1>1 DEF At
  <2> QED BY <2>5, <2>6
<1> QED BY <1>1, <1>3, <1>4, <1>5, <1>6

(* The window of the ring when the oldest command is taken. *)
LEMMA WindowAfterGet ==
  ASSUME PoolAssumption, IInv, NEW t \in Threads, Get(t)
  PROVE  /\ TypeOK' /\ RingOK'
         /\ message_num \in 1..MESSAGE_MAX /\ message_num' = message_num - 1
         /\ held' = [held EXCEPT ![t] = At(0)]
         /\ \A i \in 0..(message_num - 2) : At(i)' = At(i + 1)
<1> USE DEF Get, Goto
<1>1. /\ MESSAGE_MAX \in Nat \ {0} /\ message_num \in 1..MESSAGE_MAX
      /\ message_in_index = Slot(message_num)
      /\ Slot(0) = message_out_index /\ message_out_index \in Slots
  BY SlotFacts DEF PoolAssumption, IInv, TypeOK, RingOK
<1>2. \A i \in 0..(MESSAGE_MAX - 1) : Slot(i)' = Slot(i + 1)
  BY SlotShift DEF IInv
<1>3. TypeOK'
  BY <1>1, SlotFacts DEF IInv, TypeOK, Pcs
<1>4. RingOK'
  <2>1. /\ message_num - 1 \in 0..(MESSAGE_MAX - 1)
        /\ message_num - 1 + 1 = message_num
    BY <1>1
  <2>2. \A n \in 0..(MESSAGE_MAX - 1) : n = message_num' => (Slot(message_num))' = Slot(n)'
    BY DEF Slot, Wrap
  <2>3. (Slot(message_num))' = Slot(message_num - 1 + 1)
    BY <1>2, <2>1, <2>2
  <2> QED BY <1>1, <2>1, <2>3 DEF RingOK
<1>5. \A i \in 0..(message_num - 2) : At(i)' = At(i + 1)
  BY <1>1, <1>2 DEF At
<1> QED BY <1>1, <1>3, <1>4, <1>5 DEF At

(* The window depends on the indices and the count only. *)
LEMMA WindowUnchanged ==
  ASSUME PoolAssumption, TypeOK, UNCHANGED pool
  PROVE  /\ \A i : At(i)' = At(i)
         /\ Queued' = Queued
         /\ RingOK' <=> RingOK
BY DEF pool, At, Slot, Wrap, Queued, RingOK

-----------------------------------------------------------------------------
(* The owners of the commands after each action. *)
LEMMA OwnersAfterAllocate ==
  ASSUME PoolAssumption, IInv, NEW t \in Clients, Allocate(t)
  PROVE  IInv'
<1> USE DEF Threads
<1>1. PICK c \in Cells \ Live, cmd \in Commands :
        /\ mem' = [mem EXCEPT ![c] = cmd]
        /\ held' = [held EXCEPT ![t] = c]
        /\ Goto(t, IF cmd.kind = SEARCH THEN "update" ELSE "send")
  BY DEF Allocate
<1>2. UNCHANGED pool /\ pc[t] = "idle"
  BY DEF Allocate
<1>3. TypeOK'
  BY <1>1, <1>2 DEF IInv, TypeOK, pool, Goto, Pcs
<1>4. Live' = Live \cup {c}
  BY <1>1, <1>3 DEF Live, IInv, TypeOK, PoolAssumption, Commands
<1>5. Busy' = Busy \cup {t} /\ t \notin Busy
  BY <1>1, <1>2 DEF Busy, Goto, IInv, TypeOK
<1>6. \A u \in Busy' : held'[u] = IF u = t THEN c ELSE held[u]
  BY <1>1 DEF IInv, TypeOK, Busy
<1>7. Queued' = Queued /\ RingOK' /\ \A i : At(i)' = At(i)
  BY <1>2, WindowUnchanged DEF IInv
<1>8. c \notin Live /\ c \notin Queued
  BY <1>1 DEF IInv, OneOwner
<1>9. OneOwner'
  <2>1. \A i, j \in 0..(message_num' - 1) : At(i)' = At(j)' => i = j
    BY <1>2, <1>7 DEF IInv, OneOwner, pool
  <2>2. \A u, v \in Busy' : held'[u] = held'[v] => u = v
    BY <1>5, <1>6, <1>8 DEF IInv, OneOwner
  <2>3. \A u \in Busy' : held'[u] \in Live' \ Queued'
    BY <1>4, <1>5, <1>6, <1>7, <1>8 DEF IInv, OneOwner
  <2>4. Queued' \subseteq Live'
    BY <1>4, <1>7 DEF IInv, OneOwner
  <2>5. Live' \subseteq Queued' \cup {held'[u] : u \in Busy'}
    BY <1>4, <1>5, <1>6, <1>7 DEF IInv, OneOwner
  <2> QED BY <2>1, <2>2, <2>3, <2>4, <2>5 DEF OneOwner
<1> QED BY <1>3, <1>7, <1>9 DEF IInv

(* A queued search that is updated in place keeps all owners. *)
LEMMA OwnersAfterUpdateHit ==
  ASSUME PoolAssumption, IInv, NEW t \in Clients, UpdateHit(t)
  PROVE  IInv'
<1> USE DEF Threads
<1>1. PICK i \in SameKind(t) : mem' = [mem EXCEPT ![At(i)] = mem[held[t]]]
  BY DEF UpdateHit
<1>2. UNCHANGED <<pool, held>> /\ pc[t] = "update" /\ Goto(t, "free")
  BY DEF UpdateHit
<1>3. mem[held[t]] \in Commands
  BY <1>2, HeldCell
<1>4. At(i) \in Live /\ At(i) \in Cells
  BY <1>1, QueuedCell DEF SameKind, Live, PoolAssumption, Commands
<1>5. TypeOK'
  BY <1>1, <1>2, <1>3 DEF IInv, TypeOK, pool, Goto, Pcs
<1>6. Live' = Live
  BY <1>1, <1>3, <1>4, <1>5 DEF Live, IInv, TypeOK, PoolAssumption, Commands
<1>7. Busy' = Busy
  BY <1>2 DEF Busy, Goto, IInv, TypeOK
<1>8. Queued' = Queued /\ RingOK' /\ \A k : At(k)' = At(k)
  BY <1>2, WindowUnchanged DEF IInv
<1>9. OneOwner'
  BY <1>2, <1>6, <1>7, <1>8 DEF IInv, OneOwner, pool
<1> QED BY <1>5, <1>8, <1>9 DEF IInv

(* A search that finds no queued one keeps all owners. *)
LEMMA OwnersAfterUpdateMiss ==
  ASSUME PoolAssumption, IInv, NEW t \in Clients, UpdateMiss(t)
  PROVE  IInv'
<1>1. UNCHANGED <<pool, mem, held>> /\ pc[t] = "update" /\ Goto(t, "send")
  BY DEF UpdateMiss
<1>2. TypeOK'
  BY <1>1 DEF IInv, TypeOK, pool, Goto, Pcs
<1>3. Live' = Live /\ Busy' = Busy
  BY <1>1 DEF Live, Busy, Goto, IInv, TypeOK, Threads
<1>4. Queued' = Queued /\ RingOK' /\ \A k : At(k)' = At(k)
  BY <1>1, WindowUnchanged DEF IInv
<1>5. OneOwner'
  BY <1>1, <1>3, <1>4 DEF IInv, OneOwner, pool
<1> QED BY <1>2, <1>4, <1>5 DEF IInv

(* A command that is sent to a ring with room passes to the ring. *)
LEMMA OwnersAfterSendRoom ==
  ASSUME PoolAssumption, IInv, NEW t \in Clients, SendRoom(t)
  PROVE  IInv'
<1> USE DEF Threads
<1>1. /\ TypeOK' /\ RingOK' /\ message_num' = message_num + 1
      /\ message_num \in Nat
      /\ \A i \in 0..message_num :
           At(i)' = IF i = message_num THEN held[t] ELSE At(i)
  BY WindowAfterSendRoom DEF IInv, TypeOK
<1>2. /\ held' = [held EXCEPT ![t] = NULL] /\ pc[t] = "send"
      /\ Goto(t, "idle") /\ mem' = mem
  BY DEF SendRoom
<1>3. Live' = Live
  BY <1>2 DEF Live
<1>4. Busy' = Busy \ {t} /\ t \in Busy
  BY <1>2 DEF Busy, Goto, IInv, TypeOK
<1>5. \A u \in Busy' : held'[u] = held[u]
  BY <1>2, <1>4 DEF IInv, TypeOK, Busy
<1>6. Queued' = Queued \cup {held[t]}
  <2>1. Queued' = {At(i)' : i \in 0..message_num}
    BY <1>1 DEF Queued
  <2>2. 0..message_num = (0..(message_num - 1)) \cup {message_num}
    BY <1>1
  <2> QED BY <1>1, <2>1, <2>2 DEF Queued
<1>7. held[t] \notin Queued /\ held[t] \in Live
  BY <1>4 DEF IInv, OneOwner
<1>8. OneOwner'
  <2>1. ASSUME NEW i \in 0..message_num, NEW j \in 0..message_num, At(i)' = At(j)'
        PROVE  i = j
    <3>1. \A k \in 0..(message_num - 1) : At(k) \in Queued
      BY DEF Queued
    <3>2. \A k \in 0..message_num : k # message_num => k \in 0..(message_num - 1)
      BY <1>1
    <3> QED BY <2>1, <3>1, <3>2, <1>1, <1>7 DEF IInv, OneOwner
  <2>2. \A i, j \in 0..(message_num' - 1) : At(i)' = At(j)' => i = j
    BY <1>1, <2>1
  <2>3. \A u, v \in Busy' : held'[u] = held'[v] => u = v
    BY <1>4, <1>5 DEF IInv, OneOwner
  <2>4. \A u \in Busy' : held'[u] \in Live' \ Queued'
    BY <1>3, <1>4, <1>5, <1>6 DEF IInv, OneOwner
  <2>5. Queued' \subseteq Live'
    BY <1>3, <1>6, <1>7 DEF IInv, OneOwner
  <2>6. Live' \subseteq Queued' \cup {held'[u] : u \in Busy'}
    BY <1>3, <1>4, <1>5, <1>6 DEF IInv, OneOwner
  <2> QED BY <2>2, <2>3, <2>4, <2>5, <2>6 DEF OneOwner
<1> QED BY <1>1, <1>8 DEF IInv

(* A command that is sent to a full ring passes to it, and the oldest is freed. *)
LEMMA OwnersAfterSendFull ==
  ASSUME PoolAssumption, IInv, NEW t \in Clients, SendFull(t)
  PROVE  IInv'
<1> USE DEF Threads
<1> DEFINE oldest == At(0)
<1>1. /\ TypeOK' /\ RingOK' /\ MESSAGE_MAX \in Nat \ {0}
      /\ message_num = MESSAGE_MAX /\ message_num' = MESSAGE_MAX
      /\ message_list[message_in_index] = oldest
      /\ \A i \in 0..(MESSAGE_MAX - 1) :
           At(i)' = IF i = MESSAGE_MAX - 1 THEN held[t] ELSE At(i + 1)
  BY WindowAfterSendFull DEF PoolAssumption
<1>2. /\ held' = [held EXCEPT ![t] = NULL] /\ pc[t] = "send"
      /\ Goto(t, "idle") /\ mem' = [mem EXCEPT ![oldest] = NULL]
  BY <1>1 DEF SendFull
<1>3. oldest \in Queued /\ oldest \in Cells
  BY <1>1, QueuedCell
<1> HIDE DEF oldest
<1>4. Live' = Live \ {oldest}
  BY <1>1, <1>2, <1>3 DEF Live, IInv, TypeOK
<1>5. Busy' = Busy \ {t} /\ t \in Busy
  BY <1>2 DEF Busy, Goto, IInv, TypeOK
<1>6. \A u \in Busy' : held'[u] = held[u]
  BY <1>2, <1>5 DEF IInv, TypeOK, Busy
<1>7. held[t] \notin Queued /\ held[t] \in Live
  BY <1>5 DEF IInv, OneOwner
<1>8. \A i, j \in 0..(MESSAGE_MAX - 1) : At(i) = At(j) => i = j
  BY <1>1 DEF IInv, OneOwner
<1>9. \A k \in 0..(MESSAGE_MAX - 1) : At(k) \in Queued
  BY <1>1 DEF Queued
<1>10. Queued' = (Queued \ {oldest}) \cup {held[t]}
  <2>1. ASSUME NEW c \in Queued' PROVE c \in (Queued \ {oldest}) \cup {held[t]}
    <3>1. PICK i \in 0..(MESSAGE_MAX - 1) : c = At(i)'
      BY <1>1 DEF Queued
    <3>2. CASE i = MESSAGE_MAX - 1
      BY <3>1, <3>2, <1>1
    <3>3. CASE i # MESSAGE_MAX - 1
      <4>1. i + 1 \in 0..(MESSAGE_MAX - 1) /\ i + 1 # 0 /\ 0 \in 0..(MESSAGE_MAX - 1)
        BY <3>3, <1>1
      <4>2. c = At(i + 1)
        BY <3>1, <3>3, <1>1
      <4> QED BY <4>1, <4>2, <1>8, <1>9 DEF oldest
    <3> QED BY <3>2, <3>3
  <2>2. ASSUME NEW c \in (Queued \ {oldest}) \cup {held[t]} PROVE c \in Queued'
    <3>1. \A i \in 0..(MESSAGE_MAX - 1) : At(i)' \in Queued'
      BY <1>1 DEF Queued
    <3>2. CASE c = held[t]
      <4>1. MESSAGE_MAX - 1 \in 0..(MESSAGE_MAX - 1)
        BY <1>1
      <4> QED BY <3>1, <3>2, <4>1, <1>1
    <3>3. CASE c \in Queued /\ c # oldest
      <4>1. PICK k \in 0..(MESSAGE_MAX - 1) : c = At(k)
        BY <3>3, <1>1 DEF Queued
      <4>2. k # 0
        BY <4>1, <3>3 DEF oldest
      <4>3. k - 1 \in 0..(MESSAGE_MAX - 1) /\ k - 1 # MESSAGE_MAX - 1 /\ k - 1 + 1 = k
        BY <4>2, <1>1
      <4>4. At(k - 1 + 1) = c
        BY <4>1, <4>3
      <4>5. \A i \in 0..(MESSAGE_MAX - 1) : i = k - 1 => At(i)' = c
        BY <4>3, <4>4, <1>1
      <4> QED BY <4>3, <4>5, <3>1
    <3> QED BY <3>2, <3>3
  <2> QED BY <2>1, <2>2
<1>11. OneOwner'
  <2>1. ASSUME NEW i \in 0..(MESSAGE_MAX - 1), NEW j \in 0..(MESSAGE_MAX - 1),
               At(i)' = At(j)'
        PROVE  i = j
    <3>1. \A k \in 0..(MESSAGE_MAX - 1) :
            k # MESSAGE_MAX - 1 => k + 1 \in 0..(MESSAGE_MAX - 1) /\ At(k)' = At(k + 1)
      BY <1>1
    <3>2. CASE i # MESSAGE_MAX - 1 /\ j # MESSAGE_MAX - 1
      <4>1. i + 1 = j + 1
        BY <2>1, <3>1, <3>2, <1>8
      <4> QED BY <4>1, <1>1
    <3>3. CASE i = MESSAGE_MAX - 1 /\ j # MESSAGE_MAX - 1
      BY <2>1, <3>1, <3>3, <1>1, <1>7, <1>9
    <3>4. CASE i # MESSAGE_MAX - 1 /\ j = MESSAGE_MAX - 1
      BY <2>1, <3>1, <3>4, <1>1, <1>7, <1>9
    <3> QED BY <3>2, <3>3, <3>4
  <2>2. \A i, j \in 0..(message_num' - 1) : At(i)' = At(j)' => i = j
    BY <1>1, <2>1
  <2>3. \A u, v \in Busy' : held'[u] = held'[v] => u = v
    BY <1>5, <1>6 DEF IInv, OneOwner
  <2>4. \A u \in Busy' : held'[u] \in Live' \ Queued'
    BY <1>3, <1>4, <1>5, <1>6, <1>10 DEF IInv, OneOwner
  <2>5. Queued' \subseteq Live'
    BY <1>3, <1>4, <1>7, <1>10 DEF IInv, OneOwner
  <2>6. Live' \subseteq Queued' \cup {held'[u] : u \in Busy'}
    BY <1>4, <1>5, <1>6, <1>10 DEF IInv, OneOwner
  <2> QED BY <2>2, <2>3, <2>4, <2>5, <2>6 DEF OneOwner
<1> QED BY <1>1, <1>11 DEF IInv

(* A command that is taken passes to its taker. *)
LEMMA OwnersAfterGet ==
  ASSUME PoolAssumption, IInv, NEW t \in Threads, Get(t)
  PROVE  IInv'
<1> DEFINE oldest == At(0)
<1>1. /\ TypeOK' /\ RingOK' /\ message_num \in Nat \ {0} /\ message_num' = message_num - 1
      /\ held' = [held EXCEPT ![t] = oldest]
      /\ \A i \in 0..(message_num - 2) : At(i)' = At(i + 1)
  BY WindowAfterGet DEF PoolAssumption
<1>2. pc[t] = "idle" /\ Goto(t, "free") /\ mem' = mem
  BY DEF Get
<1>3. \A k \in 0..(message_num - 1) : At(k) \in Queued
  BY DEF Queued
<1>4. oldest \in Queued
  BY <1>1, <1>3
<1>5. \A i, j \in 0..(message_num - 1) : At(i) = At(j) => i = j
  BY DEF IInv, OneOwner
<1>6. Live' = Live
  BY <1>2 DEF Live
<1>7. Busy' = Busy \cup {t} /\ t \notin Busy
  BY <1>2 DEF Busy, Goto, IInv, TypeOK
<1>8. \A u \in Busy' : held'[u] = IF u = t THEN oldest ELSE held[u]
  BY <1>1 DEF IInv, TypeOK, Busy
<1>9. Queued' = Queued \ {oldest}
  <2>1. ASSUME NEW c \in Queued' PROVE c \in Queued \ {oldest}
    <3>1. PICK i \in 0..(message_num - 2) : c = At(i)'
      BY <1>1 DEF Queued
    <3>2. i + 1 \in 0..(message_num - 1) /\ i + 1 # 0 /\ 0 \in 0..(message_num - 1)
      BY <1>1
    <3>3. c = At(i + 1)
      BY <3>1, <1>1
    <3> QED BY <3>2, <3>3, <1>3, <1>5
  <2>2. ASSUME NEW c \in Queued, c # oldest PROVE c \in Queued'
    <3>1. PICK k \in 0..(message_num - 1) : c = At(k)
      BY DEF Queued
    <3>2. k - 1 \in 0..(message_num - 2) /\ k - 1 + 1 = k
      BY <3>1, <2>2, <1>1
    <3>3. \A i \in 0..(message_num - 2) : i = k - 1 => At(i)' = c
      BY <3>1, <3>2, <1>1
    <3>4. \A i \in 0..(message_num - 2) : At(i)' \in Queued'
      BY <1>1 DEF Queued
    <3> QED BY <3>2, <3>3, <3>4
  <2> QED BY <2>1, <2>2
<1>10. OneOwner'
  <2>1. ASSUME NEW i \in 0..(message_num - 2), NEW j \in 0..(message_num - 2), At(i)' = At(j)'
        PROVE  i = j
    <3>1. i + 1 \in 0..(message_num - 1) /\ j + 1 \in 0..(message_num - 1)
      BY <1>1
    <3>2. i + 1 = j + 1
      BY <2>1, <3>1, <1>1, <1>5
    <3> QED BY <3>2, <1>1
  <2>2. \A i, j \in 0..(message_num' - 1) : At(i)' = At(j)' => i = j
    BY <1>1, <2>1
  <2>3. \A u, v \in Busy' : held'[u] = held'[v] => u = v
    BY <1>4, <1>7, <1>8 DEF IInv, OneOwner
  <2>4. \A u \in Busy' : held'[u] \in Live' \ Queued'
    BY <1>4, <1>6, <1>7, <1>8, <1>9 DEF IInv, OneOwner
  <2>5. Queued' \subseteq Live'
    BY <1>6, <1>9 DEF IInv, OneOwner
  <2>6. Live' \subseteq Queued' \cup {held'[u] : u \in Busy'}
    BY <1>6, <1>7, <1>8, <1>9 DEF IInv, OneOwner
  <2> QED BY <2>2, <2>3, <2>4, <2>5, <2>6 DEF OneOwner
<1> QED BY <1>1, <1>10 DEF IInv

(* A command that is freed has no owner. *)
LEMMA OwnersAfterFree ==
  ASSUME PoolAssumption, IInv, NEW t \in Threads, Free(t)
  PROVE  IInv'
<1>1. /\ pc[t] = "free" /\ Goto(t, "idle") /\ UNCHANGED pool
      /\ mem' = [mem EXCEPT ![held[t]] = NULL]
      /\ held' = [held EXCEPT ![t] = NULL]
  BY DEF Free
<1>2. held[t] \in Cells /\ held[t] \notin Queued
  BY <1>1, HeldCell
<1>3. TypeOK'
  BY <1>1 DEF IInv, TypeOK, pool, Goto, Pcs
<1>4. Live' = Live \ {held[t]}
  BY <1>1, <1>2 DEF Live, IInv, TypeOK
<1>5. Busy' = Busy \ {t} /\ t \in Busy
  BY <1>1 DEF Busy, Goto, IInv, TypeOK
<1>6. \A u \in Busy' : held'[u] = held[u]
  BY <1>1, <1>5 DEF IInv, TypeOK, Busy
<1>7. Queued' = Queued /\ RingOK' /\ \A k : At(k)' = At(k)
  BY <1>1, WindowUnchanged DEF IInv
<1>8. OneOwner'
  BY <1>1, <1>2, <1>4, <1>5, <1>6, <1>7 DEF IInv, OneOwner, pool
<1> QED BY <1>3, <1>7, <1>8 DEF IInv

-----------------------------------------------------------------------------
(* IInv is inductive. *)
LEMMA InitInvariant ==
  ASSUME PoolAssumption, Init
  PROVE  IInv
<1>1. MESSAGE_MAX \in Nat \ {0} /\ message_num = 0 /\ message_out_index = 0
  BY DEF PoolAssumption, Init
<1>2. TypeOK
  BY <1>1 DEF Init, TypeOK, Slots, Pcs
<1>3. RingOK
  BY <1>1, <1>2, SlotFacts DEF Init, RingOK
<1>4. Live = {} /\ Busy = {} /\ Queued = {} /\ 0..(message_num - 1) = {}
  BY <1>1 DEF Init, Live, Busy, Queued
<1> QED BY <1>2, <1>3, <1>4 DEF IInv, OneOwner

(* Every step keeps the invariant. *)
LEMMA NextInvariant ==
  ASSUME PoolAssumption, IInv, [Next]_vars
  PROVE  IInv'
<1>1. ASSUME NEW t \in Clients, Send(t) PROVE IInv'
  BY <1>1, OwnersAfterAllocate, OwnersAfterUpdateHit, OwnersAfterUpdateMiss,
     OwnersAfterSendRoom, OwnersAfterSendFull DEF Send
<1>2. ASSUME NEW t \in Threads, Player(t) PROVE IInv'
  BY <1>2, OwnersAfterGet, OwnersAfterFree DEF Player
<1>3. CASE UNCHANGED vars
  BY <1>3 DEF vars, pool, IInv, TypeOK, RingOK, OneOwner, Queued, At, Slot, Wrap, Live, Busy
<1> QED BY <1>1, <1>2, <1>3 DEF Next

(* The inductive invariant: types, the ring, and one owner of each command. *)
THEOREM Invariance == Spec => []IInv
<1>1. Init => IInv
  BY PoolAssumption, InitInvariant
<1>2. IInv /\ [Next]_vars => IInv'
  BY PoolAssumption, NextInvariant
<1> QED BY <1>1, <1>2, PTL DEF Spec

(* The ring, its indices and the threads' states keep their types: no index
   leaves the ring, and the count never exceeds it. *)
THEOREM TypeCorrect == Spec => []TypeOK
<1>1. IInv => TypeOK
  BY DEF IInv
<1> QED BY <1>1, Invariance, PTL

(* send_message and get_message agree on where the window starts and ends. *)
THEOREM RingCorrect == Spec => []RingOK
<1>1. IInv => RingOK
  BY DEF IInv
<1> QED BY <1>1, Invariance, PTL

(* No command is freed twice, used after free or leaked, however many threads
   send, take and clear at once. *)
THEOREM Ownership == Spec => []OneOwner
<1>1. IInv => OneOwner
  BY DEF IInv
<1> QED BY <1>1, Invariance, PTL

-----------------------------------------------------------------------------
(* A step leaves the command of every thread that stays busy with it. *)
LEMMA HeldStableStep ==
  ASSUME PoolAssumption, IInv, Next,
         NEW u \in Threads, pc[u] # "idle", held'[u] = held[u], pc'[u] # "idle"
  PROVE  mem'[held[u]] = mem[held[u]]
<1>1. held[u] \in Cells /\ held[u] \notin Queued /\ held[u] \in Live /\ u \in Busy
  BY HeldCell DEF IInv, OneOwner, Busy
<1>2. \A i \in 0..(message_num - 1) : At(i) # held[u]
  BY <1>1, QueuedCell
<1>3. mem \in [Cells -> Commands \cup {NULL}]
  BY DEF IInv, TypeOK
<1>4. ASSUME NEW t \in Clients, Allocate(t) PROVE mem'[held[u]] = mem[held[u]]
  BY <1>1, <1>3, <1>4 DEF Allocate
<1>5. ASSUME NEW t \in Clients, UpdateHit(t) PROVE mem'[held[u]] = mem[held[u]]
  BY <1>1, <1>2, <1>3, <1>5 DEF UpdateHit, SameKind
<1>6. ASSUME NEW t \in Clients, SendFull(t) PROVE mem'[held[u]] = mem[held[u]]
  <2>1. /\ message_list[message_in_index] = At(0) /\ message_num = MESSAGE_MAX
        /\ MESSAGE_MAX \in Nat \ {0}
    BY <1>6, WindowAfterSendFull DEF PoolAssumption, Threads
  <2>2. At(0) # held[u]
    BY <2>1, <1>2
  <2> QED BY <2>1, <2>2, <1>1, <1>3, <1>6 DEF SendFull
<1>7. ASSUME NEW t \in Threads, Free(t) PROVE mem'[held[u]] = mem[held[u]]
  <2>1. t \in Busy /\ t # u
    BY <1>7 DEF Free, Goto, Busy, IInv, TypeOK
  <2>2. held[t] # held[u]
    BY <2>1, <1>1 DEF IInv, OneOwner
  <2> QED BY <2>2, <1>1, <1>3, <1>7 DEF Free
<1>8. CASE UNCHANGED mem
  BY <1>8
<1> QED BY <1>4, <1>5, <1>6, <1>7, <1>8 DEF Next, Send, Player, UpdateMiss, SendRoom, Get

(* A command a thread executes, or is about to send, is never overwritten by
   the in-place update of another thread. *)
THEOREM HeldStable == Spec => HeldIsStable
<1> DEFINE Stable == \A t \in Threads :
                       pc[t] # "idle" /\ held'[t] = held[t] /\ pc'[t] # "idle"
                         => mem'[held[t]] = mem[held[t]]
<1>1. IInv /\ [Next]_vars => [Stable]_vars
  BY PoolAssumption, HeldStableStep
<1>2. Spec => [][Stable]_vars
  BY <1>1, Invariance, PTL DEF Spec
<1> QED BY <1>2 DEF HeldIsStable

-----------------------------------------------------------------------------
(* The refinement.  Only a search is sent with send_message_update. *)
UpdatesSearch == \A t \in Threads : pc[t] = "update" => mem[held[t]].kind = SEARCH

(* At first no thread is about to update. *)
LEMMA UpdatesSearchInit ==
  ASSUME Init PROVE UpdatesSearch
BY DEF Init, UpdatesSearch

(* A thread is about to update only with a search. *)
LEMMA UpdatesSearchStep ==
  ASSUME PoolAssumption, IInv, UpdatesSearch, [Next]_vars
  PROVE  UpdatesSearch'
<1> SUFFICES ASSUME NEW u \in Threads, pc'[u] = "update"
             PROVE  mem'[held'[u]].kind = SEARCH
  BY DEF UpdatesSearch
<1>1. CASE UNCHANGED vars
  BY <1>1 DEF vars, UpdatesSearch
<1>2. CASE Next /\ pc[u] = "update"
  <2>1. held'[u] = held[u]
    BY <1>2 DEF Next, Send, Player, Allocate, UpdateHit, UpdateMiss, SendRoom, SendFull,
       Get, Free, Goto, IInv, TypeOK, Threads
  <2> QED BY <1>2, <2>1, HeldStableStep DEF UpdatesSearch
<1>3. CASE Next /\ pc[u] # "update"
  <2>1. u \in Clients /\ Allocate(u)
    BY <1>3 DEF Next, Send, Player, Allocate, UpdateHit, UpdateMiss, SendRoom, SendFull,
       Get, Free, Goto, IInv, TypeOK, Threads
  <2>2. PICK c \in Cells \ Live, cmd \in Commands :
          /\ mem' = [mem EXCEPT ![c] = cmd]
          /\ held' = [held EXCEPT ![u] = c]
          /\ Goto(u, IF cmd.kind = SEARCH THEN "update" ELSE "send")
    BY <2>1 DEF Allocate
  <2>3. mem'[held'[u]] = cmd
    BY <2>2 DEF IInv, TypeOK
  <2>4. cmd.kind = SEARCH
    BY <2>2 DEF Goto, IInv, TypeOK
  <2> QED BY <2>3, <2>4
<1> QED BY <1>1, <1>2, <1>3

(* The abstract queue of a ring is a bounded sequence of commands. *)
LEMMA AbstractionType ==
  ASSUME PoolAssumption, IInv
  PROVE  /\ Abstraction \in Seq(Commands)
         /\ Len(Abstraction) = message_num /\ message_num \in 0..MESSAGE_MAX
         /\ \A i \in 1..message_num : Abstraction[i] = mem[At(i - 1)]
<1>1. message_num \in Nat /\ message_num \in 0..MESSAGE_MAX
  BY DEF PoolAssumption, IInv, TypeOK
<1>2. ASSUME NEW i \in 1..message_num PROVE mem[At(i - 1)] \in Commands
  <2>1. i - 1 \in 0..(message_num - 1)
    BY <1>1
  <2> QED BY <2>1, QueuedCell
<1>3. Abstraction \in [1..message_num -> Commands]
  BY <1>2 DEF Abstraction
<1> QED BY <1>1, <1>3 DEF Abstraction

(* A step that leaves the window and the contents of its commands alone. *)
LEMMA AbstractionUnchanged ==
  ASSUME PoolAssumption, IInv, UNCHANGED pool,
         \A c \in Queued : mem'[c] = mem[c]
  PROVE  Abstraction' = Abstraction
<1>1. message_num \in Nat /\ message_num' = message_num
  BY DEF PoolAssumption, IInv, TypeOK, pool
<1>2. ASSUME NEW i \in 1..message_num PROVE mem'[At(i - 1)'] = mem[At(i - 1)]
  <2>1. i - 1 \in 0..(message_num - 1)
    BY <1>1
  <2>2. At(i - 1) \in Queued
    BY <2>1 DEF Queued
  <2>3. At(i - 1)' = At(i - 1)
    BY WindowUnchanged DEF IInv
  <2> QED BY <2>2, <2>3
<1> QED BY <1>1, <1>2 DEF Abstraction

(* An update in place is an update of the abstract queue. *)
LEMMA RefineUpdateHit ==
  ASSUME PoolAssumption, IInv, UpdatesSearch, NEW t \in Clients, UpdateHit(t)
  PROVE  \E c \in Commands : Queue!Coalesce(c)
<1> DEFINE c == mem[held[t]]
<1>1. PICK i \in SameKind(t) :
        /\ \A j \in SameKind(t) : i <= j
        /\ mem' = [mem EXCEPT ![At(i)] = c]
  BY DEF UpdateHit
<1>2. UNCHANGED <<pool, held>> /\ pc[t] = "update" /\ t \in Threads
  BY DEF UpdateHit, Threads
<1>3. c \in Commands /\ c.kind = SEARCH
  BY <1>2, HeldCell DEF UpdatesSearch
<1>4. /\ i \in 0..(message_num - 1) /\ message_num \in Nat /\ message_num' = message_num
      /\ mem[At(i)].kind = SEARCH /\ mem \in [Cells -> Commands \cup {NULL}]
  BY <1>1, <1>2, <1>3 DEF SameKind, IInv, TypeOK, pool, PoolAssumption
<1> HIDE DEF c
<1>5. Len(Abstraction) = message_num /\ Abstraction \in Seq(Commands)
      /\ \A k \in 1..message_num : Abstraction[k] = mem[At(k - 1)]
  BY AbstractionType
<1>6. i + 1 \in 1..Len(Abstraction) /\ i + 1 - 1 = i
  BY <1>4, <1>5
<1>7. Abstraction[i + 1].kind = SEARCH
  BY <1>4, <1>5, <1>6
<1>8. ASSUME NEW j \in 1..(i + 1 - 1) PROVE Abstraction[j].kind # SEARCH
  <2>1. j - 1 \in 0..(message_num - 1) /\ j \in 1..message_num /\ j - 1 < i
    BY <1>4
  <2>2. j - 1 \notin SameKind(t)
    BY <1>1, <2>1, <1>4
  <2>3. At(j - 1) # NULL
    BY <2>1, QueuedCell DEF PoolAssumption
  <2>4. mem[At(j - 1)].kind # SEARCH
    BY <2>1, <2>2, <2>3, <1>3 DEF SameKind, c
  <2> QED BY <2>1, <2>4, <1>5
<1>9. Abstraction' = [Abstraction EXCEPT ![i + 1] = c]
  <2>1. ASSUME NEW k \in 1..message_num
        PROVE  mem'[At(k - 1)'] = IF k = i + 1 THEN c ELSE mem[At(k - 1)]
    <3>1. k - 1 \in 0..(message_num - 1)
      BY <1>4
    <3>2. At(k - 1)' = At(k - 1)
      BY <1>2, WindowUnchanged DEF IInv
    <3>3. At(k - 1) \in Cells /\ At(i) \in Cells
      BY <3>1, <1>4, QueuedCell
    <3>4. At(k - 1) = At(i) => k - 1 = i
      BY <3>1, <1>4 DEF IInv, OneOwner
    <3> QED BY <3>1, <3>2, <3>3, <3>4, <1>1, <1>4
  <2>2. Abstraction' = [k \in 1..message_num |-> mem'[At(k - 1)']]
    BY <1>4 DEF Abstraction
  <2>3. DOMAIN Abstraction = 1..message_num
    BY DEF Abstraction
  <2> QED BY <2>1, <2>2, <2>3, <1>4, <1>5 DEF Abstraction
<1> DEFINE k == i + 1
<1>10. /\ k \in 1..Len(Abstraction) /\ Abstraction[k].kind = SEARCH
       /\ \A j \in 1..(k - 1) : Abstraction[j].kind # SEARCH
       /\ Abstraction' = [Abstraction EXCEPT ![k] = c]
  <2>1. k \in 1..Len(Abstraction) /\ Abstraction[k].kind = SEARCH
    BY <1>6, <1>7
  <2>2. ASSUME NEW j \in 1..(k - 1) PROVE Abstraction[j].kind # SEARCH
    <3>1. j \in 1..(i + 1 - 1)
      BY <1>4
    <3> HIDE DEF k
    <3> QED BY <3>1, <1>8
  <2>3. Abstraction' = [Abstraction EXCEPT ![k] = c]
    BY <1>9
  <2> QED BY <2>1, <2>2, <2>3
<1> HIDE DEF k
<1>11. Queue!Coalesce(c)
  BY <1>3, <1>10, Zenon DEF Queue!Coalesce
<1> QED BY <1>3, <1>11

(* A send to a ring with room appends to the abstract queue. *)
LEMMA RefineSendRoom ==
  ASSUME PoolAssumption, IInv, NEW t \in Clients, SendRoom(t)
  PROVE  \E c \in Commands : Queue!Post(c)
<1> DEFINE c == mem[held[t]]
<1>1. c \in Commands /\ mem' = mem /\ message_num < MESSAGE_MAX
  BY HeldCell DEF SendRoom, Threads
<1>2. /\ message_num \in Nat /\ message_num' = message_num + 1
      /\ \A i \in 0..message_num : At(i)' = IF i = message_num THEN held[t] ELSE At(i)
  BY WindowAfterSendRoom DEF IInv, TypeOK, Threads
<1>3. Len(Abstraction) = message_num /\ Abstraction \in Seq(Commands)
      /\ \A k \in 1..message_num : Abstraction[k] = mem[At(k - 1)]
  BY AbstractionType
<1>4. Abstraction' = [k \in 1..(message_num + 1) |-> mem[At(k - 1)']]
  BY <1>1, <1>2 DEF Abstraction
<1> HIDE DEF c
<1>5. ASSUME NEW k \in 1..(message_num + 1)
      PROVE  mem[At(k - 1)'] = IF k = message_num + 1 THEN c ELSE Abstraction[k]
  <2>1. k - 1 \in 0..message_num /\ (k - 1 = message_num <=> k = message_num + 1)
    BY <1>2
  <2>2. At(k - 1)' = IF k = message_num + 1 THEN held[t] ELSE At(k - 1)
    BY <2>1, <1>2
  <2> QED BY <2>1, <2>2, <1>2, <1>3 DEF c
<1>6. Abstraction' \in [1..(message_num + 1) -> Commands]
  <2>1. ASSUME NEW k \in 1..(message_num + 1) PROVE mem[At(k - 1)'] \in Commands
    <3>1. k # message_num + 1 => k \in 1..message_num
      BY <1>2
    <3>2. k # message_num + 1 => Abstraction[k] \in Commands
      BY <3>1, <1>3
    <3> QED BY <3>2, <1>1, <1>5
  <2> QED BY <2>1, <1>4
<1>7. Abstraction' = Append(Abstraction, c)
  <2>1. \A k \in 1..(message_num + 1) :
          Abstraction'[k] = IF k = message_num + 1 THEN c ELSE Abstraction[k]
    BY <1>4, <1>5
  <2>2. message_num + 1 \in Nat /\ Len(Abstraction) + 1 = message_num + 1
    BY <1>2, <1>3
  <2> QED BY <2>1, <2>2, <1>1, <1>3, <1>6, AppendAsFunction
<1>8. Queue!Post(c)
  BY <1>1, <1>3, <1>7 DEF Queue!Post
<1> QED BY <1>1, <1>8

(* A send to a full ring drops the oldest command of the abstract queue. *)
LEMMA RefineSendFull ==
  ASSUME PoolAssumption, IInv, NEW t \in Clients, SendFull(t)
  PROVE  \E c \in Commands : Queue!Post(c)
<1> DEFINE c == mem[held[t]]
<1>1. c \in Commands /\ held[t] \notin Queued /\ mem \in [Cells -> Commands \cup {NULL}]
  BY HeldCell DEF SendFull, Threads, IInv, TypeOK
<1>2. /\ MESSAGE_MAX \in Nat \ {0} /\ message_num = MESSAGE_MAX /\ message_num' = MESSAGE_MAX
      /\ mem' = [mem EXCEPT ![At(0)] = NULL]
      /\ \A i \in 0..(MESSAGE_MAX - 1) :
           At(i)' = IF i = MESSAGE_MAX - 1 THEN held[t] ELSE At(i + 1)
  BY WindowAfterSendFull DEF PoolAssumption, Threads, SendFull
<1>3. Len(Abstraction) = MESSAGE_MAX /\ Abstraction \in Seq(Commands)
      /\ \A k \in 1..MESSAGE_MAX : Abstraction[k] = mem[At(k - 1)]
  BY <1>2, AbstractionType
<1>4. Abstraction' = [k \in 1..MESSAGE_MAX |-> mem'[At(k - 1)']]
  BY <1>2 DEF Abstraction
<1> HIDE DEF c
<1>5. ASSUME NEW k \in 1..MESSAGE_MAX
      PROVE  mem'[At(k - 1)'] = IF k = MESSAGE_MAX THEN c ELSE Abstraction[k + 1]
  <2>1. /\ k - 1 \in 0..(MESSAGE_MAX - 1) /\ 0 \in 0..(MESSAGE_MAX - 1)
        /\ (k - 1 = MESSAGE_MAX - 1 <=> k = MESSAGE_MAX)
        /\ k - 1 + 1 = k
    BY <1>2
  <2>2. At(k - 1)' = IF k = MESSAGE_MAX THEN held[t] ELSE At(k)
    BY <2>1, <1>2
  <2>3. CASE k = MESSAGE_MAX
    <3>1. At(0) # held[t] /\ held[t] \in Cells
      BY <2>1, <1>1, <1>2, QueuedCell, HeldCell DEF SendFull, Threads
    <3> QED BY <3>1, <2>2, <2>3, <1>1, <1>2 DEF c
  <2>4. CASE k # MESSAGE_MAX
    <3>1. k \in 0..(MESSAGE_MAX - 1) /\ k # 0 /\ k + 1 \in 1..MESSAGE_MAX /\ k + 1 - 1 = k
      BY <2>4, <1>2
    <3>2. At(k) # At(0) /\ At(k) \in Cells
      BY <2>1, <3>1, <1>2, QueuedCell DEF IInv, OneOwner
    <3>3. Abstraction[k + 1] = mem[At(k)]
      BY <3>1, <1>3
    <3> QED BY <3>2, <3>3, <2>2, <2>4, <1>1, <1>2
  <2> QED BY <2>3, <2>4
<1>6. Abstraction' \in [1..MESSAGE_MAX -> Commands]
  BY <1>1, <1>2, <1>3, <1>4, <1>5
<1>7. Abstraction' = Append(Tail(Abstraction), c)
  <2>1. Abstraction # << >>
    BY <1>2, <1>3
  <2>2. /\ Tail(Abstraction) \in Seq(Commands)
        /\ Len(Tail(Abstraction)) = MESSAGE_MAX - 1
        /\ \A k \in 1..(MESSAGE_MAX - 1) : Tail(Abstraction)[k] = Abstraction[k + 1]
    BY <2>1, <1>3, HeadTailProperties
  <2>3. ASSUME NEW k \in 1..MESSAGE_MAX
        PROVE  Abstraction'[k] = IF k = MESSAGE_MAX THEN c ELSE Tail(Abstraction)[k]
    <3>1. k # MESSAGE_MAX => k \in 1..(MESSAGE_MAX - 1)
      BY <1>2
    <3> QED BY <3>1, <2>2, <1>4, <1>5
  <2>4. MESSAGE_MAX \in Nat /\ Len(Tail(Abstraction)) + 1 = MESSAGE_MAX
    BY <2>2, <1>2
  <2> QED BY <2>2, <2>3, <2>4, <1>1, <1>6, AppendAsFunction
<1>8. Queue!Post(c)
  BY <1>2, <1>3, <1>7 DEF Queue!Post
<1> QED BY <1>1, <1>8

(* A get takes the head of the abstract queue. *)
LEMMA RefineGet ==
  ASSUME PoolAssumption, IInv, NEW t \in Threads, Get(t)
  PROVE  Queue!Take
<1>1. /\ message_num \in Nat \ {0} /\ message_num' = message_num - 1 /\ mem' = mem
      /\ \A i \in 0..(message_num - 2) : At(i)' = At(i + 1)
  <2>1. mem' = mem
    BY DEF Get
  <2> QED BY <2>1, WindowAfterGet DEF PoolAssumption
<1>2. Len(Abstraction) = message_num /\ Abstraction \in Seq(Commands)
      /\ \A k \in 1..message_num : Abstraction[k] = mem[At(k - 1)]
  BY AbstractionType
<1>3. Abstraction' = [k \in 1..(message_num - 1) |-> mem[At(k - 1)']]
  BY <1>1 DEF Abstraction
<1>4. ASSUME NEW k \in 1..(message_num - 1) PROVE mem[At(k - 1)'] = Abstraction[k + 1]
  <2>1. k - 1 \in 0..(message_num - 2) /\ k - 1 + 1 = k
        /\ k + 1 \in 1..message_num /\ k + 1 - 1 = k
    BY <1>1
  <2>2. At(k - 1)' = At(k)
    BY <2>1, <1>1
  <2>3. Abstraction[k + 1] = mem[At(k)]
    BY <2>1, <1>2
  <2> QED BY <2>2, <2>3
<1>5. Abstraction # << >>
  BY <1>1, <1>2
<1>6. Tail(Abstraction) = [k \in 1..(message_num - 1) |-> Abstraction[k + 1]]
  BY <1>1, <1>2, <1>5, TailAsFunction
<1> QED BY <1>3, <1>4, <1>5, <1>6 DEF Queue!Take

(* Every step is a step of the abstract queue, or leaves it as it is. *)
LEMMA RefineStep ==
  ASSUME PoolAssumption, IInv, UpdatesSearch, [Next]_vars
  PROVE  [Queue!Next]_Abstraction
<1> USE DEF Threads
<1>1. ASSUME NEW t \in Clients, Allocate(t) PROVE Abstraction' = Abstraction
  <2>1. PICK c \in Cells \ Live : \E cmd \in Commands : mem' = [mem EXCEPT ![c] = cmd]
    BY <1>1 DEF Allocate
  <2>2. c \notin Queued
    BY <2>1 DEF IInv, OneOwner
  <2>3. \A d \in Queued : mem'[d] = mem[d]
    BY <2>1, <2>2, QueuedCell DEF Queued, IInv, TypeOK
  <2> QED BY <1>1, <2>3, AbstractionUnchanged DEF Allocate
<1>2. ASSUME NEW t \in Threads, Free(t) PROVE Abstraction' = Abstraction
  <2>1. held[t] \notin Queued /\ held[t] \in Cells
    BY <1>2, HeldCell DEF Free
  <2>2. \A d \in Queued : mem'[d] = mem[d]
    BY <1>2, <2>1, QueuedCell DEF Free, Queued, IInv, TypeOK
  <2> QED BY <1>2, <2>2, AbstractionUnchanged DEF Free
<1>3. ASSUME NEW t \in Clients, UpdateMiss(t) PROVE Abstraction' = Abstraction
  BY <1>3, AbstractionUnchanged DEF UpdateMiss
<1>4. CASE UNCHANGED vars
  BY <1>4, AbstractionUnchanged DEF vars
<1>5. ASSUME NEW t \in Clients, UpdateHit(t) \/ SendRoom(t) \/ SendFull(t) PROVE Queue!Next
  BY <1>5, RefineUpdateHit, RefineSendRoom, RefineSendFull DEF Queue!Next, Queue!Commands, Commands
<1>6. ASSUME NEW t \in Threads, Get(t) PROVE Queue!Next
  BY <1>6, RefineGet DEF Queue!Next
<1> QED BY <1>1, <1>2, <1>3, <1>4, <1>5, <1>6 DEF Next, Send, Player

(* The pool implements the bounded queue of CommandQueue: commands are taken
   in the order they were sent, only the oldest of a full pool is dropped, and
   an update replaces the oldest queued search in its place. *)
THEOREM Refinement == Spec => ImplementsQueue
<1>1. Init => Queue!Init
  <2> SUFFICES ASSUME Init PROVE Queue!Init
    OBVIOUS
  <2>1. 1..message_num = {}
    BY DEF Init
  <2> QED BY <2>1 DEF Abstraction, Queue!Init
<1>2. Init => UpdatesSearch
  BY UpdatesSearchInit
<1>3. IInv /\ UpdatesSearch /\ [Next]_vars => UpdatesSearch'
  BY PoolAssumption, UpdatesSearchStep
<1>4. IInv /\ UpdatesSearch /\ [Next]_vars => [Queue!Next]_Abstraction
  BY PoolAssumption, RefineStep
<1>5. Spec => Queue!Spec
  BY <1>1, <1>2, <1>3, <1>4, Invariance, PTL DEF Spec, Queue!Spec
<1> QED BY <1>5 DEF ImplementsQueue
-----------------------------------------------------------------------------
(* Searches do not pile up.  There are finitely many, queued and on their way. *)
LEMMA FiniteParts ==
  ASSUME IsFiniteSet(Clients), NEW n \in Int, NEW Q \in SUBSET (0..n), NEW S \in SUBSET Clients
  PROVE  /\ IsFiniteSet(Q) /\ Cardinality(Q) \in Nat
         /\ IsFiniteSet(S) /\ Cardinality(S) \in Nat
         /\ Cardinality(Clients) \in Nat /\ Cardinality(S) <= Cardinality(Clients)
<1>1. IsFiniteSet(0..n)
  BY FS_Interval
<1>2. IsFiniteSet(Q) /\ IsFiniteSet(S)
  BY <1>1, FS_Subset
<1> QED BY <1>2, FS_Subset, FS_CardinalityType

LEMMA SearchesFinite ==
  ASSUME PoolAssumption, IInv, IsFiniteSet(Clients)
  PROVE  /\ IsFiniteSet(SearchesQueued) /\ Cardinality(SearchesQueued) \in Nat
         /\ IsFiniteSet(SearchesToAppend) /\ Cardinality(SearchesToAppend) \in Nat
<1>1. message_num - 1 \in Int
  BY DEF PoolAssumption, IInv, TypeOK
<1>2. SearchesQueued \in SUBSET (0..(message_num - 1)) /\ SearchesToAppend \in SUBSET Clients
  BY DEF SearchesQueued, SearchesToAppend
<1> QED BY <1>1, <1>2, FiniteParts

LEMMA SearchesFiniteNext ==
  ASSUME PoolAssumption, IInv', IsFiniteSet(Clients)
  PROVE  /\ Cardinality(SearchesQueued') \in Nat /\ Cardinality(SearchesToAppend') \in Nat
         /\ Cardinality(Clients) \in Nat
         /\ Cardinality(SearchesToAppend') <= Cardinality(Clients)
<1>1. message_num' - 1 \in Int
  BY DEF PoolAssumption, IInv, TypeOK
<1>2. SearchesQueued' \in SUBSET (0..(message_num' - 1)) /\ SearchesToAppend' \in SUBSET Clients
  BY DEF SearchesQueued, SearchesToAppend
<1> QED BY <1>1, <1>2, FiniteParts

(* The numbers after those of a set B are as many as those of B. *)
LEMMA ShiftedSmaller ==
  ASSUME NEW A, IsFiniteSet(A), NEW B \in SUBSET Nat, \A i \in B : i + 1 \in A
  PROVE  IsFiniteSet(B) /\ Cardinality(B) <= Cardinality(A)
<1> DEFINE f == [i \in B |-> i + 1]
<1>1. f \in Injection(B, A)
  BY DEF Injection, IsInjective
<1> QED BY <1>1, FS_Injection

(* What a step has to do with the searches, for the bound to be kept: to add
   none; *)
LEMMA NoMoreSearches ==
  ASSUME PoolAssumption, IInv, IInv', IsFiniteSet(Clients), SearchesBounded,
         Cardinality(SearchesQueued') <= Cardinality(SearchesQueued),
         SearchesToAppend' \subseteq SearchesToAppend
  PROVE  SearchesBounded'
<1>1. Cardinality(SearchesToAppend') <= Cardinality(SearchesToAppend)
  BY SearchesFinite, FS_Subset
<1>2. /\ Cardinality(SearchesQueued') \in Nat /\ Cardinality(SearchesToAppend') \in Nat
      /\ Cardinality(SearchesQueued) \in Nat /\ Cardinality(SearchesToAppend) \in Nat
      /\ Cardinality(Clients) \in Nat
  BY SearchesFinite, SearchesFiniteNext
<1> QED BY <1>1, <1>2 DEF SearchesBounded

(* or to queue the one that was to be appended. *)
LEMMA OneSearchMoves ==
  ASSUME PoolAssumption, IInv, IInv', IsFiniteSet(Clients), SearchesBounded,
         NEW t \in SearchesToAppend, SearchesToAppend' \subseteq SearchesToAppend \ {t},
         Cardinality(SearchesQueued') <= Cardinality(SearchesQueued) + 1
  PROVE  SearchesBounded'
<1>1. IsFiniteSet(SearchesToAppend)
  BY SearchesFinite
<1>2. /\ IsFiniteSet(SearchesToAppend \ {t})
      /\ Cardinality(SearchesToAppend \ {t}) = Cardinality(SearchesToAppend) - 1
  BY <1>1, FS_RemoveElement
<1>3. Cardinality(SearchesToAppend') <= Cardinality(SearchesToAppend \ {t})
  BY <1>2, FS_Subset
<1>4. /\ Cardinality(SearchesQueued') \in Nat /\ Cardinality(SearchesToAppend') \in Nat
      /\ Cardinality(SearchesQueued) \in Nat /\ Cardinality(SearchesToAppend) \in Nat
      /\ Cardinality(Clients) \in Nat
  BY SearchesFinite, SearchesFiniteNext
<1> QED BY <1>2, <1>3, <1>4 DEF SearchesBounded

(* A step of thread t that leaves the commands of the others alone adds no
   search to those on their way, unless t is about to append one. *)
LEMMA AppendersKept ==
  ASSUME PoolAssumption, IInv, Next, NEW t \in Threads,
         \A u \in Threads \ {t} : held'[u] = held[u] /\ pc'[u] = pc[u],
         ~ (t \in Clients /\ pc'[t] = "send" /\ mem'[held'[t]].kind = SEARCH)
  PROVE  SearchesToAppend' \subseteq SearchesToAppend \ {t}
<1> SUFFICES ASSUME NEW u \in Clients, pc'[u] = "send", mem'[held'[u]].kind = SEARCH
             PROVE  u \in SearchesToAppend \ {t}
  BY DEF SearchesToAppend
<1>1. u # t /\ u \in Threads
  BY DEF Threads
<1>2. held'[u] = held[u] /\ pc[u] = "send"
  BY <1>1
<1>3. mem'[held[u]] = mem[held[u]]
  BY <1>1, <1>2, HeldStableStep
<1> QED BY <1>1, <1>2, <1>3 DEF SearchesToAppend

LEMMA BoundAfterAllocate ==
  ASSUME PoolAssumption, IInv, IInv', IsFiniteSet(Clients), SearchesBounded,
         NEW t \in Clients, Allocate(t)
  PROVE  SearchesBounded'
<1>1. PICK c \in Cells \ Live, cmd \in Commands :
        /\ mem' = [mem EXCEPT ![c] = cmd]
        /\ held' = [held EXCEPT ![t] = c]
        /\ Goto(t, IF cmd.kind = SEARCH THEN "update" ELSE "send")
  BY DEF Allocate
<1>2. UNCHANGED pool /\ Next /\ t \in Threads
  BY DEF Allocate, Next, Send, Threads
<1>3. mem \in [Cells -> Commands \cup {NULL}] /\ held \in [Threads -> Cells \cup {NULL}]
      /\ pc \in [Threads -> Pcs]
  BY DEF IInv, TypeOK
<1>4. \A u \in Threads \ {t} : held'[u] = held[u] /\ pc'[u] = pc[u]
  BY <1>1, <1>3 DEF Goto
<1>5. ~ (pc'[t] = "send" /\ mem'[held'[t]].kind = SEARCH)
  BY <1>1, <1>2, <1>3 DEF Goto
<1>6. SearchesToAppend' \subseteq SearchesToAppend
  BY <1>2, <1>4, <1>5, AppendersKept
<1>7. SearchesQueued' = SearchesQueued
  <2>1. \A i \in 0..(message_num - 1) : At(i)' = At(i) /\ mem'[At(i)] = mem[At(i)]
    BY <1>1, <1>2, <1>3, QueuedCell, WindowUnchanged DEF IInv, OneOwner
  <2>2. message_num' = message_num
    BY <1>2 DEF pool
  <2> QED BY <2>1, <2>2 DEF SearchesQueued
<1>8. Cardinality(SearchesQueued') <= Cardinality(SearchesQueued)
  BY <1>7, SearchesFinite
<1> QED BY <1>6, <1>8, NoMoreSearches

(* The command updated is a search before and after. *)
LEMMA BoundAfterUpdateHit ==
  ASSUME PoolAssumption, IInv, IInv', IsFiniteSet(Clients), SearchesBounded,
         NEW t \in Clients, UpdateHit(t)
  PROVE  SearchesBounded'
<1>1. PICK i \in SameKind(t) : mem' = [mem EXCEPT ![At(i)] = mem[held[t]]]
  BY DEF UpdateHit
<1>2. UNCHANGED <<pool, held>> /\ Next /\ t \in Threads /\ Goto(t, "free")
  BY DEF UpdateHit, Next, Send, Threads
<1>3. mem \in [Cells -> Commands \cup {NULL}] /\ pc \in [Threads -> Pcs]
  BY DEF IInv, TypeOK
<1>4. i \in 0..(message_num - 1) /\ mem[At(i)].kind = mem[held[t]].kind
  BY <1>1 DEF SameKind
<1>5. \A u \in Threads \ {t} : held'[u] = held[u] /\ pc'[u] = pc[u]
  BY <1>2, <1>3 DEF Goto
<1>6. pc'[t] # "send"
  BY <1>2, <1>3 DEF Goto
<1>7. SearchesToAppend' \subseteq SearchesToAppend
  BY <1>2, <1>5, <1>6, AppendersKept
<1>8. SearchesQueued' = SearchesQueued
  <2>1. \A j \in 0..(message_num - 1) : At(j)' = At(j) /\ mem'[At(j)].kind = mem[At(j)].kind
    BY <1>1, <1>2, <1>3, <1>4, QueuedCell, WindowUnchanged DEF IInv
  <2>2. message_num' = message_num
    BY <1>2 DEF pool
  <2> QED BY <2>1, <2>2 DEF SearchesQueued
<1>9. Cardinality(SearchesQueued') <= Cardinality(SearchesQueued)
  BY <1>8, SearchesFinite
<1> QED BY <1>7, <1>9, NoMoreSearches

(* A search goes on to be appended only where none is queued. *)
LEMMA BoundAfterUpdateMiss ==
  ASSUME PoolAssumption, IInv, IInv', IsFiniteSet(Clients), UpdatesSearch,
         NEW t \in Clients, UpdateMiss(t)
  PROVE  SearchesBounded'
<1>1. /\ pc[t] = "update" /\ SameKind(t) = {} /\ UNCHANGED <<pool, mem, held>> /\ t \in Threads
  BY DEF UpdateMiss, Threads
<1>2. mem[held[t]].kind = SEARCH
  BY <1>1 DEF UpdatesSearch
<1>3. SearchesQueued = {}
  <2>1. \A i \in 0..(message_num - 1) : At(i) # NULL
    BY QueuedCell DEF PoolAssumption
  <2> QED BY <1>1, <1>2, <2>1 DEF SearchesQueued, SameKind
<1>4. SearchesQueued' = {}
  BY <1>1, <1>3, WindowUnchanged DEF IInv, SearchesQueued, pool
<1>5. Cardinality(SearchesQueued') = 0
  BY <1>4, FS_EmptySet
<1>6. /\ Cardinality(SearchesToAppend') \in Nat /\ Cardinality(Clients) \in Nat
      /\ Cardinality(SearchesToAppend') <= Cardinality(Clients)
  BY SearchesFiniteNext
<1> QED BY <1>5, <1>6 DEF SearchesBounded

(* The command of t goes behind the others. *)
LEMMA BoundAfterSendRoom ==
  ASSUME PoolAssumption, IInv, IInv', IsFiniteSet(Clients), SearchesBounded,
         NEW t \in Clients, SendRoom(t)
  PROVE  SearchesBounded'
<1>1. /\ pc[t] = "send" /\ mem' = mem /\ held' = [held EXCEPT ![t] = NULL] /\ Goto(t, "idle")
      /\ message_num' = message_num + 1 /\ Next /\ t \in Threads
  BY DEF SendRoom, Next, Send, Threads
<1>2. held \in [Threads -> Cells \cup {NULL}] /\ pc \in [Threads -> Pcs] /\ message_num \in Nat
  BY DEF IInv, TypeOK
<1>3. SearchesToAppend' \subseteq SearchesToAppend \ {t}
  <2>1. \A u \in Threads \ {t} : held'[u] = held[u] /\ pc'[u] = pc[u]
    BY <1>1, <1>2 DEF Goto
  <2>2. pc'[t] # "send"
    BY <1>1, <1>2 DEF Goto
  <2> QED BY <1>1, <2>1, <2>2, AppendersKept
<1>4. \A i \in 0..message_num : At(i)' = IF i = message_num THEN held[t] ELSE At(i)
  BY <1>1, WindowAfterSendRoom
<1>5. CASE mem[held[t]].kind = SEARCH
  <2>1. t \in SearchesToAppend
    BY <1>1, <1>5 DEF SearchesToAppend
  <2>2. SearchesQueued' = SearchesQueued \cup {message_num}
    BY <1>1, <1>2, <1>4, <1>5 DEF SearchesQueued
  <2>3. message_num \notin SearchesQueued
    BY <1>2 DEF SearchesQueued
  <2>4. IsFiniteSet(SearchesQueued) /\ Cardinality(SearchesQueued) \in Nat
    BY SearchesFinite
  <2>5. Cardinality(SearchesQueued \cup {message_num}) = Cardinality(SearchesQueued) + 1
    BY <2>3, <2>4, FS_AddElement
  <2>6. Cardinality(SearchesQueued') <= Cardinality(SearchesQueued) + 1
    BY <2>2, <2>4, <2>5
  <2> QED BY <1>3, <2>1, <2>6, OneSearchMoves
<1>6. CASE mem[held[t]].kind # SEARCH
  <2>1. SearchesQueued' = SearchesQueued
    BY <1>1, <1>2, <1>4, <1>6 DEF SearchesQueued
  <2>2. Cardinality(SearchesQueued') <= Cardinality(SearchesQueued)
    BY <2>1, SearchesFinite
  <2> QED BY <1>3, <2>2, NoMoreSearches
<1> QED BY <1>5, <1>6

(* The same, and the oldest command goes. *)
LEMMA BoundAfterSendFull ==
  ASSUME PoolAssumption, IInv, IInv', IsFiniteSet(Clients), SearchesBounded,
         NEW t \in Clients, SendFull(t)
  PROVE  SearchesBounded'
<1> DEFINE n == MESSAGE_MAX - 1
           Old == {i \in 0..(n - 1) : i + 1 \in SearchesQueued}
<1>1. /\ pc[t] = "send" /\ held' = [held EXCEPT ![t] = NULL] /\ Goto(t, "idle")
      /\ mem' = [mem EXCEPT ![message_list[message_in_index]] = NULL]
      /\ Next /\ t \in Threads
  BY DEF SendFull, Next, Send, Threads
<1>2. /\ held \in [Threads -> Cells \cup {NULL}] /\ pc \in [Threads -> Pcs]
      /\ mem \in [Cells -> Commands \cup {NULL}]
      /\ MESSAGE_MAX \in Nat \ {0} /\ n \in Nat
  BY DEF PoolAssumption, IInv, TypeOK
<1>3. SearchesToAppend' \subseteq SearchesToAppend \ {t}
  <2>1. \A u \in Threads \ {t} : held'[u] = held[u] /\ pc'[u] = pc[u]
    BY <1>1, <1>2 DEF Goto
  <2>2. pc'[t] # "send"
    BY <1>1, <1>2 DEF Goto
  <2> QED BY <1>1, <2>1, <2>2, AppendersKept
<1>4. /\ message_num = MESSAGE_MAX /\ message_num' = MESSAGE_MAX
      /\ message_list[message_in_index] = At(0)
      /\ \A i \in 0..n : At(i)' = IF i = n THEN held[t] ELSE At(i + 1)
  BY <1>1, WindowAfterSendFull
<1>5. \A i \in 0..(n - 1) : At(i)' = At(i + 1) /\ mem'[At(i + 1)] = mem[At(i + 1)]
  <2> SUFFICES ASSUME NEW i \in 0..(n - 1)
               PROVE  At(i)' = At(i + 1) /\ mem'[At(i + 1)] = mem[At(i + 1)]
    OBVIOUS
  <2>1. i \in 0..n /\ i # n /\ i + 1 \in 0..(message_num - 1) /\ 0 \in 0..(message_num - 1)
    BY <1>2, <1>4
  <2>2. At(i + 1) # At(0) /\ At(i + 1) \in Cells
    BY <2>1, QueuedCell DEF IInv, OneOwner
  <2> QED BY <1>1, <1>2, <1>4, <2>1, <2>2
<1>6. At(n)' = held[t] /\ mem'[held[t]] = mem[held[t]]
  <2>1. held[t] \in Cells /\ held[t] \notin Queued
    BY <1>1, HeldCell
  <2>2. At(0) \in Queued
    BY <1>2, <1>4 DEF Queued
  <2> QED BY <1>1, <1>2, <1>4, <2>1, <2>2
<1>7. IsFiniteSet(Old) /\ Cardinality(Old) <= Cardinality(SearchesQueued)
  BY <1>2, SearchesFinite, ShiftedSmaller
<1>8. \A i \in SearchesQueued' : (i = n /\ mem[held[t]].kind = SEARCH) \/ i \in Old
  BY <1>2, <1>4, <1>5, <1>6 DEF SearchesQueued
<1> HIDE DEF Old
<1>9. CASE mem[held[t]].kind = SEARCH
  <2>1. t \in SearchesToAppend
    BY <1>1, <1>9 DEF SearchesToAppend
  <2>2. SearchesQueued' \in SUBSET (Old \cup {n})
    BY <1>8
  <2>3. /\ IsFiniteSet(Old \cup {n})
        /\ Cardinality(Old \cup {n}) = IF n \in Old THEN Cardinality(Old) ELSE Cardinality(Old) + 1
    BY <1>7, FS_AddElement
  <2>4. Cardinality(SearchesQueued') <= Cardinality(Old \cup {n})
    BY <2>2, <2>3, FS_Subset
  <2>5. /\ Cardinality(Old) \in Nat /\ Cardinality(SearchesQueued) \in Nat
        /\ Cardinality(SearchesQueued') \in Nat
    BY <1>7, SearchesFinite, SearchesFiniteNext, FS_CardinalityType
  <2>6. Cardinality(SearchesQueued') <= Cardinality(SearchesQueued) + 1
    BY <1>7, <2>3, <2>4, <2>5
  <2> QED BY <1>3, <2>1, <2>6, OneSearchMoves
<1>10. CASE mem[held[t]].kind # SEARCH
  <2>1. SearchesQueued' \in SUBSET Old
    BY <1>8, <1>10
  <2>2. Cardinality(SearchesQueued') <= Cardinality(Old)
    BY <1>7, <2>1, FS_Subset
  <2>3. /\ Cardinality(Old) \in Nat /\ Cardinality(SearchesQueued) \in Nat
        /\ Cardinality(SearchesQueued') \in Nat
    BY <1>7, SearchesFinite, SearchesFiniteNext, FS_CardinalityType
  <2>4. Cardinality(SearchesQueued') <= Cardinality(SearchesQueued)
    BY <1>7, <2>2, <2>3
  <2> QED BY <1>3, <2>4, NoMoreSearches
<1> QED BY <1>9, <1>10

(* The oldest command is taken. *)
LEMMA BoundAfterGet ==
  ASSUME PoolAssumption, IInv, IInv', IsFiniteSet(Clients), SearchesBounded,
         NEW t \in Threads, Get(t)
  PROVE  SearchesBounded'
<1>1. mem' = mem /\ Goto(t, "free") /\ Next
  BY DEF Get, Next, Player
<1>2. held \in [Threads -> Cells \cup {NULL}] /\ pc \in [Threads -> Pcs] /\ message_num \in Int
  BY DEF IInv, TypeOK
<1>3. /\ message_num' = message_num - 1
      /\ held' = [held EXCEPT ![t] = At(0)]
      /\ \A i \in 0..(message_num - 2) : At(i)' = At(i + 1)
  BY WindowAfterGet
<1>4. SearchesToAppend' \subseteq SearchesToAppend
  <2>1. \A u \in Threads \ {t} : held'[u] = held[u] /\ pc'[u] = pc[u]
    BY <1>1, <1>2, <1>3 DEF Goto
  <2>2. pc'[t] # "send"
    BY <1>1, <1>2 DEF Goto
  <2> QED BY <1>1, <2>1, <2>2, AppendersKept
<1>5. SearchesQueued' \in SUBSET Nat /\ \A i \in SearchesQueued' : i + 1 \in SearchesQueued
  BY <1>1, <1>2, <1>3 DEF SearchesQueued
<1>6. Cardinality(SearchesQueued') <= Cardinality(SearchesQueued)
  BY <1>5, SearchesFinite, ShiftedSmaller
<1> QED BY <1>4, <1>6, NoMoreSearches

(* The command freed is in no slot of the window. *)
LEMMA BoundAfterFree ==
  ASSUME PoolAssumption, IInv, IInv', IsFiniteSet(Clients), SearchesBounded,
         NEW t \in Threads, Free(t)
  PROVE  SearchesBounded'
<1>1. /\ pc[t] = "free" /\ mem' = [mem EXCEPT ![held[t]] = NULL]
      /\ held' = [held EXCEPT ![t] = NULL] /\ Goto(t, "idle") /\ UNCHANGED pool /\ Next
  BY DEF Free, Next, Player
<1>2. /\ held \in [Threads -> Cells \cup {NULL}] /\ pc \in [Threads -> Pcs]
      /\ mem \in [Cells -> Commands \cup {NULL}]
  BY DEF IInv, TypeOK
<1>3. SearchesToAppend' \subseteq SearchesToAppend
  <2>1. \A u \in Threads \ {t} : held'[u] = held[u] /\ pc'[u] = pc[u]
    BY <1>1, <1>2 DEF Goto
  <2>2. pc'[t] # "send"
    BY <1>1, <1>2 DEF Goto
  <2> QED BY <1>1, <2>1, <2>2, AppendersKept
<1>4. SearchesQueued' = SearchesQueued
  <2>1. held[t] \notin Queued
    BY <1>1, HeldCell
  <2>2. \A i \in 0..(message_num - 1) : At(i)' = At(i) /\ mem'[At(i)] = mem[At(i)]
    BY <1>1, <1>2, <2>1, QueuedCell, WindowUnchanged DEF IInv
  <2>3. message_num' = message_num
    BY <1>1 DEF pool
  <2> QED BY <2>2, <2>3 DEF SearchesQueued
<1>5. Cardinality(SearchesQueued') <= Cardinality(SearchesQueued)
  BY <1>4, SearchesFinite
<1> QED BY <1>3, <1>5, NoMoreSearches

(* Every step keeps the bound. *)
LEMMA BoundStep ==
  ASSUME PoolAssumption, IInv, IInv', UpdatesSearch, IsFiniteSet(Clients), SearchesBounded,
         [Next]_vars
  PROVE  SearchesBounded'
<1>1. CASE UNCHANGED vars
  <2>1. SearchesQueued' = SearchesQueued /\ SearchesToAppend' = SearchesToAppend
    BY <1>1 DEF vars, pool, SearchesQueued, SearchesToAppend, At, Slot, Wrap
  <2> QED BY <2>1 DEF SearchesBounded
<1>2. ASSUME NEW t \in Clients, Send(t) PROVE SearchesBounded'
  BY <1>2, BoundAfterAllocate, BoundAfterUpdateHit, BoundAfterUpdateMiss, BoundAfterSendRoom,
     BoundAfterSendFull DEF Send
<1>3. ASSUME NEW t \in Threads, Player(t) PROVE SearchesBounded'
  BY <1>3, BoundAfterGet, BoundAfterFree DEF Player
<1> QED BY <1>1, <1>2, <1>3 DEF Next

(* Searches queued and on their way never outnumber the clients, whatever the
   gap between the scan of send_message_update and the append that follows
   lets in. *)
THEOREM SearchesDoNotPileUp ==
  ASSUME IsFiniteSet(Clients)
  PROVE  Spec => []SearchesBounded
<1>1. Init => SearchesBounded
  <2> SUFFICES ASSUME Init PROVE SearchesBounded
    OBVIOUS
  <2>1. SearchesQueued = {} /\ SearchesToAppend = {}
    BY DEF Init, SearchesQueued, SearchesToAppend, Threads
  <2>2. Cardinality(SearchesQueued) = 0 /\ Cardinality(SearchesToAppend) = 0 /\ Cardinality(Clients) \in Nat
    BY <2>1, FS_EmptySet, FS_CardinalityType
  <2> QED BY <2>2 DEF SearchesBounded
<1>2. Init => UpdatesSearch
  BY UpdatesSearchInit
<1>3. IInv /\ UpdatesSearch /\ [Next]_vars => UpdatesSearch'
  BY PoolAssumption, UpdatesSearchStep
<1>4. IInv /\ IInv' /\ UpdatesSearch /\ SearchesBounded /\ [Next]_vars => SearchesBounded'
  BY PoolAssumption, BoundStep
<1> QED BY <1>1, <1>2, <1>3, <1>4, Invariance, PTL DEF Spec
=============================================================================
