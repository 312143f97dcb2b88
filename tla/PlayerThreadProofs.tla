------------------------- MODULE PlayerThreadProofs -------------------------
(* Proofs about PlayerThread, for a queue and a stream of any length, any
   commands, and fast and slow media. *)
EXTENDS PlayerThread, SequenceTheorems, TLAPS

ParaType == [end_flag : BOOLEAN, search_flag : BOOLEAN, reset_flag : BOOLEAN,
             request_end_flag : BOOLEAN, loop_flag : BOOLEAN, pause_flag : BOOLEAN,
             switch_ts_program_flag : BOOLEAN, read_end_flag : BOOLEAN,
             packet : BOOLEAN,
             time_point : -1..FullTime, status : Statuses,
             asked : Args, moved : BOOLEAN]

(* The parts of TypeOK, by the thread that stores them. *)
MainOK == /\ pc \in Pcs /\ site \in {"read", "buffering", "seek"}
          /\ res \in {"ok", "fail", "ignorable"} /\ sought \in -1..(FullTime - 1)
MateOK == /\ mate \in MatePcs /\ mate_isrunng \in BOOLEAN
          /\ mate_should_sleep \in BOOLEAN /\ mate_should_exit \in BOOLEAN
          /\ mate_sem \in 0..SEM_VALUE_MAX
SignalsOK == /\ interrupted \in BOOLEAN /\ temp_interrupt_ffmpeg \in BOOLEAN
             /\ ignore_ffmpeg_errors \in BOOLEAN
ClientsOK == stop \in {"idle", "clear", "interrupt", "send", "sent"} /\ sends \in 0..MaxSends
QueueOK == queue \in Seq(Q!Commands) /\ Len(queue) <= QueueMax /\ oldcmd \in BOOLEAN
Typed == QueueOK /\ para \in ParaType /\ MainOK /\ MateOK /\ SignalsOK /\ ClientsOK

(* Where the mate is when its mark says that it runs, and where it is when it
   touches the flags of the player. *)
Marked == {"running", "work", "cmd", "intr", "after", "update", "leave"}
Busy   == {"work", "cmd", "intr", "after", "update"}

(* The mate does not touch the flags and will not before it is woken: it is
   told to sleep, or was never woken. *)
MateAway == /\ mate \notin Busy
            /\ mate_should_sleep \/ (mate_sem = 0 /\ mate \in {"none", "sem"})

(* The player thread is where it must not meet its mate: outside of the calls,
   and inside a read that does not wake the mate. *)
Alone == pc \notin Inside \/ (pc = "reading" /\ site = "read" /\ ~ Network)

(* The handshake of the two threads. *)
Handshake ==
  /\ mate_isrunng <=> mate \in Marked
  /\ pc \in {"open", "dec_init", "wait_start", "prepare"} => mate = "none"
  /\ Alone => MateAway
  /\ pc = "sleep3" => mate_should_sleep

(* A seek from the time it was taken up until it is judged. *)
InSeek == site = "seek" /\ pc \in {"reading", "sleep", "sleep2", "sleep3", "judge"}

(* A search that is flagged is for the time last asked for, which is in the
   stream, unless something else has set the time since. *)
Current(p) == p.search_flag => p.moved \/ (p.time_point = p.asked /\ p.asked < FullTime)

(* The player has come to its end. *)
Last == {"release", "join", "exit", "done"}

(* While the source seeks, a search for a time other than the one sought has
   flagged an end; such a seek is the only one that may leave a time behind
   that was not asked for. *)
SeekTold ==
  /\ pc = "seek" => site = "seek"
  /\ InSeek /\ ~ para.end_flag /\ para.search_flag => sought = para.asked \/ para.moved
  /\ pc \notin Last => Current(para) \/ (InSeek /\ para.end_flag)

(* From the join of the mate on an error is not one after a stop; and the
   state EXIT is the last. *)
StopKnown == /\ pc = "exit" => ~ (para.status = "ERROR" /\ para.request_end_flag)
             /\ pc = "done" <=> para.status = "EXIT"

IInv == Typed /\ Handshake /\ SeekTold /\ StopKnown
-----------------------------------------------------------------------------
LEMMA Constants ==
  /\ FullTime \in Nat \ {0} /\ QueueMax \in Nat \ {0} /\ MaxSends \in Nat /\ SEM_VALUE_MAX \in Nat \ {0}
  /\ Sendable \subseteq Q!Commands /\ [kind |-> "STOP", arg |-> 0] \in Q!Commands
  BY PlayerAssumption DEF Q!Commands, Kinds, Args

(* What the commands and the updates may make of the flags: an end that is
   flagged stays, a search that is flagged stays what it is for, another comes
   with an end or a switch of the program, and the states SEARCHOK and EXIT
   are not theirs to give. *)
Later(p, q) ==
  /\ q \in ParaType
  /\ p.end_flag => q.end_flag
  /\ Current(p) => Current(q)
  /\ ~ q.end_flag => /\ q.asked = p.asked
                     /\ p.moved => q.moved
                     /\ q.search_flag => p.search_flag \/ q.moved
  /\ q.status = p.status \/ q.status \notin {"SEARCHOK", "EXIT"}

LEMMA LaterReflexive == ASSUME NEW p \in ParaType PROVE Later(p, p)
  BY DEF Later

LEMMA LaterTransitive ==
  ASSUME NEW p, NEW q, NEW r, Later(p, q), Later(q, r)
  PROVE  Later(p, r)
  BY DEF Later

LEMMA CheckMsgLater ==
  ASSUME NEW p \in ParaType, NEW c \in Q!Commands
  PROVE  Later(p, check_msg(p, c))
  <1>0. -1 \in -1..FullTime /\ 0 \in -1..FullTime BY Constants
  <1>1. c.kind \in Kinds /\ c.arg \in Args BY DEF Q!Commands
  <1>2. CASE c.kind = "STOP"
    <2>1. check_msg(p, c) = [p EXCEPT !.end_flag = TRUE, !.loop_flag = FALSE,
                                      !.search_flag = FALSE, !.request_end_flag = TRUE]
          BY <1>2 DEF check_msg
    <2>2. QED BY <2>1, ZenonT(30) DEF Later, Current, ParaType
  <1>3. CASE c.kind = "SEARCH"
    <2>1. check_msg(p, c) = Seek(p, c.arg) BY <1>3 DEF check_msg
    <2>2. CASE InRange(c.arg)
      <3>1. c.arg \in -1..FullTime BY <1>1, <2>2, Constants DEF InRange, Args
      <3>2. check_msg(p, c) = [p EXCEPT !.search_flag = TRUE, !.time_point = c.arg, !.end_flag = TRUE,
                                        !.asked = c.arg, !.moved = FALSE]
            BY <2>1, <2>2 DEF Seek
      <3>3. c.arg \in Args /\ c.arg < FullTime BY <1>1, <2>2 DEF InRange
      <3>4. QED BY <3>1, <3>2, <3>3, ZenonT(30) DEF Later, Current, ParaType
    <2>3. CASE ~ InRange(c.arg) /\ c.arg < 0
      <3>1. check_msg(p, c) = [p EXCEPT !.reset_flag = TRUE, !.time_point = -1, !.end_flag = TRUE,
                                        !.asked = c.arg, !.moved = FALSE]
            BY <2>1, <2>3 DEF Seek
      <3>2. c.arg = -1 /\ -1 < FullTime /\ c.arg \in Args BY <1>1, <2>3, Constants DEF Args
      <3> DEFINE q == check_msg(p, c)
      <3>3. q \in ParaType BY <1>0, <3>1, <3>2 DEF ParaType
      <3>4. q.end_flag /\ q.time_point = -1 /\ q.asked = -1 /\ q.status = p.status
            BY <3>1, <3>2 DEF ParaType
      <3>5. Current(q) BY <3>2, <3>4 DEF Current
      <3>6. QED BY <3>3, <3>4, <3>5 DEF Later
    <2>4. CASE ~ InRange(c.arg) /\ ~ (c.arg < 0)
      <3>1. check_msg(p, c) = [p EXCEPT !.end_flag = TRUE, !.search_flag = FALSE, !.status = "PLAYEND",
                                        !.asked = c.arg, !.moved = FALSE]
            BY <2>1, <2>4 DEF Seek
      <3>2. QED BY <1>1, <3>1, ZenonT(30) DEF Later, Current, ParaType, Statuses
    <2>5. QED BY <2>2, <2>3, <2>4
  <1>4. CASE c.kind \in {"PAUSE", "RESUME"}
    <2> DEFINE pause == c.kind = "PAUSE"
    <2>1. check_msg(p, c) = p \/ check_msg(p, c) = [p EXCEPT !.pause_flag = pause]
          BY <1>4 DEF check_msg
    <2>2. pause \in BOOLEAN OBVIOUS
    <2> HIDE DEF pause
    <2>3. QED BY <2>1, <2>2, LaterReflexive, ZenonT(30) DEF Later, Current, ParaType
  <1>5. CASE c.kind \in {"LOOP", "NOLOOP"}
    <2> DEFINE loop == c.kind = "LOOP"
    <2>1. check_msg(p, c) = [p EXCEPT !.loop_flag = loop] BY <1>5 DEF check_msg
    <2>2. loop \in BOOLEAN OBVIOUS
    <2> HIDE DEF loop
    <2>3. QED BY <2>1, <2>2, ZenonT(30) DEF Later, Current, ParaType
  <1>6. CASE c.kind = "TSPROGRAM"
    <2>1. check_msg(p, c) = [p EXCEPT !.switch_ts_program_flag = TRUE, !.search_flag = TRUE, !.time_point = 0,
                                      !.moved = TRUE]
          BY <1>6 DEF check_msg
    <2>2. QED BY <1>0, <2>1, ZenonT(30) DEF Later, Current, ParaType
  <1>7. CASE c.kind = "START"
    <2>1. check_msg(p, c) = p BY <1>7 DEF check_msg
    <2>2. QED BY <2>1, LaterReflexive
  <1>8. QED BY <1>1, <1>2, <1>3, <1>4, <1>5, <1>6, <1>7 DEF Kinds

LEMMA UpdatedLater ==
  ASSUME NEW p \in ParaType, NEW q \in Updated(p)
  PROVE  Later(p, q)
  <1> DEFINE e == [p EXCEPT !.end_flag = TRUE]
             s == [p EXCEPT !.end_flag = TRUE, !.search_flag = FALSE]
  <1>1. q \in {p, e, s, Played(p)} BY DEF Updated
  <1>2. Later(p, p) BY LaterReflexive
  <1>3. Later(p, e) BY DEF Later, Current, ParaType
  <1>4. Later(p, s) BY DEF Later, Current, ParaType
  <1>5. Later(p, Played(p)) BY DEF Later, Current, ParaType, Played, Statuses
  <1>6. QED BY <1>1, <1>2, <1>3, <1>4, <1>5

LEMMA PauseOrResumeLater ==
  ASSUME NEW p \in ParaType, NEW q \in PauseOrResume(p)
  PROVE  Later(p, q)
  <1> DEFINE r(s) == [p EXCEPT !.status = s]
  <1>1. ASSUME NEW s \in {"PAUSE", "RUNNING"} PROVE Later(p, r(s)) BY DEF Later, Current, ParaType, Statuses
  <1>2. r("RUNNING") \in ParaType BY <1>1 DEF Later
  <1>3. q = r("PAUSE") \/ q \in Updated(r("RUNNING")) \/ q = p BY DEF PauseOrResume
  <1> HIDE DEF r
  <1>4. QED BY <1>1, <1>2, <1>3, UpdatedLater, LaterTransitive, LaterReflexive

LEMMA WatchedLater ==
  ASSUME NEW p \in ParaType, NEW q \in Watched(p)
  PROVE  Later(p, q)
  <1>1. CASE q = p BY <1>1, LaterReflexive
  <1>2. CASE q # p
    <2>1. PICK t \in {-1} \cup 1..FullTime :
                 q = [p EXCEPT !.reset_flag = TRUE, !.end_flag = TRUE, !.time_point = t, !.moved = TRUE]
          BY <1>2 DEF Watched
    <2>2. t \in -1..FullTime BY Constants
    <2>3. QED BY <2>1, <2>2 DEF Later, Current, ParaType
  <1>3. QED BY <1>1, <1>2

LEMMA EndedLater == ASSUME NEW p \in ParaType PROVE Later(p, Ended(p))
  BY DEF Later, Current, ParaType, Ended, EndStatus, Statuses

LEMMA ExecuteNextLater ==
  ASSUME NEW p \in ParaType, QueueOK
  PROVE  Later(p, ExecuteNext(p))
  <1>1. CASE queue = << >> BY <1>1, LaterReflexive DEF ExecuteNext
  <1>2. CASE queue # << >>
    <2>1. Head(queue) \in Q!Commands BY <1>2, HeadTailProperties DEF QueueOK
    <2>2. QED BY <1>2, <2>1, CheckMsgLater DEF ExecuteNext
  <1>3. QED BY <1>1, <1>2

LEMMA CheckedLater ==
  ASSUME NEW p \in ParaType, NEW f \in Checked(p)
  PROVE  Later(p, f.para)
  BY EndedLater, PauseOrResumeLater DEF Checked
-----------------------------------------------------------------------------
(* The queue under its operations. *)
LEMMA TakeNextTyped == QueueOK /\ TakeNext => QueueOK'
  <1> SUFFICES ASSUME QueueOK, TakeNext PROVE QueueOK' OBVIOUS
  <1>1. CASE queue = << >> BY <1>1 DEF QueueOK, TakeNext
  <1>2. CASE queue # << >>
    <2>1. Tail(queue) \in Seq(Q!Commands) /\ Len(Tail(queue)) = Len(queue) - 1
          BY <1>2, HeadTailProperties DEF QueueOK
    <2>2. (Head(queue).kind = "SEARCH") \in BOOLEAN OBVIOUS
    <2>3. Len(queue) \in Nat BY DEF QueueOK
    <2>4. Len(Tail(queue)) <= QueueMax BY <2>1, <2>3, Constants DEF QueueOK
    <2>5. QED BY <1>2, <2>1, <2>2, <2>4 DEF QueueOK, TakeNext
  <1>3. QED BY <1>1, <1>2

LEMMA TailTyped ==
  ASSUME QueueOK, queue # << >>, queue' = Tail(queue), UNCHANGED oldcmd
  PROVE  QueueOK'
  <1>1. Tail(queue) \in Seq(Q!Commands) /\ Len(Tail(queue)) = Len(queue) - 1
        BY HeadTailProperties DEF QueueOK
  <1>2. Len(queue) \in Nat BY DEF QueueOK
  <1>3. Len(Tail(queue)) <= QueueMax BY <1>1, <1>2, Constants DEF QueueOK
  <1>4. QED BY <1>1, <1>3 DEF QueueOK

LEMMA DrainToStopTyped == QueueOK /\ DrainToStop /\ UNCHANGED oldcmd => QueueOK'
  <1> SUFFICES ASSUME QueueOK, DrainToStop, UNCHANGED oldcmd PROVE QueueOK' OBVIOUS
  <1> USE Constants
  <1>1. CASE queue' = << >> BY <1>1 DEF QueueOK
  <1>2. CASE \E n \in 1..Len(queue) : queue' = SubSeq(queue, n + 1, Len(queue))
    <2>1. PICK n \in 1..Len(queue) : queue' = SubSeq(queue, n + 1, Len(queue)) BY <1>2
    <2>2. n + 1 \in Int /\ Len(queue) \in Nat BY DEF QueueOK
    <2>3. \A i \in (n + 1)..Len(queue) : queue[i] \in Q!Commands BY DEF QueueOK
    <2>4. /\ queue' \in Seq(Q!Commands)
          /\ Len(queue') = IF n + 1 <= Len(queue) THEN Len(queue) - (n + 1) + 1 ELSE 0
          BY <2>1, <2>2, <2>3, SubSeqProperties
    <2>5. Len(queue') <= QueueMax BY <2>2, <2>4 DEF QueueOK
    <2>6. QED BY <2>4, <2>5 DEF QueueOK
  <1>3. QED BY <1>1, <1>2 DEF DrainToStop

LEMMA PostTyped ==
  ASSUME QueueOK, UNCHANGED oldcmd, NEW c \in Q!Commands, Q!Post(c)
  PROVE  QueueOK'
  <1> USE Constants
  <1>0. Len(queue) \in Nat BY DEF QueueOK
  <1>1. CASE Len(queue) < QueueMax
    <2>1. queue' = Append(queue, c) BY <1>1 DEF Q!Post
    <2>2. queue' \in Seq(Q!Commands) /\ Len(queue') = Len(queue) + 1
          BY <2>1, AppendProperties DEF QueueOK
    <2>3. QED BY <1>0, <1>1, <2>2 DEF QueueOK
  <1>2. CASE ~ (Len(queue) < QueueMax)
    <2>1. queue' = Append(Tail(queue), c) /\ queue # << >> BY <1>2 DEF Q!Post
    <2>2. Tail(queue) \in Seq(Q!Commands) /\ Len(Tail(queue)) = Len(queue) - 1
          BY <2>1, HeadTailProperties DEF QueueOK
    <2>3. queue' \in Seq(Q!Commands) /\ Len(queue') = Len(queue)
          BY <1>0, <2>1, <2>2, AppendProperties
    <2>4. QED BY <2>3 DEF QueueOK
  <1>3. QED BY <1>1, <1>2

LEMMA CoalesceTyped ==
  ASSUME QueueOK, UNCHANGED oldcmd, NEW c \in Q!Commands, Q!Coalesce(c)
  PROVE  QueueOK'
  <1>1. PICK i \in 1..Len(queue) : queue' = [queue EXCEPT ![i] = c] BY DEF Q!Coalesce
  <1>2. queue' \in Seq(Q!Commands) /\ Len(queue') = Len(queue) BY <1>1 DEF QueueOK
  <1>3. QED BY <1>2 DEF QueueOK
-----------------------------------------------------------------------------
LEMMA InitIInv == Init => IInv
  <1> SUFFICES ASSUME Init PROVE IInv OBVIOUS
  <1>0. /\ queue = << >> /\ oldcmd = FALSE /\ pc = "open" /\ site = "read" /\ res = "ok" /\ sought = -1
        /\ mate = "none" /\ mate_isrunng = FALSE /\ mate_sem = 0
        /\ mate_should_sleep = FALSE /\ mate_should_exit = FALSE
        /\ interrupted = FALSE /\ temp_interrupt_ffmpeg = FALSE /\ ignore_ffmpeg_errors = FALSE
        /\ stop = "idle" /\ sends = 0 /\ para.status = "INITING" /\ ~ para.search_flag
        BY DEF Init
  <1>1. QueueOK
    <2>1. queue \in Seq(Q!Commands) /\ Len(queue) <= QueueMax BY <1>0, Constants
    <2>2. oldcmd \in BOOLEAN BY <1>0
    <2>3. QED BY <2>1, <2>2 DEF QueueOK
  <1>2. para \in ParaType BY Constants DEF Init, ParaType, Statuses, Args
  <1>3. MainOK BY <1>0, Constants DEF MainOK, Pcs
  <1>4. MateOK
    <2>1. mate_sem \in 0..SEM_VALUE_MAX BY <1>0, Constants
    <2>2. mate_isrunng \in BOOLEAN /\ mate_should_sleep \in BOOLEAN /\ mate_should_exit \in BOOLEAN
          BY <1>0
    <2>3. QED BY <1>0, <2>1, <2>2 DEF MateOK, MatePcs
  <1>5. SignalsOK BY <1>0 DEF SignalsOK
  <1>6. ClientsOK BY <1>0, Constants DEF ClientsOK
  <1>7. Handshake BY <1>0 DEF Handshake, Marked, Busy, Alone, MateAway, Inside
  <1>8. SeekTold /\ StopKnown BY <1>0 DEF SeekTold, InSeek, Current, StopKnown
  <1>9. QED BY <1>1, <1>2, <1>3, <1>4, <1>5, <1>6, <1>7, <1>8 DEF IInv, Typed

(* TypeOK is Typed. *)
LEMMA TypedIsTypeOK == Typed => TypeOK
  BY DEF Typed, TypeOK, QueueOK, Q!TypeOK, ParaType, MainOK, MateOK, SignalsOK, ClientsOK

(* A mate that touches the flags does so while the player thread is inside. *)
LEMMA BusyInside == Handshake /\ mate \in Busy => pc \in Inside
  BY DEF Handshake, Alone, MateAway
-----------------------------------------------------------------------------
(* A step of the mate or of a client. *)
LEMMA SideStep ==
  ASSUME IInv, UNCHANGED main, Later(para, para'), para' = para \/ pc \in Inside,
         QueueOK', MateOK', SignalsOK', ClientsOK', Handshake'
  PROVE  IInv'
  <1> USE DEF main
  <1>1. Typed' BY DEF IInv, Typed, MainOK, Later
  <1>2. SeekTold' BY DEF IInv, SeekTold, InSeek, Later
  <1>3. StopKnown' BY DEF IInv, StopKnown, Later, Inside
  <1>4. QED BY <1>1, <1>2, <1>3 DEF IInv

LEMMA HandshakeKept == Handshake /\ UNCHANGED <<main, mates>> => Handshake'
  BY DEF Handshake, main, mates, Alone, MateAway

LEMMA ClientStep ==
  ASSUME IInv, QueueOK', ClientsOK', SignalsOK', UNCHANGED <<para, main, mates>>
  PROVE  IInv'
  <1>1. MateOK' /\ Handshake' BY HandshakeKept DEF IInv, Typed, MateOK, mates
  <1>2. Later(para, para') BY LaterReflexive DEF IInv, Typed
  <1>3. QED BY <1>1, <1>2, SideStep

(* The clients send, and stop the player. *)
LEMMA SendKeeps == IInv /\ Send => IInv'
  <1> SUFFICES ASSUME IInv, Send PROVE IInv' OBVIOUS
  <1>1. QueueOK' BY Constants, PostTyped, CoalesceTyped DEF IInv, Typed, Send
  <1>2. ClientsOK' BY Constants DEF IInv, Typed, ClientsOK, Send
  <1>3. SignalsOK' BY DEF IInv, Typed, SignalsOK, Send, signals
  <1>4. UNCHANGED <<para, main, mates>> BY DEF Send
  <1>5. QED BY <1>1, <1>2, <1>3, <1>4, ClientStep

LEMMA StopperKeeps == IInv /\ Stopper => IInv'
  <1> SUFFICES ASSUME IInv, Stopper PROVE IInv' OBVIOUS
  <1> USE DEF StopBegins, StopClears, StopInterrupts, StopSends
  <1>1. QueueOK'
    <2>1. CASE StopBegins \/ StopInterrupts BY <2>1 DEF IInv, Typed, QueueOK
    <2>2. CASE StopClears
      <3>1. CASE Q!Take BY <2>2, <3>1, TailTyped DEF IInv, Typed, Q!Take
      <3>2. CASE UNCHANGED queue BY <2>2, <3>2 DEF IInv, Typed, QueueOK
      <3>3. QED BY <2>2, <3>1, <3>2
    <2>3. CASE StopSends BY <2>3, Constants, PostTyped DEF IInv, Typed
    <2>4. QED BY <2>1, <2>2, <2>3 DEF Stopper
  <1>2. ClientsOK' BY DEF IInv, Typed, ClientsOK, Stopper
  <1>3. SignalsOK' BY DEF IInv, Typed, SignalsOK, signals, Stopper
  <1>4. UNCHANGED <<para, main, mates>> BY DEF Stopper
  <1>5. QED BY <1>1, <1>2, <1>3, <1>4, ClientStep
-----------------------------------------------------------------------------
(* The mate goes where it may be. *)
LEMMA MateGoes ==
  ASSUME IInv, UNCHANGED main, NEW at \in MatePcs, mate' = at,
         NEW n \in 0..SEM_VALUE_MAX, n <= mate_sem, mate_sem' = n,
         UNCHANGED <<mate_should_sleep, mate_should_exit>>,
         mate_isrunng' \in BOOLEAN, mate_isrunng' <=> at \in Marked,
         at \in Busy => mate \in Busy \/ ~ mate_should_sleep,
         mate # "none", mate = "sem" => mate_sem > 0
  PROVE  MateOK' /\ Handshake'
  <1> USE DEF main
  <1>1. mate_sem \in Nat BY DEF IInv, Typed, MateOK
  <1>2. MateOK' BY DEF IInv, Typed, MateOK, Marked
  <1>3. Alone' => MateAway'
    <2> SUFFICES ASSUME Alone PROVE MateAway' BY DEF Alone
    <2>1. MateAway BY DEF IInv, Handshake
    <2>2. mate_should_sleep BY <1>1, <2>1 DEF MateAway
    <2>3. QED BY <2>1, <2>2 DEF MateAway
  <1>4. Handshake'
    <2>1. mate_isrunng' <=> mate' \in Marked OBVIOUS
    <2>2. pc' \in {"open", "dec_init", "wait_start", "prepare"} => mate' = "none"
          BY DEF IInv, Handshake
    <2>3. pc' = "sleep3" => mate_should_sleep' BY DEF IInv, Handshake
    <2>4. QED BY <1>3, <2>1, <2>2, <2>3 DEF Handshake
  <1>5. QED BY <1>2, <1>4

(* The mate moves on and leaves the rest alone. *)
LEMMA MateMoves ==
  ASSUME IInv, UNCHANGED <<queue, para, oldcmd, main, signals, clients>>, MateOK', Handshake'
  PROVE  IInv'
  <1>1. QueueOK' /\ SignalsOK' /\ ClientsOK'
        BY DEF IInv, Typed, QueueOK, SignalsOK, ClientsOK, signals, clients
  <1>2. Later(para, para') BY LaterReflexive DEF IInv, Typed
  <1>3. QED BY <1>1, <1>2, SideStep

(* What MateGoto leaves of the handshake. *)
LEMMA MateGotoKeeps ==
  ASSUME IInv, UNCHANGED main, NEW at \in MatePcs, MateGoto(at),
         mate \in Marked, at \in Marked,
         at \in Busy => mate \in Busy \/ ~ mate_should_sleep
  PROVE  MateOK' /\ Handshake'
  <1>1. mate_sem \in 0..SEM_VALUE_MAX /\ mate_sem <= mate_sem BY DEF IInv, Typed, MateOK
  <1>2. mate_isrunng' \in BOOLEAN /\ (mate_isrunng' <=> at \in Marked)
        BY DEF MateGoto, IInv, Handshake, Typed, MateOK
  <1>3. mate # "none" /\ mate # "sem" BY DEF Marked
  <1>4. QED BY <1>1, <1>2, <1>3, MateGoes DEF MateGoto

LEMMA MateSemWaitKeeps == IInv /\ MateSemWait => IInv'
  <1> SUFFICES ASSUME IInv, MateSemWait PROVE IInv' OBVIOUS
  <1>1. mate_sem \in 0..SEM_VALUE_MAX /\ mate_isrunng \in BOOLEAN /\ (mate_isrunng <=> mate \in Marked)
        BY DEF IInv, Typed, MateOK, Handshake
  <1>2. /\ mate = "sem" /\ mate_sem > 0 /\ mate' = "woken" /\ mate_sem' = mate_sem - 1
        /\ UNCHANGED <<queue, para, oldcmd, main, signals, clients>>
        /\ UNCHANGED <<mate_isrunng, mate_should_sleep, mate_should_exit>>
        BY DEF MateSemWait
  <1>3. mate_sem - 1 \in 0..SEM_VALUE_MAX /\ mate_sem - 1 <= mate_sem BY <1>1, <1>2, Constants
  <1>4. "woken" \in MatePcs /\ "woken" \notin Marked /\ "woken" \notin Busy BY DEF MatePcs, Marked, Busy
  <1>5. mate \notin Marked BY <1>2 DEF Marked
  <1>6. mate_isrunng' \in BOOLEAN /\ (mate_isrunng' <=> "woken" \in Marked) BY <1>1, <1>2, <1>4, <1>5
  <1>7. MateOK' /\ Handshake' BY <1>2, <1>3, <1>4, <1>6, MateGoes
  <1>8. QED BY <1>2, <1>7, MateMoves

LEMMA MateIsRunningKeeps == IInv /\ MateIsRunning => IInv'
  <1> SUFFICES ASSUME IInv, MateIsRunning PROVE IInv' OBVIOUS
  <1>1. mate_sem \in 0..SEM_VALUE_MAX /\ mate_sem <= mate_sem BY DEF IInv, Typed, MateOK
  <1>2. /\ mate = "woken" /\ mate' = "running" /\ mate_isrunng' = TRUE
        /\ UNCHANGED <<queue, para, oldcmd, main, signals, clients>>
        /\ UNCHANGED <<mate_sem, mate_should_sleep, mate_should_exit>>
        BY DEF MateIsRunning
  <1>3. "running" \in MatePcs /\ "running" \in Marked /\ "running" \notin Busy BY DEF MatePcs, Marked, Busy
  <1>4. mate_isrunng' \in BOOLEAN /\ (mate_isrunng' <=> "running" \in Marked) BY <1>2, <1>3
  <1>5. MateOK' /\ Handshake' BY <1>1, <1>2, <1>3, <1>4, MateGoes
  <1>6. QED BY <1>2, <1>5, MateMoves

LEMMA MateLeavesKeeps == IInv /\ MateLeaves => IInv'
  <1> SUFFICES ASSUME IInv, MateLeaves PROVE IInv' OBVIOUS
  <1> DEFINE at == IF mate_should_exit THEN "dead" ELSE "sem"
  <1>1. mate_sem \in 0..SEM_VALUE_MAX /\ mate_sem <= mate_sem BY DEF IInv, Typed, MateOK
  <1>2. /\ mate = "leave" /\ mate' = at /\ mate_isrunng' = FALSE
        /\ UNCHANGED <<queue, para, oldcmd, main, signals, clients>>
        /\ UNCHANGED <<mate_sem, mate_should_sleep, mate_should_exit>>
        BY DEF MateLeaves
  <1>3. at \in MatePcs /\ at \notin Marked /\ at \notin Busy BY DEF MatePcs, Marked, Busy
  <1> HIDE DEF at
  <1>4. mate_isrunng' \in BOOLEAN /\ (mate_isrunng' <=> at \in Marked) BY <1>2, <1>3
  <1>5. MateOK' /\ Handshake' BY <1>1, <1>2, <1>3, <1>4, MateGoes
  <1>6. QED BY <1>2, <1>5, MateMoves

(* The mate looks whether it should sleep, before it touches anything. *)
LEMMA MateLooksKeeps == IInv /\ (MateDecides \/ MateRound) => IInv'
  <1> SUFFICES ASSUME IInv, MateDecides \/ MateRound PROVE IInv' OBVIOUS
  <1>1. PICK at \in {"leave", "work", "cmd"} :
               /\ MateGoto(at) /\ mate \in {"running", "work"}
               /\ at \in Busy => mate \in Busy \/ ~ mate_should_sleep
        BY DEF MateDecides, MateRound, Busy
  <1>2. UNCHANGED <<queue, para, oldcmd, main, signals, clients>> BY DEF MateDecides, MateRound
  <1>3. at \in MatePcs /\ at \in Marked /\ mate \in Marked BY <1>1 DEF MatePcs, Marked
  <1>4. MateOK' /\ Handshake' BY <1>1, <1>2, <1>3, MateGotoKeeps
  <1>5. QED BY <1>2, <1>4, MateMoves

(* A step of the mate among the flags. *)
LEMMA BusyStep ==
  ASSUME IInv, mate \in Busy, NEW at \in Busy, MateGoto(at),
         UNCHANGED <<main, clients>>, Later(para, para'), QueueOK', SignalsOK'
  PROVE  IInv'
  <1>1. mate \in Marked /\ at \in Marked /\ at \in MatePcs BY DEF Busy, Marked, MatePcs
  <1>2. MateOK' /\ Handshake' BY <1>1, MateGotoKeeps
  <1>3. pc \in Inside BY BusyInside DEF IInv
  <1>4. ClientsOK' BY DEF IInv, Typed, ClientsOK, clients
  <1>5. QED BY <1>2, <1>3, <1>4, SideStep

LEMMA MateCommandKeeps == IInv /\ MateCommand => IInv'
  <1> SUFFICES ASSUME IInv, MateCommand PROVE IInv' OBVIOUS
  <1>1. PICK at \in {"intr", "after", "update"} : MateGoto(at) BY DEF MateCommand
  <1>2. mate \in Busy /\ at \in Busy BY <1>1 DEF MateCommand, Busy
  <1>3. UNCHANGED <<main, signals, clients>> BY DEF MateCommand
  <1>4. SignalsOK' BY <1>3 DEF IInv, Typed, SignalsOK, signals
  <1>5. QueueOK /\ para \in ParaType BY DEF IInv, Typed
  <1>6. CASE para' = ExecuteNext(para) /\ TakeNext
        BY <1>1, <1>2, <1>3, <1>4, <1>5, <1>6, ExecuteNextLater, TakeNextTyped, BusyStep
  <1>7. CASE UNCHANGED <<queue, para, oldcmd>>
    <2>1. QueueOK' /\ Later(para, para') BY <1>5, <1>7, LaterReflexive DEF QueueOK
    <2>2. QED BY <1>1, <1>2, <1>3, <1>4, <2>1, BusyStep
  <1>8. QED BY <1>6, <1>7 DEF MateCommand

LEMMA MateFlagsKeeps == IInv /\ (MateInterrupts \/ MatePauses \/ MateUpdates) => IInv'
  <1> SUFFICES ASSUME IInv, MateInterrupts \/ MatePauses \/ MateUpdates PROVE IInv' OBVIOUS
  <1> USE DEF MateInterrupts, MatePauses, MateUpdates
  <1>1. PICK at \in {"after", "update", "work"} : MateGoto(at) OBVIOUS
  <1>2. mate \in Busy /\ at \in Busy BY <1>1 DEF Busy
  <1>3. UNCHANGED <<queue, oldcmd, main, clients>> OBVIOUS
  <1>4. SignalsOK' BY DEF IInv, Typed, SignalsOK, signals
  <1>5. QueueOK' BY <1>3 DEF IInv, Typed, QueueOK
  <1>6. Later(para, para')
    <2>1. para \in ParaType BY DEF IInv, Typed
    <2>2. para' = para \/ para' \in PauseOrResume(para) \/ para' \in Updated(para) OBVIOUS
    <2>3. QED BY <2>1, <2>2, LaterReflexive, PauseOrResumeLater, UpdatedLater
  <1>7. QED BY <1>1, <1>2, <1>3, <1>4, <1>5, <1>6, BusyStep

LEMMA MateKeeps == IInv /\ Mate => IInv'
  BY MateSemWaitKeeps, MateIsRunningKeeps, MateLooksKeeps, MateCommandKeeps, MateFlagsKeeps,
     MateLeavesKeeps DEF Mate
-----------------------------------------------------------------------------
(* The player thread.  It goes to a place outside of its calls, with its mate
   away. *)
Start4 == {"open", "dec_init", "wait_start", "prepare"}
End3   == {"join", "exit", "done"}

LEMMA OutStep ==
  ASSUME IInv, NEW at \in Pcs \ Inside, Goto(at),
         QueueOK', para' \in ParaType, SignalsOK', MateOK', UNCHANGED clients,
         MateAway', mate_isrunng' <=> mate' \in Marked,
         at \in Start4 => mate' = "none",
         at \notin Last => Current(para'),
         at = "exit" => ~ (para'.status = "ERROR" /\ para'.request_end_flag),
         at = "done" <=> para'.status = "EXIT"
  PROVE  IInv'
  <1>1. pc' = at /\ site' = "read" /\ res' = "ok" /\ sought' = -1 BY DEF Goto
  <1>2. MainOK' BY <1>1, Constants DEF MainOK
  <1>3. ClientsOK' BY DEF IInv, Typed, ClientsOK, clients
  <1>4. Handshake' BY <1>1 DEF Handshake, Inside, Start4
  <1>5. ~ InSeek' BY <1>1 DEF InSeek
  <1>6. pc' # "seek" BY <1>1 DEF Inside
  <1>7. SeekTold' BY <1>1, <1>5, <1>6 DEF SeekTold
  <1>8. StopKnown' BY <1>1 DEF StopKnown
  <1>9. QED BY <1>2, <1>3, <1>4, <1>7, <1>8 DEF IInv, Typed

(* From one such place to another, until the release. *)
LEMMA OutQuiet ==
  ASSUME IInv, pc \notin Inside, pc \notin End3,
         NEW at \in Pcs \ Inside, Goto(at), UNCHANGED <<mates, signals, clients>>,
         QueueOK', para' \in ParaType,
         at \in Start4 => pc \in Start4, at \notin End3,
         at # "release" => Current(para'), para'.status # "EXIT"
  PROVE  IInv'
  <1> USE DEF IInv, mates
  <1>1. SignalsOK' BY DEF Typed, SignalsOK, signals
  <1>2. MateOK' BY DEF Typed, MateOK
  <1>3. MateAway' BY DEF Handshake, Alone, MateAway
  <1>4. mate_isrunng' <=> mate' \in Marked BY DEF Handshake
  <1>5. at \in Start4 => mate' = "none" BY DEF Handshake, Start4
  <1>6. at \notin Last => Current(para') BY DEF Last
  <1>7. at # "exit" /\ at # "done" BY DEF End3
  <1>8. UNCHANGED clients OBVIOUS
  <1> HIDE DEF IInv
  <1>9. QED BY <1>1, <1>2, <1>3, <1>4, <1>5, <1>6, <1>7, <1>8, OutStep

LEMMA StatusTyped ==
  ASSUME NEW p \in ParaType, NEW s \in Statuses
  PROVE  /\ [p EXCEPT !.status = s] \in ParaType /\ [p EXCEPT !.status = s].status = s
         /\ Current(p) => Current([p EXCEPT !.status = s])
  BY DEF ParaType, Current

(* What OutQuiet asks, of a failure. *)
LEMMA FailKeeps ==
  ASSUME IInv, pc \notin Inside, pc \notin End3, Fail("release"),
         QueueOK', UNCHANGED <<mates, signals, clients>>
  PROVE  IInv'
  <1>1. para \in ParaType BY DEF IInv, Typed
  <1>2. para' \in ParaType /\ para'.status = "ERROR"
        BY <1>1, StatusTyped DEF Fail, Statuses
  <1>3. Goto("release") BY DEF Fail
  <1>4. "release" \in Pcs \ Inside /\ "release" \notin Start4 \cup End3
        BY DEF Pcs, Inside, Start4, End3
  <1>5. QED BY <1>2, <1>3, <1>4, OutQuiet

(* Outside of its calls, but for the judgement of a seek, the player thread has
   no search flagged for a time that was not asked for. *)
LEMMA CurrentOutside ==
  ASSUME IInv, pc \notin Inside, pc \notin Last, ~ (pc = "judge" /\ site = "seek")
  PROVE  Current(para)
  BY DEF IInv, SeekTold, InSeek, Inside

LEMMA QueueUnchanged == IInv /\ UNCHANGED <<queue, oldcmd>> => QueueOK'
  BY DEF IInv, Typed, QueueOK

LEMMA OpenKeeps == IInv /\ Open => IInv'
  <1> SUFFICES ASSUME IInv, Open PROVE IInv' OBVIOUS
  <1>1. /\ pc \notin Inside /\ pc \notin End3 /\ pc \in Start4 /\ para \in ParaType /\ Current(para)
        BY CurrentOutside DEF Open, Inside, Start4, End3, Last, IInv, Typed
  <1>2. QueueOK' /\ UNCHANGED <<mates, signals, clients>> BY QueueUnchanged DEF Open
  <1>3. CASE para' = [para EXCEPT !.status = "TYPE_REDY"] /\ Goto("dec_init")
    <2>1. para' \in ParaType /\ para'.status = "TYPE_REDY" /\ Current(para')
          BY <1>1, <1>3, StatusTyped DEF Statuses
    <2>2. "dec_init" \in Pcs \ Inside /\ "dec_init" \notin End3 BY DEF Pcs, Inside, End3
    <2>3. QED BY <1>1, <1>2, <1>3, <2>1, <2>2, OutQuiet
  <1>4. CASE Fail("release") BY <1>1, <1>2, <1>4, FailKeeps
  <1>5. QED BY <1>3, <1>4 DEF Open

LEMMA DecInitKeeps == IInv /\ DecInit => IInv'
  <1> SUFFICES ASSUME IInv, DecInit PROVE IInv' OBVIOUS
  <1>1. /\ pc \notin Inside /\ pc \notin End3 /\ pc \in Start4 /\ para \in ParaType
        /\ para.status # "EXIT" /\ Current(para)
        BY CurrentOutside DEF DecInit, Inside, Start4, End3, Last, IInv, Typed, StopKnown
  <1>2. UNCHANGED <<oldcmd, mates, signals, clients>> BY DEF DecInit
  <1>3. QueueOK' BY <1>2, QueueUnchanged, DrainToStopTyped DEF DecInit, IInv, Typed
  <1>4. PICK at \in {"wait_start", "prepare", "release"}, s \in Statuses \ {"EXIT"} :
          Goto(at) /\ (para' = [para EXCEPT !.status = s] \/ para' = para)
    <2>1. CASE /\ para' = [para EXCEPT !.status = "INITOK"]
               /\ Goto(IF NeedStart THEN "wait_start" ELSE "prepare")
      <3>1. "INITOK" \in Statuses \ {"EXIT"} BY DEF Statuses
      <3>2. (IF NeedStart THEN "wait_start" ELSE "prepare") \in {"wait_start", "prepare", "release"}
            OBVIOUS
      <3>3. QED BY <2>1, <3>1, <3>2
    <2>2. CASE para' = [para EXCEPT !.status = IF HasStop THEN "STOPED" ELSE "ERROR"] /\ Goto("release")
      <3>1. (IF HasStop THEN "STOPED" ELSE "ERROR") \in Statuses \ {"EXIT"} BY DEF Statuses
      <3>2. QED BY <2>2, <3>1
    <2>3. CASE para' = para /\ Goto("release")
      <3>1. "ERROR" \in Statuses \ {"EXIT"} BY DEF Statuses
      <3>2. QED BY <2>3, <3>1
    <2>4. QED BY <2>1, <2>2, <2>3 DEF DecInit
  <1>5. para' \in ParaType /\ para'.status # "EXIT" /\ Current(para')
    <2>1. CASE para' = [para EXCEPT !.status = s] BY <1>1, <2>1, StatusTyped
    <2>2. CASE para' = para BY <1>1, <2>2
    <2>3. QED BY <1>4, <2>1, <2>2
  <1>6. at \in Pcs \ Inside /\ at \notin End3 BY DEF Pcs, Inside, End3
  <1>7. QED BY <1>1, <1>2, <1>3, <1>4, <1>5, <1>6, OutQuiet

LEMMA WaitStartKeeps == IInv /\ WaitStart => IInv'
  <1> SUFFICES ASSUME IInv, WaitStart PROVE IInv' OBVIOUS
  <1>1. /\ pc \notin Inside /\ pc \notin End3 /\ pc \in Start4 /\ para \in ParaType
        /\ para.status # "EXIT" /\ QueueOK /\ queue # << >> /\ Current(para)
        BY CurrentOutside DEF WaitStart, Inside, Start4, End3, Last, IInv, Typed, StopKnown
  <1>2. UNCHANGED <<oldcmd, mates, signals, clients>> /\ queue' = Tail(queue) BY DEF WaitStart
  <1>3. QueueOK' BY <1>1, <1>2, TailTyped
  <1> DEFINE c == Head(queue)
             p == IF c.kind = "SEARCH" /\ InRange(c.arg)
                  THEN [para EXCEPT !.time_point = c.arg, !.status = "SEARCHOK",
                                    !.end_flag = FALSE, !.asked = c.arg, !.moved = FALSE]
                  ELSE check_msg(para, c)
  <1>4. c \in Q!Commands BY <1>1, HeadTailProperties DEF QueueOK
  <1>5. p \in ParaType /\ p.status # "EXIT" /\ Current(p)
    <2>1. CASE c.kind = "SEARCH" /\ InRange(c.arg)
      <3>1. c.arg \in -1..FullTime /\ c.arg \in Args /\ c.arg < FullTime
            BY <1>4, <2>1, Constants DEF Q!Commands, Args, InRange
      <3>2. p = [para EXCEPT !.time_point = c.arg, !.status = "SEARCHOK",
                             !.end_flag = FALSE, !.asked = c.arg, !.moved = FALSE]
            BY <2>1
      <3> HIDE DEF p, c
      <3>3. QED BY <1>1, <3>1, <3>2 DEF ParaType, Statuses, Current
    <2>2. CASE ~ (c.kind = "SEARCH" /\ InRange(c.arg))
      <3>1. p = check_msg(para, c) BY <2>2
      <3> HIDE DEF p, c
      <3>2. QED BY <1>1, <1>4, <3>1, CheckMsgLater DEF Later
    <2>3. QED BY <2>1, <2>2
  <1>6. PICK at \in {"wait_start", "prepare", "release"} :
          Goto(at) /\ (para' = [p EXCEPT !.status = EndStatus(p)] \/ para' = p)
        BY DEF WaitStart
  <1> HIDE DEF p, c
  <1>7. EndStatus(p) \in Statuses \ {"EXIT"} BY DEF EndStatus, Statuses
  <1>8. para' \in ParaType /\ para'.status # "EXIT" /\ Current(para')
    <2>1. CASE para' = [p EXCEPT !.status = EndStatus(p)] BY <1>5, <1>7, <2>1, StatusTyped
    <2>2. CASE para' = p BY <1>5, <2>2
    <2>3. QED BY <1>6, <2>1, <2>2
  <1>9. at \in Pcs \ Inside /\ at \notin End3 BY DEF Pcs, Inside, End3
  <1>10. QED BY <1>1, <1>2, <1>3, <1>6, <1>8, <1>9, OutQuiet

(* The mate is made, and sleeps. *)
LEMMA PrepareKeeps == IInv /\ Prepare => IInv'
  <1> SUFFICES ASSUME IInv, Prepare PROVE IInv' OBVIOUS
  <1>1. /\ pc = "prepare" /\ pc \notin Inside /\ pc \notin End3 /\ para \in ParaType /\ Current(para)
        BY CurrentOutside DEF Prepare, Inside, End3, Last, IInv, Typed
  <1>2. /\ UNCHANGED <<queue, oldcmd, signals, clients>>
        /\ UNCHANGED <<mate_isrunng, mate_should_sleep, mate_should_exit, mate_sem>>
        BY DEF Prepare
  <1>3. QueueOK' BY <1>2, QueueUnchanged
  <1>4. CASE Fail("release") /\ UNCHANGED mate BY <1>1, <1>2, <1>3, <1>4, FailKeeps DEF mates
  <1>5. CASE /\ para' = [para EXCEPT !.status = "START"]
             /\ Goto("check") \/ Goto("release")
             /\ mate' = "sem"
    <2>1. PICK at \in {"check", "release"} : Goto(at) BY <1>5
    <2>2. para' \in ParaType /\ para'.status = "START" /\ Current(para')
          BY <1>1, <1>5, StatusTyped DEF Statuses
    <2>3. at \in Pcs \ Inside /\ at \notin End3 /\ at \notin Start4
          BY DEF Pcs, Inside, End3, Start4
    <2>4. SignalsOK' BY <1>2 DEF IInv, Typed, SignalsOK, signals
    <2>5. MateOK' BY <1>2, <1>5 DEF IInv, Typed, MateOK, MatePcs
    <2>6. mate = "none" /\ MateAway /\ ~ mate_isrunng
          BY <1>1 DEF IInv, Handshake, Alone, Marked
    <2>7. MateAway' BY <1>2, <1>5, <2>6 DEF MateAway, Busy
    <2>8. mate_isrunng' <=> mate' \in Marked BY <1>2, <1>5, <2>6 DEF Marked
    <2>9. QED BY <1>2, <1>3, <2>1, <2>2, <2>3, <2>4, <2>5, <2>6, <2>7, <2>8, OutStep DEF End3
  <1>6. QED BY <1>4, <1>5 DEF Prepare

(* The player thread stays outside, or begins to end, as the flags say. *)
LEMMA GoesOn ==
  ASSUME IInv, pc \in {"check", "read", "judge", "write", "drain"},
         NEW at \in {"check", "read", "write", "drain", "tail"}, Goto(at),
         UNCHANGED <<mates, signals, clients>>, QueueOK',
         para' \in ParaType, para'.status # "EXIT", Current(para')
  PROVE  IInv'
  <1>1. pc \notin Inside /\ pc \notin End3 BY DEF Inside, End3
  <1>2. at \in Pcs \ Inside /\ at \notin End3 /\ at \notin Start4
        BY DEF Pcs, Inside, End3, Start4
  <1>3. QED BY <1>1, <1>2, OutQuiet

LEMMA LaterStatus ==
  ASSUME NEW p, NEW q, Later(p, q), p.status # "EXIT", Current(p)
  PROVE  q \in ParaType /\ q.status # "EXIT" /\ Current(q)
  BY DEF Later

LEMMA FlagsTyped ==
  ASSUME NEW p \in ParaType, NEW a \in BOOLEAN, NEW b \in BOOLEAN
  PROVE  /\ [p EXCEPT !.packet = a] \in ParaType
         /\ [p EXCEPT !.read_end_flag = a] \in ParaType
         /\ [p EXCEPT !.end_flag = a, !.packet = b] \in ParaType
         /\ [p EXCEPT !.packet = a, !.read_end_flag = b] \in ParaType
         /\ [p EXCEPT !.packet = a].status = p.status
         /\ [p EXCEPT !.read_end_flag = a].status = p.status
         /\ [p EXCEPT !.end_flag = a, !.packet = b].status = p.status
         /\ [p EXCEPT !.packet = a, !.read_end_flag = b].status = p.status
         /\ Current(p) => /\ Current([p EXCEPT !.packet = a])
                          /\ Current([p EXCEPT !.read_end_flag = a])
                          /\ Current([p EXCEPT !.end_flag = a, !.packet = b])
                          /\ Current([p EXCEPT !.packet = a, !.read_end_flag = b])
  BY DEF ParaType, Current

(* The player thread decides what comes next by the flags. *)
LEMMA Deciding ==
  ASSUME IInv, pc \in {"check", "read", "write", "drain"} \/ (pc = "judge" /\ site # "seek")
  PROVE  para \in ParaType /\ para.status # "EXIT" /\ Current(para)
  BY CurrentOutside DEF IInv, Typed, StopKnown, Inside, Last

(* The flags that check_flag leaves. *)
LEMMA CheckedTyped ==
  ASSUME IInv, pc \in {"check", "drain"}, NEW f \in Checked(ExecuteNext(para))
  PROVE  f.para \in ParaType /\ f.para.status # "EXIT" /\ Current(f.para)
  <1>1. para \in ParaType /\ para.status # "EXIT" /\ Current(para) /\ QueueOK
        BY Deciding DEF IInv, Typed
  <1>2. Later(para, ExecuteNext(para)) BY <1>1, ExecuteNextLater
  <1>3. ExecuteNext(para) \in ParaType /\ ExecuteNext(para).status # "EXIT" /\ Current(ExecuteNext(para))
        BY <1>1, <1>2, LaterStatus
  <1>4. Later(ExecuteNext(para), f.para) BY <1>3, CheckedLater
  <1>5. QED BY <1>3, <1>4, LaterStatus

LEMMA CheckFlagKeeps == IInv /\ CheckFlag => IInv'
  <1> SUFFICES ASSUME IInv, CheckFlag PROVE IInv' OBVIOUS
  <1>1. pc = "check" /\ UNCHANGED <<mates, signals, clients>> BY DEF CheckFlag
  <1>2. QueueOK' BY TakeNextTyped DEF CheckFlag, IInv, Typed
  <1>3. PICK f \in Checked(ExecuteNext(para)) :
               \/ f.ret # "BREAK" /\ para' = f.para /\ Goto("read")
               \/ para' = f.para /\ Goto("write")
               \/ para' = [f.para EXCEPT !.end_flag = TRUE, !.packet = FALSE] /\ Goto("tail")
        BY DEF CheckFlag
  <1>4. f.para \in ParaType /\ f.para.status # "EXIT" /\ Current(f.para) BY <1>1, CheckedTyped
  <1>5. para' \in ParaType /\ para'.status # "EXIT" /\ Current(para') BY <1>3, <1>4, FlagsTyped
  <1>6. QED BY <1>1, <1>2, <1>3, <1>5, GoesOn

LEMMA CheckFlagThrottledKeeps == IInv /\ CheckFlagThrottled => IInv'
  <1> SUFFICES ASSUME IInv, CheckFlagThrottled PROVE IInv' OBVIOUS
  <1>1. pc = "check" /\ UNCHANGED <<queue, para, oldcmd, mates, signals, clients>> /\ Goto("read")
        BY DEF CheckFlagThrottled
  <1>2. QueueOK' BY <1>1, QueueUnchanged
  <1>3. para' \in ParaType /\ para'.status # "EXIT" /\ Current(para') BY <1>1, Deciding
  <1>4. QED BY <1>1, <1>2, <1>3, GoesOn

LEMMA JudgedKeeps == IInv /\ (ReadJudged \/ BufferingJudged) => IInv'
  <1> SUFFICES ASSUME IInv, ReadJudged \/ BufferingJudged PROVE IInv' OBVIOUS
  <1> USE DEF ReadJudged, BufferingJudged
  <1>1. pc = "judge" /\ site # "seek" /\ UNCHANGED <<queue, oldcmd, mates, signals, clients>> OBVIOUS
  <1>2. QueueOK' BY <1>1, QueueUnchanged
  <1>3. para \in ParaType /\ para.status # "EXIT" /\ Current(para) BY <1>1, Deciding
  <1>4. CASE Fail("release") BY <1>1, <1>2, <1>4, FailKeeps DEF Inside, End3
  <1>5. CASE /\ para' = [para EXCEPT !.status = IF @ = "PAUSE" THEN @ ELSE "RUNNING"]
             /\ Goto("write")
    <2>1. para' \in ParaType /\ para'.status # "EXIT" /\ Current(para')
          BY <1>3, <1>5 DEF ParaType, Statuses, Current
    <2>2. QED BY <1>1, <1>2, <1>5, <2>1, GoesOn
  <1>6. CASE UNCHANGED para /\ Goto("write") BY <1>1, <1>2, <1>3, <1>6, GoesOn
  <1>7. QED BY <1>4, <1>5, <1>6

LEMMA WriteKeeps == IInv /\ Write => IInv'
  <1> SUFFICES ASSUME IInv, Write PROVE IInv' OBVIOUS
  <1>1. pc = "write" /\ UNCHANGED <<queue, oldcmd, mates, signals, clients>> BY DEF Write
  <1>2. QueueOK' BY <1>1, QueueUnchanged
  <1>3. para \in ParaType /\ para.status # "EXIT" /\ Current(para) BY <1>1, Deciding
  <1>4. CASE Fail("release") BY <1>1, <1>2, <1>4, FailKeeps DEF Inside, End3
  <1>5. CASE ~ Fail("release")
    <2>1. PICK written \in BOOLEAN :
            LET p == [para EXCEPT !.packet = @ /\ ~ written] IN
            \/ para' = p /\ Goto("drain")
            \/ \E q \in Updated(p) : \E w \in Watched(q) :
                 para' = w /\ Goto(IF w.end_flag THEN "tail" ELSE "check")
          BY <1>5 DEF Write
    <2> DEFINE b == para.packet /\ ~ written
               p == [para EXCEPT !.packet = b]
    <2>2. b \in BOOLEAN OBVIOUS
    <2>3. \/ para' = p /\ Goto("drain")
          \/ \E q \in Updated(p) : \E w \in Watched(q) :
               para' = w /\ Goto(IF w.end_flag THEN "tail" ELSE "check")
          BY <2>1
    <2> HIDE DEF b
    <2>4. p \in ParaType /\ p.status # "EXIT" /\ Current(p) BY <1>3, <2>2, FlagsTyped
    <2> HIDE DEF p
    <2>5. CASE para' = p /\ Goto("drain") BY <1>1, <1>2, <2>4, <2>5, GoesOn
    <2>6. CASE \E q \in Updated(p) : \E w \in Watched(q) :
                para' = w /\ Goto(IF w.end_flag THEN "tail" ELSE "check")
      <3>1. PICK q \in Updated(p) : \E w \in Watched(q) :
                  para' = w /\ Goto(IF w.end_flag THEN "tail" ELSE "check")
            BY <2>6
      <3>2. PICK w \in Watched(q), at \in {"tail", "check"} : para' = w /\ Goto(at) BY <3>1
      <3>3. q \in ParaType /\ q.status # "EXIT" /\ Current(q) BY <2>4, UpdatedLater, LaterStatus
      <3>4. w \in ParaType /\ w.status # "EXIT" /\ Current(w) BY <3>3, WatchedLater, LaterStatus
      <3>5. QED BY <1>1, <1>2, <3>2, <3>4, GoesOn
    <2>7. QED BY <2>3, <2>5, <2>6
  <1>6. QED BY <1>4, <1>5

LEMMA DrainOnGoes ==
  ASSUME NEW p \in ParaType, p.status # "EXIT", Current(p), DrainOn(p)
  PROVE  \E at \in {"drain", "tail"} :
           Goto(at) /\ para' \in ParaType /\ para'.status # "EXIT" /\ Current(para')
  <1>1. PICK w \in Watched(p) : \/ para' \in Updated(w) /\ Goto("drain")
                                \/ para' = w /\ Goto("tail")
        BY DEF DrainOn
  <1>2. w \in ParaType /\ w.status # "EXIT" /\ Current(w) BY WatchedLater, LaterStatus
  <1>3. QED BY <1>1, <1>2, UpdatedLater, LaterStatus

LEMMA DrainKeeps == IInv /\ (Drain \/ DrainThrottled \/ DrainEnds) => IInv'
  <1> SUFFICES ASSUME IInv, Drain \/ DrainThrottled \/ DrainEnds PROVE IInv' OBVIOUS
  <1> USE DEF Drain, DrainThrottled, DrainEnds
  <1>1. pc = "drain" /\ UNCHANGED <<mates, signals, clients>> OBVIOUS
  <1>2. QueueOK'
    <2>1. CASE Drain BY <2>1, TakeNextTyped DEF IInv, Typed
    <2>2. CASE DrainThrottled \/ DrainEnds BY <2>2, QueueUnchanged
    <2>3. QED BY <2>1, <2>2
  <1>3. para \in ParaType /\ para.status # "EXIT" /\ Current(para) BY <1>1, Deciding
  <1>4. \E at \in {"drain", "tail"} :
          Goto(at) /\ para' \in ParaType /\ para'.status # "EXIT" /\ Current(para')
    <2>1. CASE Drain
      <3>1. PICK f \in Checked(ExecuteNext(para)) :
               \/ /\ para' = [f.para EXCEPT !.read_end_flag = @ /\ ~ f.para.search_flag]
                  /\ Goto("tail")
               \/ para' = f.para /\ Goto("drain")
               \/ DrainOn(f.para)
            BY <2>1
      <3>2. f.para \in ParaType /\ f.para.status # "EXIT" /\ Current(f.para) BY <1>1, CheckedTyped
      <3>3. (f.para.read_end_flag /\ ~ f.para.search_flag) \in BOOLEAN OBVIOUS
      <3>4. CASE /\ para' = [f.para EXCEPT !.read_end_flag = @ /\ ~ f.para.search_flag]
                 /\ Goto("tail")
            BY <3>2, <3>3, <3>4, FlagsTyped
      <3>5. CASE para' = f.para /\ Goto("drain") BY <3>2, <3>5
      <3>6. CASE DrainOn(f.para) BY <3>2, <3>6, DrainOnGoes
      <3>7. QED BY <3>1, <3>4, <3>5, <3>6
    <2>2. CASE DrainThrottled BY <1>3, <2>2, DrainOnGoes
    <2>3. CASE DrainEnds BY <1>3, <2>3
    <2>4. QED BY <2>1, <2>2, <2>3
  <1>5. QED BY <1>1, <1>2, <1>4, GoesOn

(* A step into, within or out of a call. *)
LEMMA CallStep ==
  ASSUME IInv, UNCHANGED clients, QueueOK', para' \in ParaType, MainOK', SignalsOK',
         MateOK', Handshake', SeekTold', para'.status # "EXIT", pc' \notin End3
  PROVE  IInv'
  <1>1. ClientsOK' BY DEF IInv, Typed, ClientsOK, clients
  <1>2. StopKnown' BY DEF StopKnown, End3
  <1>3. QED BY <1>1, <1>2 DEF IInv, Typed

LEMMA PostedTyped ==
  ASSUME NEW n \in 0..SEM_VALUE_MAX
  PROVE  Posted(n) \in 0..SEM_VALUE_MAX /\ Posted(n) > 0
  BY Constants DEF Posted

(* player_mate_wake, before a call. *)
LEMMA MateWakeKeeps ==
  ASSUME IInv, MateWake, pc \notin End3, pc' \in {"reading", "seek"},
         pc' = "reading" => Network \/ site' # "read"
  PROVE  MateOK' /\ Handshake'
  <1>1. mate_sem \in 0..SEM_VALUE_MAX BY DEF IInv, Typed, MateOK
  <1>2. mate_sem' = Posted(mate_sem) BY DEF MateWake
  <1>3. mate_sem' \in 0..SEM_VALUE_MAX BY <1>1, <1>2, PostedTyped
  <1>4. mate_should_sleep' = FALSE /\ UNCHANGED <<mate, mate_isrunng, mate_should_exit>>
        BY DEF MateWake
  <1>5. MateOK' BY <1>3, <1>4 DEF IInv, Typed, MateOK
  <1>6. ~ Alone' BY DEF Alone, Inside
  <1>7. Handshake' BY <1>4, <1>6 DEF IInv, Handshake
  <1>8. QED BY <1>5, <1>7

(* The mate is as it was, and away if it must be. *)
LEMMA MateLeft ==
  ASSUME IInv, UNCHANGED mates, pc \notin End3, pc' \notin Start4, pc' # "sleep3",
         Alone' => Alone
  PROVE  MateOK' /\ Handshake'
  <1> USE DEF mates
  <1>1. MateOK' BY DEF IInv, Typed, MateOK
  <1>2. Alone' => MateAway' BY DEF IInv, Handshake, MateAway
  <1>3. mate_isrunng' <=> mate' \in Marked BY DEF IInv, Handshake
  <1>4. Handshake' BY <1>2, <1>3 DEF Handshake, Start4
  <1>5. QED BY <1>1, <1>4

LEMMA ReadKeeps == IInv /\ Read => IInv'
  <1> SUFFICES ASSUME IInv, Read PROVE IInv' OBVIOUS
  <1>1. pc = "read" /\ UNCHANGED <<queue, para, oldcmd, res, sought, signals, clients>> BY DEF Read
  <1>2. QueueOK' BY <1>1, QueueUnchanged
  <1>3. para' \in ParaType /\ para'.status # "EXIT" /\ Current(para') BY <1>1, Deciding
  <1>4. SignalsOK' BY <1>1 DEF IInv, Typed, SignalsOK, signals
  <1>5. site' \in {"read", "buffering"} /\ pc' \in {"reading", "write"} BY DEF Read
  <1>6. MainOK' BY <1>1, <1>5 DEF IInv, Typed, MainOK, Pcs, Inside
  <1>7. SeekTold' BY <1>3, <1>5 DEF SeekTold, InSeek
  <1>8. MateOK' /\ Handshake'
    <2>1. pc \notin End3 /\ pc' \notin Start4 /\ pc' # "sleep3" /\ Alone
          BY <1>1, <1>5 DEF End3, Start4, Alone, Inside
    <2>2. CASE UNCHANGED mates BY <2>1, <2>2, MateLeft
    <2>3. CASE ~ UNCHANGED mates
      <3>1. MateWake /\ pc' = "reading" /\ (Network \/ site' # "read") BY <2>3 DEF Read
      <3>2. QED BY <2>1, <3>1, MateWakeKeeps
    <2>4. QED BY <2>2, <2>3
  <1>9. pc' \notin End3 BY <1>5 DEF End3
  <1>10. QED BY <1>1, <1>2, <1>3, <1>4, <1>6, <1>7, <1>8, <1>9, CallStep

LEMMA ReadReturnsKeeps == IInv /\ ReadReturns => IInv'
  <1> SUFFICES ASSUME IInv, ReadReturns PROVE IInv' OBVIOUS
  <1>1. /\ pc = "reading" /\ site # "seek"
        /\ UNCHANGED <<queue, oldcmd, site, sought, mates, clients>>
        /\ UNCHANGED <<interrupted, temp_interrupt_ffmpeg>>
        /\ pc' = IF Network \/ site = "buffering" THEN "sleep" ELSE "judge"
        BY DEF ReadReturns
  <1>2. QueueOK' BY <1>1, QueueUnchanged
  <1>3. para \in ParaType /\ para.status # "EXIT" /\ MainOK /\ SignalsOK /\ Current(para)
        BY <1>1 DEF IInv, Typed, StopKnown, SeekTold, InSeek, Last
  <1>4. PICK r \in {"packet", "again", "eof", "fail"} :
          /\ res' = IF r = "fail" /\ ~ ignore_ffmpeg_errors THEN "fail" ELSE "ok"
          /\ ignore_ffmpeg_errors' = (ignore_ffmpeg_errors /\ r # "fail")
          /\ para' = IF site = "buffering" THEN para
                     ELSE [para EXCEPT !.packet = (r = "packet"), !.read_end_flag = @ \/ r = "eof"]
        BY DEF ReadReturns
  <1>5. para' \in ParaType /\ para'.status # "EXIT" /\ Current(para')
    <2>1. CASE para' = para BY <1>3, <2>1
    <2>2. CASE para' # para
      <3>1. PICK a \in BOOLEAN, b \in BOOLEAN : para' = [para EXCEPT !.packet = a, !.read_end_flag = b]
            BY <1>4, <2>2
      <3>2. QED BY <1>3, <3>1, FlagsTyped
    <2>3. QED BY <2>1, <2>2
  <1>6. SignalsOK'
    <2>1. ignore_ffmpeg_errors' \in BOOLEAN BY <1>4
    <2>2. QED BY <1>1, <1>3, <2>1 DEF SignalsOK
  <1>7. pc' \in {"sleep", "judge"} /\ res' \in {"ok", "fail", "ignorable"} BY <1>1, <1>4
  <1>8. MainOK' BY <1>1, <1>3, <1>7 DEF MainOK, Pcs, Inside
  <1>9. SeekTold' BY <1>1, <1>5, <1>7 DEF SeekTold, InSeek
  <1>10. pc \notin End3 /\ pc' \notin Start4 /\ pc' # "sleep3" /\ pc' \notin End3
         BY <1>1, <1>7 DEF End3, Start4
  <1>11. Alone' => Alone
    <2>1. pc' = "judge" => ~ Network /\ site = "read" BY <1>1, <1>3 DEF MainOK
    <2>2. pc' = "sleep" => ~ Alone' BY DEF Alone, Inside
    <2>3. QED BY <1>1, <1>7, <2>1, <2>2 DEF Alone
  <1>12. MateOK' /\ Handshake' BY <1>1, <1>10, <1>11, MateLeft
  <1>13. QED BY <1>1, <1>2, <1>5, <1>6, <1>8, <1>9, <1>10, <1>12, CallStep

(* player_mate_sleep. *)
LEMMA MateSleepKeeps == IInv /\ MateSleep => IInv'
  <1> SUFFICES ASSUME IInv, MateSleep PROVE IInv' OBVIOUS
  <1>1. /\ pc = "sleep" /\ pc' = "sleep2"
        /\ UNCHANGED <<queue, para, oldcmd, site, res, sought, mates, ignore_ffmpeg_errors, clients>>
        /\ temp_interrupt_ffmpeg' = FALSE
        /\ interrupted' = (interrupted /\ ~ temp_interrupt_ffmpeg)
        BY DEF MateSleep, Waits
  <1>2. QueueOK' BY <1>1, QueueUnchanged
  <1>3. para' \in ParaType /\ para'.status # "EXIT" BY <1>1 DEF IInv, Typed, StopKnown
  <1>4. SignalsOK'
    <2>1. interrupted' \in BOOLEAN /\ temp_interrupt_ffmpeg' \in BOOLEAN BY <1>1
    <2>2. QED BY <1>1, <2>1 DEF IInv, Typed, SignalsOK
  <1>5. MainOK' BY <1>1 DEF IInv, Typed, MainOK, Pcs, Inside
  <1>6. SeekTold' BY <1>1 DEF IInv, SeekTold, InSeek, Last
  <1>7. pc \notin End3 /\ pc' \notin Start4 /\ pc' # "sleep3" /\ pc' \notin End3 /\ ~ Alone'
        BY <1>1 DEF End3, Start4, Alone, Inside
  <1>8. MateOK' /\ Handshake' BY <1>1, <1>7, MateLeft
  <1>9. QED BY <1>1, <1>2, <1>3, <1>4, <1>5, <1>6, <1>7, <1>8, CallStep

LEMMA MateShouldSleepKeeps == IInv /\ MateShouldSleep => IInv'
  <1> SUFFICES ASSUME IInv, MateShouldSleep PROVE IInv' OBVIOUS
  <1>1. /\ pc = "sleep2" /\ pc' = "sleep3" /\ mate_should_sleep' = TRUE
        /\ UNCHANGED <<queue, para, oldcmd, site, res, sought, signals, clients>>
        /\ UNCHANGED <<mate, mate_isrunng, mate_should_exit, mate_sem>>
        BY DEF MateShouldSleep, Waits
  <1>2. QueueOK' BY <1>1, QueueUnchanged
  <1>3. para' \in ParaType /\ para'.status # "EXIT" BY <1>1 DEF IInv, Typed, StopKnown
  <1>4. SignalsOK' BY <1>1 DEF IInv, Typed, SignalsOK, signals
  <1>5. MainOK' BY <1>1 DEF IInv, Typed, MainOK, Pcs, Inside
  <1>6. SeekTold' BY <1>1 DEF IInv, SeekTold, InSeek, Last
  <1>7. MateOK'
    <2>1. mate_should_sleep' \in BOOLEAN BY <1>1
    <2>2. QED BY <1>1, <2>1 DEF IInv, Typed, MateOK
  <1>8. ~ Alone' BY <1>1 DEF Alone, Inside
  <1>9. Handshake' BY <1>1, <1>8 DEF IInv, Handshake
  <1>10. pc' \notin End3 BY <1>1 DEF End3
  <1>11. QED BY <1>1, <1>2, <1>3, <1>4, <1>5, <1>6, <1>7, <1>9, <1>10, CallStep

(* The mate that was told to sleep and whose mark is gone is away. *)
LEMMA MateSleepsKeeps == IInv /\ MateSleeps => IInv'
  <1> SUFFICES ASSUME IInv, MateSleeps PROVE IInv' OBVIOUS
  <1>1. /\ pc = "sleep3" /\ pc' = "judge" /\ ~ mate_isrunng
        /\ UNCHANGED <<queue, para, oldcmd, site, res, sought, mates, signals, clients>>
        BY DEF MateSleeps, Waits
  <1>2. QueueOK' BY <1>1, QueueUnchanged
  <1>3. para' \in ParaType /\ para'.status # "EXIT" BY <1>1 DEF IInv, Typed, StopKnown
  <1>4. SignalsOK' BY <1>1 DEF IInv, Typed, SignalsOK, signals
  <1>5. MainOK' BY <1>1 DEF IInv, Typed, MainOK, Pcs, Inside
  <1>6. SeekTold' BY <1>1 DEF IInv, SeekTold, InSeek, Last
  <1>7. MateOK' BY <1>1 DEF IInv, Typed, MateOK, mates
  <1>8. mate \notin Marked /\ mate_should_sleep BY <1>1 DEF IInv, Handshake
  <1>9. MateAway' BY <1>1, <1>8 DEF MateAway, Marked, Busy, mates
  <1>10. Handshake' BY <1>1, <1>9 DEF IInv, Handshake, mates
  <1>11. pc' \notin End3 BY <1>1 DEF End3
  <1>12. QED BY <1>1, <1>2, <1>3, <1>4, <1>5, <1>6, <1>7, <1>10, <1>11, CallStep

(* exit_flag. *)
LEMMA EndOrResetKeeps == IInv /\ EndOrReset => IInv'
  <1> SUFFICES ASSUME IInv, EndOrReset PROVE IInv' OBVIOUS
  <1>1. /\ pc \notin Inside /\ pc \notin End3 /\ para \in ParaType /\ para.status # "EXIT"
        /\ Current(para)
        BY CurrentOutside DEF EndOrReset, Inside, End3, Last, IInv, Typed, StopKnown
  <1>2. UNCHANGED <<queue, oldcmd, mates, signals, clients>> BY DEF EndOrReset
  <1>3. QueueOK' BY <1>2, QueueUnchanged
  <1>4. "reset" \in Pcs \ Inside /\ "reset" \notin Start4 \cup End3
        /\ "release" \in Pcs \ Inside /\ "release" \notin Start4 \cup End3
        BY DEF Pcs, Inside, Start4, End3
  <1>5. CASE Goto("release") /\ UNCHANGED para BY <1>1, <1>2, <1>3, <1>4, <1>5, OutQuiet
  <1>6. CASE ~ (Goto("release") /\ UNCHANGED para)
    <2>1. PICK s \in Statuses \ {"EXIT"} :
            para' = [para EXCEPT !.status = s] /\ Goto("reset")
      <3>1. para.status \in Statuses \ {"EXIT"} /\ "SEARCHING" \in Statuses \ {"EXIT"}
            BY <1>1 DEF ParaType, Statuses
      <3>2. CASE para.switch_ts_program_flag
            BY <1>6, <3>1, <3>2 DEF EndOrReset
      <3>3. CASE ~ para.switch_ts_program_flag
            BY <1>6, <3>1, <3>3 DEF EndOrReset
      <3>4. QED BY <3>2, <3>3
    <2>2. para' \in ParaType /\ para'.status = s /\ Current(para') BY <1>1, <2>1, StatusTyped
    <2>3. QED BY <1>1, <1>2, <1>3, <1>4, <2>1, <2>2, OutQuiet
  <1>7. QED BY <1>5, <1>6

(* player_reset. *)
LEMMA ResetKeeps == IInv /\ Reset => IInv'
  <1> SUFFICES ASSUME IInv, Reset PROVE IInv' OBVIOUS
  <1>1. /\ pc = "reset" /\ pc \notin Inside /\ pc \notin End3 /\ Alone /\ para \in ParaType
        /\ para.status # "EXIT" /\ Current(para)
        BY CurrentOutside DEF Reset, Inside, End3, Last, Alone, IInv, Typed, StopKnown
  <1>2. UNCHANGED <<queue, oldcmd, signals, clients>> BY DEF Reset
  <1>3. QueueOK' BY <1>2, QueueUnchanged
  <1>4. CASE Fail("release") /\ UNCHANGED mates BY <1>1, <1>2, <1>3, <1>4, FailKeeps
  <1>5. CASE ~ (Fail("release") /\ UNCHANGED mates)
    <2> DEFINE t == IF para.loop_flag /\ ~ para.search_flag THEN 0 ELSE para.time_point
    <2>1. /\ para' = [para EXCEPT !.end_flag = FALSE, !.read_end_flag = FALSE, !.packet = FALSE,
                                  !.time_point = t]
          /\ site' = "seek"
          /\ IF t >= 0 THEN MateWake /\ pc' = "seek" /\ UNCHANGED <<res, sought>>
             ELSE UNCHANGED mates /\ pc' = "judge" /\ res' = "ok" /\ sought' = -1
          BY <1>5 DEF Reset
    <2>2. /\ t \in -1..FullTime
          /\ para.search_flag => t = para.time_point
          BY <1>1, Constants DEF ParaType
    <2> HIDE DEF t
    <2>3. /\ para' \in ParaType /\ para'.status = para.status /\ para'.time_point = t
          /\ para'.search_flag = para.search_flag /\ para'.asked = para.asked
          /\ para'.moved = para.moved
          BY <1>1, <2>1, <2>2 DEF ParaType
    <2>4. SignalsOK' BY <1>2 DEF IInv, Typed, SignalsOK, signals
    <2>5. Current(para') BY <1>1, <2>2, <2>3 DEF Current
    <2>6. pc' \in {"seek", "judge"} BY <2>1
    <2>7. pc' \notin End3 /\ pc' \notin Start4 /\ pc' # "sleep3" /\ pc' \in Pcs
          BY <2>6 DEF End3, Start4, Pcs, Inside
    <2>8. CASE t >= 0
      <3>1. MateWake /\ pc' = "seek" /\ UNCHANGED <<res, sought>> BY <2>1, <2>8
      <3>2. MainOK' BY <2>1, <2>7, <3>1 DEF IInv, Typed, MainOK
      <3>3. MateOK' /\ Handshake' BY <1>1, <3>1, MateWakeKeeps
      <3>4. SeekTold' BY <2>1, <2>5, <3>1 DEF SeekTold, InSeek
      <3>5. QED BY <1>1, <1>2, <1>3, <2>3, <2>4, <2>7, <3>2, <3>3, <3>4, CallStep
    <2>9. CASE ~ (t >= 0)
      <3>1. UNCHANGED mates /\ pc' = "judge" /\ res' = "ok" /\ sought' = -1 BY <2>1, <2>9
      <3>2. t = -1 BY <2>2, <2>9, Constants
      <3>3. -1 \in -1..(FullTime - 1) BY Constants
      <3>4. MainOK' BY <2>1, <2>7, <3>1, <3>3 DEF MainOK
      <3>5. MateOK' /\ Handshake' BY <1>1, <2>7, <3>1, MateLeft
      <3>6. SeekTold' BY <2>1, <2>3, <2>5, <3>1, <3>2 DEF SeekTold, InSeek, Current
      <3>7. QED BY <1>1, <1>2, <1>3, <2>3, <2>4, <2>7, <3>4, <3>5, <3>6, CallStep
    <2>10. QED BY <2>8, <2>9
  <1>6. QED BY <1>4, <1>5

(* time_search takes the time that is flagged, which lies in the stream if it
   is the one last asked for. *)
LEMMA SeekStartsKeeps == IInv /\ SeekStarts => IInv'
  <1> SUFFICES ASSUME IInv, SeekStarts PROVE IInv' OBVIOUS
  <1>1. /\ pc = "seek" /\ UNCHANGED <<queue, para, oldcmd, site, mates, signals, clients>>
        /\ \/ para.time_point < FullTime /\ sought' = para.time_point /\ pc' = "reading" /\ UNCHANGED res
           \/ ~ (para.time_point < FullTime) /\ sought' = -1 /\ pc' = "sleep" /\ res' = "ok"
        BY DEF SeekStarts
  <1>2. site = "seek" /\ Current(para) BY <1>1 DEF IInv, SeekTold, InSeek, Last
  <1>3. QueueOK' BY <1>1, QueueUnchanged
  <1>4. para \in ParaType /\ para'.status # "EXIT" BY <1>1 DEF IInv, Typed, StopKnown
  <1>5. SignalsOK' BY <1>1 DEF IInv, Typed, SignalsOK, signals
  <1>6. sought' \in -1..(FullTime - 1) BY <1>1, <1>4, Constants DEF ParaType
  <1>7. MainOK' BY <1>1, <1>6 DEF IInv, Typed, MainOK, Pcs, Inside
  <1>8. para.search_flag => sought' = para.asked \/ para.moved BY <1>1, <1>2 DEF Current
  <1>9. SeekTold' BY <1>1, <1>2, <1>8 DEF SeekTold, InSeek
  <1>10. pc \notin End3 /\ pc' \notin Start4 /\ pc' # "sleep3" /\ pc' \notin End3 /\ ~ Alone'
        BY <1>1, <1>2 DEF End3, Start4, Alone, Inside
  <1>11. MateOK' /\ Handshake' BY <1>1, <1>10, MateLeft
  <1>12. QED BY <1>1, <1>3, <1>4, <1>5, <1>7, <1>9, <1>10, <1>11, CallStep

(* What it stores afterwards is the time it sought, which is the time last
   asked for unless a search has flagged an end. *)
LEMMA SeekReturnsKeeps == IInv /\ SeekReturns => IInv'
  <1> SUFFICES ASSUME IInv, SeekReturns PROVE IInv' OBVIOUS
  <1>1. /\ pc = "reading" /\ site = "seek" /\ pc' = "sleep"
        /\ UNCHANGED <<queue, oldcmd, site, sought, mates, signals, clients>>
        /\ res' \in {"ok", "ignorable", "fail"}
        /\ para' = para \/ para' = [para EXCEPT !.time_point = sought]
        BY DEF SeekReturns
  <1>2. QueueOK' BY <1>1, QueueUnchanged
  <1>3. para \in ParaType /\ para.status # "EXIT" /\ sought \in -1..(FullTime - 1)
        BY <1>1 DEF IInv, Typed, MainOK, StopKnown
  <1>4. sought \in -1..FullTime /\ sought < FullTime BY <1>3, Constants
  <1>5. /\ para' \in ParaType /\ para'.status = para.status
        /\ para'.time_point = para.time_point \/ para'.time_point = sought
        /\ para'.end_flag = para.end_flag /\ para'.search_flag = para.search_flag
        /\ para'.asked = para.asked /\ para'.moved = para.moved
        BY <1>1, <1>3, <1>4 DEF ParaType
  <1>6. SignalsOK' BY <1>1 DEF IInv, Typed, SignalsOK, signals
  <1>7. MainOK' BY <1>1 DEF IInv, Typed, MainOK, Pcs, Inside
  <1>8. SeekTold'
    <2>1. InSeek /\ InSeek' /\ pc' # "seek" BY <1>1 DEF InSeek
    <2>2. ~ para.end_flag /\ para.search_flag => sought = para.asked \/ para.moved
          BY <2>1 DEF IInv, SeekTold
    <2>3. ~ para.end_flag => Current(para) BY <1>1 DEF IInv, SeekTold, Last
    <2>4. ~ para'.end_flag => Current(para') BY <1>4, <1>5, <2>2, <2>3 DEF Current
    <2>5. QED BY <1>1, <1>5, <2>1, <2>2, <2>4 DEF SeekTold
  <1>9. pc \notin End3 /\ pc' \notin Start4 /\ pc' # "sleep3" /\ pc' \notin End3 /\ ~ Alone'
        BY <1>1 DEF End3, Start4, Alone, Inside
  <1>10. MateOK' /\ Handshake' BY <1>1, <1>9, MateLeft
  <1>11. QED BY <1>1, <1>2, <1>5, <1>3, <1>6, <1>7, <1>8, <1>9, <1>10, CallStep

LEMMA SeekJudgedKeeps == IInv /\ SeekJudged => IInv'
  <1> SUFFICES ASSUME IInv, SeekJudged PROVE IInv' OBVIOUS
  <1>1. /\ pc \notin Inside /\ pc \notin End3 /\ para \in ParaType /\ para.status # "EXIT"
        BY DEF SeekJudged, Inside, End3, IInv, Typed, StopKnown
  <1>2. UNCHANGED <<queue, oldcmd, mates, signals, clients>> BY DEF SeekJudged
  <1>3. QueueOK' BY <1>2, QueueUnchanged
  <1>4. CASE Fail("release") BY <1>1, <1>2, <1>3, <1>4, FailKeeps
  <1>5. CASE para' = [para EXCEPT !.status = "PLAYEND", !.read_end_flag = FALSE] /\ Goto("release")
    <2>1. para' \in ParaType /\ para'.status # "EXIT" BY <1>1, <1>5 DEF ParaType, Statuses
    <2>2. "release" \in Pcs \ Inside /\ "release" \notin Start4 \cup End3
          BY DEF Pcs, Inside, Start4, End3
    <2>3. QED BY <1>1, <1>2, <1>3, <1>5, <2>1, <2>2, OutQuiet
  <1>6. CASE /\ para' = [para EXCEPT !.status = IF para.search_flag THEN "SEARCHOK" ELSE @,
                                !.search_flag = FALSE, !.reset_flag = FALSE, !.end_flag = FALSE,
                                !.switch_ts_program_flag = FALSE, !.read_end_flag = FALSE]
             /\ Goto("check")
    <2> DEFINE s == IF para.search_flag THEN "SEARCHOK" ELSE para.status
    <2>1. para' \in ParaType /\ para'.status # "EXIT" /\ Current(para')
      <3>1. s \in Statuses /\ s # "EXIT" BY <1>1 DEF ParaType, Statuses
      <3>2. para' = [para EXCEPT !.status = s, !.search_flag = FALSE, !.reset_flag = FALSE,
                                 !.end_flag = FALSE, !.switch_ts_program_flag = FALSE,
                                 !.read_end_flag = FALSE]
            BY <1>6
      <3> HIDE DEF s
      <3>3. QED BY <1>1, <3>1, <3>2 DEF ParaType, Current
    <2>2. "check" \in Pcs \ Inside /\ "check" \notin Start4 \cup End3
          BY DEF Pcs, Inside, Start4, End3
    <2>3. QED BY <1>1, <1>2, <1>3, <1>6, <2>1, <2>2, OutQuiet
  <1>7. QED BY <1>4, <1>5, <1>6 DEF SeekJudged
-----------------------------------------------------------------------------
(* player_mate_release, and the end. *)
LEMMA MateReleaseKeeps == IInv /\ MateRelease => IInv'
  <1> SUFFICES ASSUME IInv, MateRelease PROVE IInv' OBVIOUS
  <1>1. /\ pc = "release" /\ mate_should_sleep' = TRUE /\ mate_should_exit' = TRUE
        /\ mate_sem' = IF mate = "none" THEN mate_sem ELSE Posted(Posted(Posted(mate_sem)))
        /\ Goto("join")
        /\ UNCHANGED <<queue, para, oldcmd, mate, mate_isrunng, signals, clients>>
        BY DEF MateRelease
  <1>2. QueueOK' BY <1>1, QueueUnchanged
  <1>3. para' \in ParaType /\ para'.status # "EXIT" BY <1>1 DEF IInv, Typed, StopKnown
  <1>4. SignalsOK' BY <1>1 DEF IInv, Typed, SignalsOK, signals
  <1>5. mate_sem \in 0..SEM_VALUE_MAX BY DEF IInv, Typed, MateOK
  <1>6. mate_sem' \in 0..SEM_VALUE_MAX BY <1>1, <1>5, PostedTyped
  <1>7. MateOK'
    <2>1. mate_should_sleep' \in BOOLEAN /\ mate_should_exit' \in BOOLEAN BY <1>1
    <2>2. QED BY <1>1, <1>6, <2>1 DEF IInv, Typed, MateOK
  <1>8. MateAway /\ (mate_isrunng <=> mate \in Marked)
        BY <1>1 DEF IInv, Handshake, Alone, Inside
  <1>9. MateAway' BY <1>1, <1>8 DEF MateAway
  <1>10. mate_isrunng' <=> mate' \in Marked BY <1>1, <1>8
  <1>11. "join" \in Pcs \ Inside /\ "join" \notin Start4 /\ "join" \in Last
         BY DEF Pcs, Inside, Start4, Last
  <1>12. QED BY <1>1, <1>2, <1>3, <1>4, <1>7, <1>9, <1>10, <1>11, OutStep

(* Between places at the end. *)
LEMMA EndStep ==
  ASSUME IInv, pc \in End3, NEW at \in {"exit", "done"}, Goto(at),
         UNCHANGED <<mates, signals, clients>>, QueueOK', para' \in ParaType,
         at = "exit" => ~ (para'.status = "ERROR" /\ para'.request_end_flag),
         at = "done" <=> para'.status = "EXIT"
  PROVE  IInv'
  <1> USE DEF IInv, mates
  <1>1. SignalsOK' BY DEF Typed, SignalsOK, signals
  <1>2. MateOK' BY DEF Typed, MateOK
  <1>3. MateAway' BY DEF Handshake, Alone, MateAway, End3, Inside
  <1>4. mate_isrunng' <=> mate' \in Marked BY DEF Handshake
  <1>5. at \in Pcs \ Inside /\ at \notin Start4 /\ at \in Last
        BY DEF Pcs, Inside, Start4, Last
  <1>6. UNCHANGED clients OBVIOUS
  <1> HIDE DEF IInv
  <1>7. QED BY <1>1, <1>2, <1>3, <1>4, <1>5, <1>6, OutStep

LEMMA JoinKeeps == IInv /\ Join => IInv'
  <1> SUFFICES ASSUME IInv, Join PROVE IInv' OBVIOUS
  <1>1. /\ pc = "join" /\ pc \in End3 /\ Goto("exit") /\ UNCHANGED <<oldcmd, mates, signals, clients>>
        BY DEF Join, End3
  <1>2. QueueOK /\ para \in ParaType /\ para.status # "EXIT"
        BY <1>1 DEF IInv, Typed, StopKnown
  <1>3. QueueOK'
    <2>1. CASE UNCHANGED queue BY <1>1, <2>1, QueueUnchanged
    <2>2. CASE DrainToStop BY <1>1, <1>2, <2>2, DrainToStopTyped
    <2>3. QED BY <2>1, <2>2 DEF Join
  <1>4. CASE para.status # "ERROR"
    <2>1. UNCHANGED para BY <1>4 DEF Join
    <2>2. QED BY <1>1, <1>2, <1>3, <1>4, <2>1, EndStep
  <1>5. CASE para.status = "ERROR" /\ para.request_end_flag
    <2>1. para' = [para EXCEPT !.status = "STOPED"] BY <1>5 DEF Join
    <2>2. para' \in ParaType /\ para'.status = "STOPED" BY <1>2, <2>1, StatusTyped DEF Statuses
    <2>3. QED BY <1>1, <1>3, <2>2, EndStep
  <1>6. CASE para.status = "ERROR" /\ ~ para.request_end_flag
    <2>1. PICK s \in {"STOPED", "ERROR"} : para' = [para EXCEPT !.status = s]
      <3>1. para' = [para EXCEPT !.status = IF HasStop THEN "STOPED" ELSE @] BY <1>6 DEF Join
      <3>2. CASE HasStop BY <3>1, <3>2
      <3>3. CASE ~ HasStop BY <1>6, <3>1, <3>3
      <3>4. QED BY <3>2, <3>3
    <2>2. s \in Statuses BY DEF Statuses
    <2>3. para' \in ParaType /\ para'.status = s BY <1>2, <2>1, <2>2, StatusTyped
    <2>4. ~ para'.request_end_flag BY <1>2, <1>6, <2>1 DEF ParaType
    <2>5. QED BY <1>1, <1>3, <2>3, <2>4, EndStep
  <1>7. QED BY <1>4, <1>5, <1>6

LEMMA ExitKeeps == IInv /\ Exit => IInv'
  <1> SUFFICES ASSUME IInv, Exit PROVE IInv' OBVIOUS
  <1>1. /\ pc \in End3 /\ Goto("done") /\ UNCHANGED <<queue, oldcmd, mates, signals, clients>>
        /\ para' = [para EXCEPT !.status = "EXIT"] /\ para \in ParaType
        BY DEF Exit, End3, IInv, Typed
  <1>2. QueueOK' BY <1>1, QueueUnchanged
  <1>3. para' \in ParaType /\ para'.status = "EXIT" BY <1>1, StatusTyped DEF Statuses
  <1>4. QED BY <1>1, <1>2, <1>3, EndStep
-----------------------------------------------------------------------------
LEMMA MainKeeps == IInv /\ Main => IInv'
  BY OpenKeeps, DecInitKeeps, WaitStartKeeps, PrepareKeeps, CheckFlagKeeps, CheckFlagThrottledKeeps,
     ReadKeeps, ReadReturnsKeeps, MateSleepKeeps, MateShouldSleepKeeps, MateSleepsKeeps, JudgedKeeps,
     WriteKeeps, DrainKeeps, EndOrResetKeeps, ResetKeeps, SeekStartsKeeps, SeekReturnsKeeps,
     SeekJudgedKeeps, MateReleaseKeeps, JoinKeeps, ExitKeeps DEF Main

LEMMA StutterKeeps == IInv /\ UNCHANGED vars => IInv'
  <1> SUFFICES ASSUME IInv, UNCHANGED vars PROVE IInv' OBVIOUS
  <1>1. UNCHANGED <<queue, para, oldcmd, main, mates, signals, clients>> BY DEF vars
  <1>2. MateOK' /\ Handshake' BY <1>1, HandshakeKept DEF IInv, Typed, MateOK, mates
  <1>3. QED BY <1>1, <1>2, MateMoves

LEMMA NextIInv == IInv /\ [Next]_vars => IInv'
  BY MainKeeps, MateKeeps, SendKeeps, StopperKeeps, StutterKeeps DEF Next

(* The inductive invariant: types, the handshake of the two threads, what a
   seek under way means, and what is known of a stop. *)
THEOREM Invariant == Spec => []IInv
  <1>1. Init => IInv BY InitIInv
  <1>2. IInv /\ [Next]_vars => IInv' BY NextIInv
  <1>3. QED BY <1>1, <1>2, PTL DEF Spec

(* The variables keep their types: the flags and the time to seek to are what
   the commands may make of them, the source is only sought to times in the
   stream, and the queue stays within MESSAGE_MAX. *)
THEOREM TypeCorrect == Spec => []TypeOK
  <1>1. IInv => TypeOK BY TypedIsTypeOK DEF IInv
  <1>2. QED BY <1>1, Invariant, PTL

(* The mate executes commands, pauses and updates only while the player thread
   is inside a read, a buffering or a seek, or waits for the mate to sleep
   (player_mate_wake and player_mate_sleep). *)
THEOREM MateStaysInside == Spec => []MateOnlyInside
  <1>1. IInv => MateOnlyInside BY BusyInside DEF IInv, MateOnlyInside, Busy
  <1>2. QED BY <1>1, Invariant, PTL

LEMMA MainJudges == Main /\ pc = "judge" /\ site = "seek" => SeekJudged
  <1> SUFFICES ASSUME Main, pc = "judge", site = "seek" PROVE SeekJudged OBVIOUS
  <1>1. ~ (Open \/ DecInit \/ WaitStart \/ Prepare \/ CheckFlag \/ CheckFlagThrottled)
        BY DEF Open, DecInit, WaitStart, Prepare, CheckFlag, CheckFlagThrottled
  <1>2. ~ (Read \/ ReadReturns \/ MateSleep \/ MateShouldSleep \/ MateSleeps)
        BY DEF Read, ReadReturns, MateSleep, MateShouldSleep, MateSleeps
  <1>3. ~ (ReadJudged \/ BufferingJudged \/ Write \/ Drain \/ DrainThrottled \/ DrainEnds)
        BY DEF ReadJudged, BufferingJudged, Write, Drain, DrainThrottled, DrainEnds
  <1>4. ~ (EndOrReset \/ Reset \/ SeekStarts \/ SeekReturns \/ MateRelease \/ Join \/ Exit)
        BY DEF EndOrReset, Reset, SeekStarts, SeekReturns, MateRelease, Join, Exit
  <1>5. QED BY <1>1, <1>2, <1>3, <1>4 DEF Main

LEMMA MainEnds == Main /\ pc' = "done" => pc = "exit"
  <1> SUFFICES ASSUME Main, pc' = "done", pc # "exit" PROVE FALSE OBVIOUS
  <1> USE DEF Goto, Waits, Fail
  <1>1. ~ (Open \/ DecInit \/ WaitStart \/ Prepare \/ CheckFlag \/ CheckFlagThrottled)
        BY DEF Open, DecInit, WaitStart, Prepare, CheckFlag, CheckFlagThrottled
  <1>2. ~ (Read \/ ReadReturns \/ MateSleep \/ MateShouldSleep \/ MateSleeps)
        BY DEF Read, ReadReturns, MateSleep, MateShouldSleep, MateSleeps
  <1>3. ~ (ReadJudged \/ BufferingJudged \/ Write)
        BY DEF ReadJudged, BufferingJudged, Write
  <1>4. ~ (Drain \/ DrainThrottled \/ DrainEnds)
        BY DEF Drain, DrainThrottled, DrainEnds, DrainOn
  <1>5. ~ (EndOrReset \/ Reset \/ SeekStarts \/ SeekReturns \/ SeekJudged)
        BY DEF EndOrReset, Reset, SeekStarts, SeekReturns, SeekJudged
  <1>6. ~ (MateRelease \/ Join \/ Exit) BY DEF MateRelease, Join, Exit
  <1>7. QED BY <1>1, <1>2, <1>3, <1>4, <1>5, <1>6 DEF Main

(* A search is reported done only if the source was sought to the time that the
   last search executed asked for, or a watchdog or a switch of the program has
   set another time since (player_thread after player_reset): what the mate
   executes while the source seeks is not passed off as done. *)
THEOREM SeekToldRightly == Spec => SearchOkIsCurrent
  <1>1. IInv /\ [Next]_vars =>
          (pc = "judge" /\ site = "seek" /\ para.search_flag /\ pc' = "check" =>
             sought = para.asked \/ para.moved)
    <2> SUFFICES ASSUME IInv, [Next]_vars, pc = "judge", site = "seek", para.search_flag, pc' = "check"
                 PROVE  sought = para.asked \/ para.moved
        OBVIOUS
    <2>1. InSeek BY DEF InSeek
    <2>2. UNCHANGED vars \/ Mate \/ Send \/ Stopper => pc' = pc
          BY DEF vars, main, Mate, MateSemWait, MateIsRunning, MateDecides, MateRound, MateCommand,
             MateInterrupts, MatePauses, MateUpdates, MateLeaves, Send, Stopper, StopBegins,
             StopClears, StopInterrupts, StopSends
    <2>3. SeekJudged BY <2>2, MainJudges DEF Next
    <2>4. ~ para.end_flag BY <2>3 DEF SeekJudged, Fail, Goto
    <2>5. QED BY <2>1, <2>4 DEF IInv, SeekTold
  <1>2. QED BY <1>1, Invariant, PTL DEF Spec, SearchOkIsCurrent

(* A player that executed a stop does not end in an error, whatever its
   interrupt did to the read or the seek (player_thread from release0 on). *)
THEOREM StoppedWithoutError == Spec => NoErrorAfterStop
  <1>1. IInv /\ [Next]_vars =>
          (para'.status = "EXIT" => ~ (para.status = "ERROR" /\ para.request_end_flag))
    <2> SUFFICES ASSUME IInv, [Next]_vars, para'.status = "EXIT"
                 PROVE  ~ (para.status = "ERROR" /\ para.request_end_flag)
        OBVIOUS
    <2>1. pc' = "done" BY NextIInv DEF IInv, StopKnown
    <2>2. CASE Main BY <2>1, <2>2, MainEnds DEF IInv, StopKnown
    <2>3. CASE ~ Main
      <3>1. Mate \/ Send \/ Stopper \/ UNCHANGED vars BY <2>3 DEF Next
      <3>2. UNCHANGED main
            BY <3>1 DEF Mate, MateSemWait, MateIsRunning, MateDecides, MateRound, MateCommand,
               MateInterrupts, MatePauses, MateUpdates, MateLeaves, Send, Stopper, StopBegins,
               StopClears, StopInterrupts, StopSends, vars
      <3>3. para.status = "EXIT" BY <2>1, <3>2 DEF main, IInv, StopKnown
      <3>4. QED BY <3>3
    <2>4. QED BY <2>2, <2>3
  <1>2. QED BY <1>1, Invariant, PTL DEF Spec, NoErrorAfterStop
=============================================================================
