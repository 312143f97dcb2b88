-------------------------- MODULE StreamSourceProofs --------------------------
(* Proofs about StreamSource, for streams, buffers and limits of any size: a seek
   by the thread answers with the place that is read next. *)
EXTENDS StreamSource, FiniteSetTheorems, SequenceTheorems, TLAPS

IsSeq(s)  == \E S : s \in Seq(S)
IsCall(c) == c = [op |-> c.op, size |-> c.size, got |-> c.got, off |-> c.off, pos |-> c.pos,
                  cur |-> c.cur, left |-> c.left]

QueuesOK == IsSeq(newdata) /\ IsSeq(oldqueue)
CallOK   == IsCall(call) /\ call.off \in Places /\ seek_offset \in Places
HandOK   == /\ place \in Int
            /\ tpc = "push" => hand.len > 0 /\ hand.at \in Int /\ hand.start = 0
            /\ tpc # "push" => hand = NoBuffer

(* The thread has sought the source to ret; then nothing is left in the queues. *)
SoughtOK ==
  /\ tpc = "reset" => place = ret
  /\ tpc = "tell" /\ ret # NONE => place = ret /\ newdata = <<>> /\ oldqueue = <<>>

(* An answer with a place is the nearest one, for as long as the thread cannot
   begin another seek. *)
Quiet == tpc \notin {"seek", "reset", "tell"} /\ (tpc \notin {"tail", "clear"} => ~request_seek)
AnswerOK ==
  /\ rpc = "wait" /\ seek_ret # NONE => Nearest = seek_ret /\ Quiet
  /\ answer # NONE => rpc = "idle" /\ Nearest = answer /\ Quiet

IInv == QueuesOK /\ CallOK /\ HandOK /\ SoughtOK /\ AnswerOK
-----------------------------------------------------------------------------
(* Sequences of whatever elements. *)
LEMMA ConcatIsSeq == ASSUME NEW s, NEW t, IsSeq(s), IsSeq(t) PROVE IsSeq(s \o t)
  <1>1. PICK S : s \in Seq(S) BY DEF IsSeq
  <1>2. PICK T : t \in Seq(T) BY DEF IsSeq
  <1>3. s \in Seq(S \cup T) /\ t \in Seq(S \cup T) BY <1>1, <1>2
  <1>4. s \o t \in Seq(S \cup T) BY <1>3
  <1>5. QED BY <1>4 DEF IsSeq

LEMMA SingleIsSeq == ASSUME NEW x PROVE IsSeq(<<x>>)
  <1>1. <<x>> \in Seq({x}) OBVIOUS
  <1>2. QED BY <1>1 DEF IsSeq

LEMMA TailIsSeq == ASSUME NEW s, IsSeq(s), s # <<>> PROVE IsSeq(Tail(s))
  <1>1. PICK S : s \in Seq(S) BY DEF IsSeq
  <1>2. Tail(s) \in Seq(S) BY <1>1
  <1>3. QED BY <1>2 DEF IsSeq

LEMMA SubSeqIsSeq ==
  ASSUME NEW s, IsSeq(s), NEW m \in Nat \ {0}, NEW n \in Int, n <= Len(s)
  PROVE  IsSeq(SubSeq(s, m, n))
  <1>1. PICK S : s \in Seq(S) BY DEF IsSeq
  <1>2. SubSeq(s, m, n) \in Seq(S) BY <1>1, SubSeqProperties
  <1>3. QED BY <1>2 DEF IsSeq

LEMMA AppendIsSeq ==
  ASSUME NEW s, IsSeq(s), NEW b
  PROVE  /\ IsSeq(Append(s, b)) /\ Append(s, b) # <<>>
         /\ Head(Append(s, b)) = IF s = <<>> THEN b ELSE Head(s)
  <1>1. PICK S : s \in Seq(S) BY DEF IsSeq
  <1>2. s \in Seq(S \cup {b}) /\ b \in S \cup {b} BY <1>1
  <1>3. Append(s, b) \in Seq(S \cup {b}) BY <1>2, AppendProperties
  <1>4. Append(s, b) # <<>> BY <1>2, AppendProperties
  <1>5. Head(Append(s, b)) = IF s = <<>> THEN b ELSE Head(s) BY <1>2, <1>3, <1>4
  <1>6. QED BY <1>3, <1>4, <1>5 DEF IsSeq

LEMMA CountInSeq ==
  ASSUME NEW s, IsSeq(s), NEW D \in SUBSET DOMAIN s
  PROVE  Len(s) \in Nat /\ Cardinality(D) \in 0 .. Len(s)
  <1>1. PICK S : s \in Seq(S) BY DEF IsSeq
  <1>2. Len(s) \in Nat /\ DOMAIN s = 1 .. Len(s) BY <1>1
  <1>3. IsFiniteSet(1 .. Len(s)) /\ Cardinality(1 .. Len(s)) = Len(s) BY <1>2, FS_Interval
  <1>4. Cardinality(D) \in Nat /\ Cardinality(D) <= Len(s)
        BY <1>2, <1>3, FS_Subset, FS_CardinalityType
  <1>5. QED BY <1>2, <1>4

LEMMA NoneInEmpty ==
  /\ \A m, n \in Int : m > n => SubSeq(<<>>, m, n) = <<>>
  /\ <<>> \o <<>> = <<>> /\ DOMAIN <<>> = {} /\ Cardinality({}) = 0 /\ Len(<<>>) = 0
  BY FS_EmptySet
-----------------------------------------------------------------------------
(* A place the code's int can hold stays what it is. *)
LEMMA IntHolds == ASSUME FileSize <= IntMax, NEW v \in Places PROVE Int32(v) = v
  <1>1. \A a, b \in Nat : a < b => a % b = a
    OBVIOUS
  <1>2. v + IntMax + 1 \in Nat /\ 2 * (IntMax + 1) \in Nat /\ v + IntMax + 1 < 2 * (IntMax + 1)
        BY StreamAssumption DEF Places
  <1>3. (v + IntMax + 1) % (2 * (IntMax + 1)) = v + IntMax + 1 BY <1>1, <1>2, Zenon
  <1>4. QED BY <1>2, <1>3, StreamAssumption DEF Int32, Places

LEMMA InitIInv == Init => IInv
  <1> SUFFICES ASSUME Init PROVE IInv OBVIOUS
  <1>1. QueuesOK
    <2>1. <<>> \in Seq({}) OBVIOUS
    <2>2. QED BY <2>1 DEF Init, QueuesOK, IsSeq
  <1>2. CallOK BY StreamAssumption DEF Init, CallOK, IsCall, Call, Places
  <1>3. HandOK BY DEF Init, HandOK
  <1>4. SoughtOK /\ AnswerOK BY DEF Init, SoughtOK, AnswerOK
  <1>5. QED BY <1>1, <1>2, <1>3, <1>4 DEF IInv

(* The seeks among the buffers leave sequences, and leave nothing nothing. *)
LEMMA RewoundIsSeq == ASSUME QueuesOK PROVE IsSeq(Rewound)
  <1>1. CASE newdata = <<>> BY <1>1 DEF Rewound, QueuesOK
  <1>2. CASE newdata # <<>>
    <2>1. IsSeq(Tail(newdata)) BY <1>2, TailIsSeq DEF QueuesOK
    <2>2. IsSeq(<<[Head(newdata) EXCEPT !.start = 0]>>) BY SingleIsSeq
    <2>3. QED BY <1>2, <2>1, <2>2, ConcatIsSeq DEF Rewound
  <1>3. QED BY <1>1, <1>2

LEMMA ForwardIsSeq == ASSUME QueuesOK PROVE IsSeq(Forward.new) /\ IsSeq(Forward.old)
  <1> DEFINE D    == {i \in DOMAIN Rewound : \A j \in 1 .. i : Rewound[j].pos + Rewound[j].len < call.off}
             past == Cardinality(D)
             rest == SubSeq(Rewound, past + 1, Len(Rewound))
             ok   == rest # <<>> /\ Within(Head(rest))
  <1>1. IsSeq(Rewound) /\ IsSeq(oldqueue) BY RewoundIsSeq DEF QueuesOK
  <1>2. D \in SUBSET DOMAIN Rewound OBVIOUS
  <1>3. past \in 0 .. Len(Rewound) /\ Len(Rewound) \in Nat BY <1>1, <1>2, CountInSeq
  <1> HIDE DEF D
  <1>4. IsSeq(rest) /\ IsSeq(SubSeq(Rewound, 1, past)) BY <1>1, <1>3, SubSeqIsSeq
  <1> HIDE DEF past
  <1>5. IsSeq(oldqueue \o SubSeq(Rewound, 1, past)) BY <1>1, <1>4, ConcatIsSeq
  <1>6. IsSeq(IF ok THEN <<From(Head(rest))>> \o Tail(rest) ELSE rest)
    <2> HIDE DEF rest
    <2>1. CASE ok BY <2>1, <1>4, TailIsSeq, SingleIsSeq, ConcatIsSeq
    <2>2. CASE ~ok BY <2>2, <1>4
    <2>3. QED BY <2>1, <2>2
  <1>7. Forward = IF call.off - call.cur > DataSize(newdata)
                  THEN [new |-> Rewound, old |-> oldqueue, ok |-> FALSE]
                  ELSE [new |-> IF ok THEN <<From(Head(rest))>> \o Tail(rest) ELSE rest,
                        old |-> oldqueue \o SubSeq(Rewound, 1, past), ok |-> ok]
        BY DEF Forward, past, D
  <1> HIDE DEF ok, rest
  <1>8. QED BY <1>1, <1>5, <1>6, <1>7

LEMMA BackwardIsSeq == ASSUME QueuesOK PROVE IsSeq(Backward.new) /\ IsSeq(Backward.old)
  <1> DEFINE D    == {i \in DOMAIN oldqueue : \A j \in i .. Len(oldqueue) : oldqueue[j].pos > call.off}
             last == Len(oldqueue) - Cardinality(D)
             rest == SubSeq(oldqueue, last + 1, Len(oldqueue)) \o Rewound
             ok   == last > 0 /\ Within(oldqueue[last])
  <1>1. IsSeq(Rewound) /\ IsSeq(oldqueue) BY RewoundIsSeq DEF QueuesOK
  <1>2. D \in SUBSET DOMAIN oldqueue OBVIOUS
  <1>3. Cardinality(D) \in 0 .. Len(oldqueue) /\ Len(oldqueue) \in Nat BY <1>1, <1>2, CountInSeq
  <1> HIDE DEF D
  <1>4. last \in 0 .. Len(oldqueue) BY <1>3
  <1>5. Backward = IF call.cur - call.off > DataSize(oldqueue)
                   THEN [new |-> Rewound, old |-> oldqueue, ok |-> FALSE]
                   ELSE [new |-> IF ok THEN <<From(oldqueue[last])>> \o rest ELSE rest,
                         old |-> SubSeq(oldqueue, 1, last - 1), ok |-> ok]
        BY DEF Backward, D
  <1> HIDE DEF last
  <1>6. IsSeq(SubSeq(oldqueue, last + 1, Len(oldqueue))) /\ IsSeq(SubSeq(oldqueue, 1, last - 1))
        BY <1>1, <1>3, <1>4, SubSeqIsSeq
  <1>7. IsSeq(rest) BY <1>1, <1>6, ConcatIsSeq
  <1> HIDE DEF rest, ok
  <1>8. IsSeq(IF ok THEN <<From(oldqueue[last])>> \o rest ELSE rest)
        BY <1>7, SingleIsSeq, ConcatIsSeq
  <1>9. QED BY <1>1, <1>5, <1>6, <1>8

LEMMA NothingMoves ==
  ASSUME newdata = <<>>, oldqueue = <<>>
  PROVE  /\ Forward.new = <<>> /\ Forward.old = <<>>
         /\ Backward.new = <<>> /\ Backward.old = <<>>
  <1>1. Rewound = <<>> BY DEF Rewound
  <1>2. \A D : D \in SUBSET DOMAIN <<>> => Cardinality(D) = 0
        BY NoneInEmpty
  <1>3. /\ Forward.new = <<>> /\ Forward.old = <<>>
    <2> DEFINE past == Cardinality({i \in DOMAIN Rewound : \A j \in 1 .. i : Rewound[j].pos + Rewound[j].len < call.off})
               rest == SubSeq(Rewound, past + 1, Len(Rewound))
    <2>1. past = 0 BY <1>1, <1>2
    <2>2. rest = <<>> /\ oldqueue \o SubSeq(Rewound, 1, past) = <<>>
          BY <1>1, <2>1, NoneInEmpty
    <2>3. Forward = IF call.off - call.cur > DataSize(newdata)
                    THEN [new |-> Rewound, old |-> oldqueue, ok |-> FALSE]
                    ELSE [new |-> IF rest # <<>> /\ Within(Head(rest))
                                  THEN <<From(Head(rest))>> \o Tail(rest) ELSE rest,
                          old |-> oldqueue \o SubSeq(Rewound, 1, past),
                          ok  |-> rest # <<>> /\ Within(Head(rest))]
          BY DEF Forward
    <2> HIDE DEF past, rest
    <2>4. QED BY <1>1, <2>2, <2>3
  <1>4. /\ Backward.new = <<>> /\ Backward.old = <<>>
    <2> DEFINE last == Len(oldqueue) - Cardinality({i \in DOMAIN oldqueue :
                         \A j \in i .. Len(oldqueue) : oldqueue[j].pos > call.off})
               rest == SubSeq(oldqueue, last + 1, Len(oldqueue)) \o Rewound
    <2>1. last = 0 BY <1>2, NoneInEmpty
    <2>2. rest = <<>> /\ SubSeq(oldqueue, 1, last - 1) = <<>>
          BY <1>1, <2>1, NoneInEmpty
    <2>3. Backward = IF call.cur - call.off > DataSize(oldqueue)
                     THEN [new |-> Rewound, old |-> oldqueue, ok |-> FALSE]
                     ELSE [new |-> IF last > 0 /\ Within(oldqueue[last])
                                   THEN <<From(oldqueue[last])>> \o rest ELSE rest,
                           old |-> SubSeq(oldqueue, 1, last - 1),
                           ok  |-> last > 0 /\ Within(oldqueue[last])]
          BY DEF Backward
    <2> HIDE DEF last, rest
    <2>4. ~(last > 0) BY <2>1
    <2>5. QED BY <1>1, <2>2, <2>3, <2>4
  <1>5. QED BY <1>3, <1>4
-----------------------------------------------------------------------------
(* What most steps leave alone. *)
Kept == UNCHANGED <<newdata, oldqueue, place, hand>>

LEMMA NearestKept == Kept => Nearest' = Nearest
  BY DEF Kept, Nearest, Started, Held

LEMMA KeptParts ==
  ASSUME IInv, Kept, call' = call, seek_offset' = seek_offset,
         tpc = "push" <=> tpc' = "push"
  PROVE  QueuesOK' /\ CallOK' /\ HandOK'
  BY DEF IInv, Kept, QueuesOK, CallOK, HandOK

(* A step of the thread: the answer stays, and what is nearest, where it counts. *)
LEMMA ThreadAnswer ==
  ASSUME IInv, UNCHANGED reader,
         Quiet => Nearest' = Nearest /\ Quiet' /\ seek_ret' = seek_ret,
         ~Quiet => \/ seek_ret' = seek_ret
                   \/ seek_ret' # NONE => Nearest' = seek_ret' /\ Quiet'
  PROVE  AnswerOK'
  <1>1. rpc' = rpc /\ answer' = answer BY DEF reader
  <1>2. CASE Quiet BY <1>1, <1>2 DEF IInv, AnswerOK
  <1>3. CASE ~Quiet BY <1>1, <1>3 DEF IInv, AnswerOK
  <1>4. QED BY <1>2, <1>3

LEMMA ExitKeeps == ASSUME IInv, Exit PROVE IInv'
  <1> USE DEF Exit, Goes, queues, source, flags, seekv, reader
  <1>1. Kept BY DEF Kept
  <1>2. QueuesOK' /\ CallOK' /\ HandOK' BY <1>1, KeptParts
  <1>3. SoughtOK' BY DEF SoughtOK
  <1>4. AnswerOK' BY <1>1, NearestKept, ThreadAnswer DEF Quiet
  <1>5. QED BY <1>2, <1>3, <1>4 DEF IInv

LEMMA RoundKeeps == ASSUME IInv, Round PROVE IInv'
  <1>1. /\ Kept /\ tpc = "loop" /\ UNCHANGED <<seek_offset, seek_ret, reader>>
        /\ call' = call
        BY DEF Round, Kept, queues, source, reader
  <1>2. /\ request_seek => tpc' = "seek"
        /\ ~request_seek => tpc' \in {"get", "loop"} /\ request_seek' = request_seek
        BY DEF Round
  <1>3. QueuesOK' /\ CallOK' /\ HandOK' BY <1>1, <1>2, KeptParts
  <1>4. SoughtOK' BY <1>2 DEF SoughtOK
  <1>5. AnswerOK' BY <1>1, <1>2, NearestKept, ThreadAnswer DEF Quiet
  <1>6. QED BY <1>3, <1>4, <1>5 DEF IInv

LEMMA SeekStreamKeeps == ASSUME FileSize <= IntMax, IInv, SeekStream PROVE IInv'
  <1>1. /\ tpc = "seek" /\ newdata' = newdata /\ oldqueue' = oldqueue /\ hand' = hand
        /\ UNCHANGED <<seekv, reader>> /\ call' = call /\ seek_offset' = seek_offset
        BY DEF SeekStream, queues, seekv, reader
  <1>2. /\ QueuesOK' /\ CallOK'
        BY <1>1 DEF IInv, QueuesOK, CallOK
  <1>3. Int32(seek_offset) = seek_offset /\ seek_offset \in Int /\ seek_offset >= 0
        BY IntHolds, StreamAssumption DEF IInv, CallOK, Places
  <1>4. /\ tpc' \in {"reset", "tell"}
        /\ tpc' = "reset" => place' = ret'
        /\ tpc' = "tell" => ret' = NONE
        /\ place' \in Int
        BY <1>3 DEF SeekStream, source, IInv, HandOK
  <1>5. HandOK' BY <1>1, <1>4 DEF IInv, HandOK
  <1>6. SoughtOK' BY <1>4 DEF SoughtOK
  <1>7. AnswerOK' BY <1>1, ThreadAnswer DEF Quiet, seekv
  <1>8. QED BY <1>2, <1>5, <1>6, <1>7 DEF IInv

LEMMA ResetKeeps == ASSUME IInv, Reset PROVE IInv'
  <1>1. /\ tpc = "reset" /\ tpc' = "tell" /\ newdata' = <<>> /\ oldqueue' = <<>>
        /\ UNCHANGED <<source, seekv, hand, ret, reader>>
        BY DEF Reset, Goes
  <1>2. <<>> \in Seq({}) OBVIOUS
  <1>3. QueuesOK' BY <1>1, <1>2 DEF QueuesOK, IsSeq
  <1>4. CallOK' BY <1>1 DEF IInv, CallOK, seekv, reader
  <1>5. HandOK' /\ SoughtOK' BY <1>1 DEF IInv, HandOK, SoughtOK, source
  <1>6. AnswerOK' BY <1>1, ThreadAnswer DEF Quiet, seekv
  <1>7. QED BY <1>3, <1>4, <1>5, <1>6 DEF IInv

LEMMA TellKeeps == ASSUME IInv, Tell PROVE IInv'
  <1>1. /\ tpc = "tell" /\ tpc' = "tail" /\ seek_ret' = ret /\ Kept
        /\ UNCHANGED <<seek_offset, reader>> /\ call' = call
        BY DEF Tell, Goes, Kept, queues, source, reader
  <1>2. QueuesOK' /\ CallOK' /\ HandOK' BY <1>1, KeptParts
  <1>3. SoughtOK' BY <1>1 DEF SoughtOK
  <1>4. ret # NONE => Nearest' = ret
    <2> SUFFICES ASSUME ret # NONE PROVE Nearest' = ret OBVIOUS
    <2>1. newdata = <<>> /\ place = ret /\ hand = NoBuffer
          BY <1>1 DEF IInv, SoughtOK, HandOK
    <2>2. ~Held BY <2>1 DEF Held, NoBuffer, Buffer
    <2>3. Nearest = ret BY <2>1, <2>2 DEF Nearest
    <2>4. QED BY <1>1, <2>3, NearestKept
  <1>5. AnswerOK' BY <1>1, <1>4, ThreadAnswer DEF Quiet
  <1>6. QED BY <1>2, <1>3, <1>5 DEF IInv

LEMMA EndKeeps == ASSUME IInv, SeekEnds \/ Clear PROVE IInv'
  <1>1. /\ Kept /\ UNCHANGED <<seek_offset, seek_ret, reader>> /\ call' = call
        BY DEF SeekEnds, Clear, Kept, queues, source, reader
  <1>2. \/ tpc = "tail" /\ tpc' = "clear" /\ request_seek' = request_seek
        \/ tpc = "clear" /\ tpc' \in {"get", "loop"} /\ request_seek' = FALSE
        BY DEF SeekEnds, Clear, Goes
  <1>3. QueuesOK' /\ CallOK' /\ HandOK' BY <1>1, <1>2, KeptParts
  <1>4. SoughtOK' BY <1>2 DEF SoughtOK
  <1>5. AnswerOK' BY <1>1, <1>2, NearestKept, ThreadAnswer DEF Quiet
  <1>6. QED BY <1>3, <1>4, <1>5 DEF IInv

LEMMA GetBufKeeps == ASSUME IInv, GetBuf PROVE IInv'
  <1>1. /\ tpc = "get" /\ tpc' \in {"read", "few"}
        /\ UNCHANGED <<newdata, source, seekv, hand, reader>> /\ call' = call
        /\ oldqueue' = oldqueue \/ (DataSize(oldqueue) > OLDDATA_MAX /\ oldqueue' = Tail(oldqueue))
        BY DEF GetBuf, reader
  <1>2. IsSeq(oldqueue')
    <2>1. CASE oldqueue' = oldqueue BY <2>1 DEF IInv, QueuesOK
    <2>2. CASE oldqueue # <<>> /\ oldqueue' = Tail(oldqueue)
          BY <2>2, TailIsSeq DEF IInv, QueuesOK
    <2>3. CASE oldqueue = <<>> /\ oldqueue' = Tail(oldqueue)
      <3>1. Tail(<<>>) = [i \in 1 .. Len(<<>>) - 1 |-> <<>>[i + 1]] OBVIOUS
      <3>2. 1 .. Len(<<>>) - 1 = {} OBVIOUS
      <3>3. Tail(<<>>) = <<>> BY <3>1, <3>2
      <3>4. <<>> \in Seq({}) OBVIOUS
      <3>5. QED BY <2>3, <3>3, <3>4 DEF IsSeq
    <2>4. QED BY <1>1, <2>1, <2>2, <2>3
  <1>3. QueuesOK' BY <1>1, <1>2 DEF IInv, QueuesOK
  <1>4. CallOK' BY <1>1 DEF IInv, CallOK, seekv
  <1>5. HandOK' /\ SoughtOK' BY <1>1 DEF IInv, HandOK, SoughtOK, source
  <1>6. Nearest' = Nearest BY <1>1 DEF Nearest, Started, Held, source
  <1>7. AnswerOK' BY <1>1, <1>6, ThreadAnswer DEF Quiet, seekv
  <1>8. QED BY <1>3, <1>4, <1>5, <1>7 DEF IInv

LEMMA TooFewKeeps == ASSUME IInv, TooFew PROVE IInv'
  <1>1. /\ Kept /\ tpc = "few" /\ tpc' \in {"loop", "exited"} /\ UNCHANGED <<seekv, reader>>
        /\ call' = call /\ seek_offset' = seek_offset
        BY DEF TooFew, Kept, queues, source, seekv, reader
  <1>2. QueuesOK' /\ CallOK' /\ HandOK' BY <1>1, KeptParts
  <1>3. SoughtOK' BY <1>1 DEF SoughtOK
  <1>4. AnswerOK' BY <1>1, NearestKept, ThreadAnswer DEF Quiet, seekv
  <1>5. QED BY <1>2, <1>3, <1>4 DEF IInv

LEMMA DownloadKeeps == ASSUME IInv, Download PROVE IInv'
  <1>1. PICK n \in 1 .. Block : /\ hand' = Buffer(s_off, place, n, 0)
                                /\ place' = place + n
        BY DEF Download
  <1>2. /\ tpc = "read" /\ tpc' = "push" /\ UNCHANGED <<newdata, oldqueue, seekv, reader>> /\ call' = call
        BY DEF Download, Goes, queues, reader
  <1>3. n \in Int /\ n > 0 /\ place \in Int BY StreamAssumption DEF IInv, HandOK
  <1>4. QueuesOK' /\ CallOK' BY <1>2 DEF IInv, QueuesOK, CallOK, seekv
  <1>5. hand'.len = n /\ hand'.at = place /\ hand'.start = 0 BY <1>1 DEF Buffer
  <1>6. HandOK' BY <1>1, <1>2, <1>3, <1>5 DEF HandOK
  <1>7. SoughtOK' BY <1>2 DEF SoughtOK
  <1>8. Nearest' = Nearest
    <2>1. ~Held BY <1>2 DEF IInv, HandOK, Held, NoBuffer, Buffer
    <2>2. Held' BY <1>3, <1>5 DEF Held
    <2>3. QED BY <1>2, <1>5, <2>1, <2>2 DEF Nearest
  <1>9. AnswerOK' BY <1>2, <1>8, ThreadAnswer DEF Quiet, seekv
  <1>10. QED BY <1>4, <1>6, <1>7, <1>9 DEF IInv

LEMMA DownloadFailsKeeps == ASSUME IInv, DownloadFails PROVE IInv'
  <1>1. /\ Kept /\ tpc = "read" /\ tpc' \in {"loop", "exited"} /\ UNCHANGED <<seekv, reader>>
        /\ call' = call /\ seek_offset' = seek_offset
        BY DEF DownloadFails, Kept, seekv, reader
  <1>2. QueuesOK' /\ CallOK' /\ HandOK' BY <1>1, KeptParts
  <1>3. SoughtOK' BY <1>1 DEF SoughtOK
  <1>4. AnswerOK' BY <1>1, NearestKept, ThreadAnswer DEF Quiet, seekv
  <1>5. QED BY <1>2, <1>3, <1>4 DEF IInv

LEMMA PushKeeps == ASSUME IInv, Push PROVE IInv'
  <1>1. /\ tpc = "push" /\ tpc' = "loop" /\ newdata' = Append(newdata, hand) /\ hand' = NoBuffer
        /\ UNCHANGED <<oldqueue, source, seekv, reader>> /\ call' = call
        BY DEF Push, Goes, reader
  <1>2. /\ IsSeq(newdata') /\ newdata' # <<>>
        /\ Head(newdata') = IF newdata = <<>> THEN hand ELSE Head(newdata)
        BY <1>1, AppendIsSeq DEF IInv, QueuesOK
  <1>3. QueuesOK' /\ CallOK' BY <1>1, <1>2 DEF IInv, QueuesOK, CallOK, seekv
  <1>4. HandOK' /\ SoughtOK' BY <1>1 DEF IInv, HandOK, SoughtOK, source
  <1>5. Nearest' = Nearest
    <2>1. Held /\ hand.at + hand.start = hand.at BY <1>1 DEF IInv, HandOK, Held
    <2>2. Nearest' = Head(newdata').at + Head(newdata').start BY <1>2 DEF Nearest
    <2>3. CASE newdata = <<>> BY <1>2, <2>1, <2>2, <2>3 DEF Nearest
    <2>4. CASE newdata # <<>> BY <1>2, <2>2, <2>4 DEF Nearest
    <2>5. QED BY <2>3, <2>4
  <1>6. AnswerOK' BY <1>1, <1>5, ThreadAnswer DEF Quiet, seekv
  <1>7. QED BY <1>3, <1>4, <1>6 DEF IInv
-----------------------------------------------------------------------------
(* A step of the reader outside a wait: there is no answer yet, or no more. *)
LEMMA NoAnswerYet ==
  ASSUME rpc' # "wait" \/ seek_ret' = NONE, answer' = NONE
  PROVE  AnswerOK'
  BY DEF AnswerOK

(* Steps that read the queues and the fields of the thread, and write none. *)
LEMMA LookingKeeps ==
  ASSUME IInv, UNCHANGED <<queues, source, seekv, thread>>,
         IsCall(call'), call'.off \in Places,
         answer' = NONE, rpc' # "wait"
  PROVE  IInv'
  <1>1. Kept /\ seek_offset' = seek_offset /\ tpc' = tpc /\ ret' = ret
        BY DEF Kept, queues, source, seekv, thread
  <1>2. QueuesOK' /\ HandOK' BY <1>1 DEF IInv, Kept, QueuesOK, HandOK
  <1>3. CallOK' BY <1>1 DEF IInv, CallOK
  <1>4. SoughtOK' BY <1>1 DEF IInv, SoughtOK, Kept
  <1>5. QED BY <1>2, <1>3, <1>4, NoAnswerYet DEF IInv

LEMMA NoCallIsCall == IsCall(NoCall) /\ NoCall.off \in Places
  BY StreamAssumption DEF NoCall, Call, IsCall, Places

(* Nothing is answered while a call is under way. *)
LEMMA BusyIsUnanswered == ASSUME IInv, rpc # "idle" PROVE answer = NONE
  BY DEF IInv, AnswerOK

(* Calls begin. *)
LEMMA CallsKeep == ASSUME IInv, Calls PROVE IInv'
  <1>1. CASE Read
    <2>1. PICK size : call' = Call("read", size, 0) BY <1>1 DEF Read
    <2>2. IsCall(call') /\ call'.off \in Places
          BY <2>1, StreamAssumption DEF Call, IsCall, Places
    <2>3. QED BY <1>1, <2>2, LookingKeeps DEF Read
  <1>2. CASE Seek
    <2>1. PICK off \in Places : call' = Call("seek", 0, off) BY <1>2 DEF Seek
    <2>2. IsCall(call') /\ call'.off \in Places BY <2>1 DEF Call, IsCall
    <2>3. QED BY <1>2, <2>2, LookingKeeps DEF Seek
  <1>3. CASE Close
    <2>1. IsCall(call') /\ call'.off \in Places
          BY <1>3, StreamAssumption DEF Close, Call, IsCall, Places
    <2>2. QED BY <1>3, <2>1, LookingKeeps DEF Close
  <1>4. QED BY <1>1, <1>2, <1>3 DEF Calls

(* A step that goes on with the call, or returns. *)
GoesOn == \/ Return \/ call' = NoCall \/ UNCHANGED call
          \/ \E x : call' = [call EXCEPT !.pos = x]
          \/ \E x : call' = [call EXCEPT !.cur = x]
          \/ \E x, y : call' = [call EXCEPT !.left = x, !.size = y]
          \/ \E x, y : call' = [call EXCEPT !.left = x, !.size = y, !.got = 0]
          \/ \E x, y : call' = [call EXCEPT !.size = x, !.got = y]
LEMMA GoesOnIsCall == ASSUME IInv, GoesOn PROVE IsCall(call') /\ call'.off \in Places
  <1>1. IsCall(call) /\ call.off \in Places BY DEF IInv, CallOK
  <1>2. CASE Return \/ call' = NoCall BY <1>2, NoCallIsCall DEF Return
  <1>3. CASE UNCHANGED call BY <1>1, <1>3
  <1>4. CASE \E x : call' = [call EXCEPT !.pos = x] BY <1>1, <1>4 DEF IsCall
  <1>5. CASE \E x : call' = [call EXCEPT !.cur = x] BY <1>1, <1>5 DEF IsCall
  <1>6. CASE \E x, y : call' = [call EXCEPT !.left = x, !.size = y] BY <1>1, <1>6 DEF IsCall
  <1>7. CASE \E x, y : call' = [call EXCEPT !.left = x, !.size = y, !.got = 0]
        BY <1>1, <1>7 DEF IsCall
  <1>8. CASE \E x, y : call' = [call EXCEPT !.size = x, !.got = y] BY <1>1, <1>8 DEF IsCall
  <1>9. QED BY <1>2, <1>3, <1>4, <1>5, <1>6, <1>7, <1>8 DEF GoesOn

LEMMA ReadEndsGoes == ASSUME NEW n, ReadEnds(n) PROVE GoesOn /\ rpc' # "wait"
  <1>1. CASE Return BY <1>1 DEF Return, GoesOn
  <1>2. CASE /\ rpc' = IF call.left - n > 0 THEN "take" ELSE "see"
             /\ call' = [call EXCEPT !.left = call.left - n, !.size = ReadSize, !.got = 0]
        BY <1>2 DEF GoesOn
  <1>3. QED BY <1>1, <1>2 DEF ReadEnds

(* Steps of a call that only look. *)
Looking == Join \/ IsOpen \/ FindsNone \/ Check \/ Look \/ Where \/ InRange \/ See
LEMMA LookingSteps == ASSUME IInv, Looking PROVE IInv'
  <1>1. /\ UNCHANGED <<queues, source, seekv, thread, answer>> /\ rpc # "idle"
        BY DEF Looking, Join, IsOpen, FindsNone, Check, Look, Where, InRange, See
  <1>2. GoesOn /\ rpc' # "wait"
    <2>1. CASE Join BY <2>1 DEF Join, GoesOn
    <2>2. CASE IsOpen BY <2>2 DEF IsOpen, GoesOn, Return
    <2>3. CASE FindsNone
      <3>1. CASE ReadEnds(call.got) BY <3>1, ReadEndsGoes
      <3>2. CASE rpc' = "check" /\ UNCHANGED call BY <3>2 DEF GoesOn
      <3>3. QED BY <2>3, <3>1, <3>2 DEF FindsNone
    <2>4. CASE Check BY <2>4 DEF Check, GoesOn, Return
    <2>5. CASE Look BY <2>5 DEF Look, GoesOn
    <2>6. CASE Where BY <2>6 DEF Where, GoesOn, Return
    <2>7. CASE InRange BY <2>7 DEF InRange, GoesOn
    <2>8. CASE See BY <2>8 DEF See, GoesOn, Return
    <2>9. QED BY <2>1, <2>2, <2>3, <2>4, <2>5, <2>6, <2>7, <2>8 DEF Looking
  <1>3. IsCall(call') /\ call'.off \in Places BY <1>2, GoesOnIsCall
  <1>4. answer' = NONE BY <1>1, BusyIsUnanswered
  <1>5. QED BY <1>1, <1>2, <1>3, <1>4, LookingKeeps

(* Steps that move buffers. *)
LEMMA MovingKeeps ==
  ASSUME IInv, UNCHANGED <<source, seekv, thread, answer>>, rpc # "idle",
         GoesOn, rpc' # "wait", IsSeq(newdata'), IsSeq(oldqueue'),
         newdata = <<>> /\ oldqueue = <<>> => newdata' = <<>> /\ oldqueue' = <<>>
  PROVE  IInv'
  <1>1. QueuesOK' BY DEF QueuesOK
  <1>2. IsCall(call') /\ call'.off \in Places BY GoesOnIsCall
  <1>3. CallOK' BY <1>2 DEF IInv, CallOK, seekv
  <1>4. HandOK' BY DEF IInv, HandOK, source, thread
  <1>5. SoughtOK' BY DEF IInv, SoughtOK, source, thread
  <1>6. AnswerOK' BY BusyIsUnanswered, NoAnswerYet
  <1>7. QED BY <1>1, <1>3, <1>4, <1>5, <1>6 DEF IInv

LEMMA TakeKeeps == ASSUME IInv, Take PROVE IInv'
  <1>1. UNCHANGED <<source, seekv, thread, answer>> /\ rpc = "take" /\ newdata # <<>>
        BY DEF Take
  <1>2. PICK x, y, n :
          /\ \/ newdata' = <<x>> \o Tail(newdata) /\ oldqueue' = oldqueue
             \/ newdata' = Tail(newdata) /\ oldqueue' = Append(oldqueue, y)
          /\ \/ ReadEnds(call.got + n)
             \/ call' = [call EXCEPT !.size = @ - n, !.got = @ + n] /\ UNCHANGED rpc
        BY DEF Take
  <1>3. GoesOn /\ rpc' # "wait"
    <2>1. CASE ReadEnds(call.got + n) BY <2>1, ReadEndsGoes
    <2>2. CASE call' = [call EXCEPT !.size = @ - n, !.got = @ + n] /\ UNCHANGED rpc
          BY <1>1, <2>2 DEF GoesOn
    <2>3. QED BY <1>2, <2>1, <2>2
  <1>4. IsSeq(newdata) /\ IsSeq(oldqueue) BY DEF IInv, QueuesOK
  <1>5. IsSeq(newdata') /\ IsSeq(oldqueue')
        BY <1>1, <1>2, <1>4, TailIsSeq, SingleIsSeq, ConcatIsSeq, AppendIsSeq
  <1>6. QED BY <1>1, <1>3, <1>5, MovingKeeps

LEMMA MoveKeeps == ASSUME IInv, Move PROVE IInv'
  <1>1. UNCHANGED <<source, seekv, thread, answer>> /\ rpc = "move" BY DEF Move
  <1>2. \/ newdata' = Forward.new /\ oldqueue' = Forward.old
        \/ newdata' = Backward.new /\ oldqueue' = Backward.old
        BY DEF Move
  <1>3. GoesOn /\ rpc' # "wait" BY DEF Move, GoesOn, Return
  <1>4. IsSeq(newdata') /\ IsSeq(oldqueue')
        BY <1>2, ForwardIsSeq, BackwardIsSeq DEF IInv
  <1>5. newdata = <<>> /\ oldqueue = <<>> => newdata' = <<>> /\ oldqueue' = <<>>
        BY <1>2, NothingMoves
  <1>6. QED BY <1>1, <1>3, <1>4, <1>5, MovingKeeps

(* The request, and its end. *)
LEMMA AskKeeps == ASSUME IInv, Ask PROVE IInv'
  <1>1. /\ Kept /\ tpc' = tpc /\ ret' = ret /\ call' = call /\ seek_ret' = NONE
        /\ seek_offset' = call.off /\ rpc = "ask" /\ answer' = answer
        BY DEF Ask, Kept, queues, source, thread
  <1>2. QueuesOK' /\ HandOK' BY <1>1 DEF IInv, Kept, QueuesOK, HandOK
  <1>3. CallOK' BY <1>1 DEF IInv, CallOK
  <1>4. SoughtOK' BY <1>1 DEF IInv, SoughtOK, Kept
  <1>5. AnswerOK' BY <1>1, BusyIsUnanswered, NoAnswerYet
  <1>6. QED BY <1>2, <1>3, <1>4, <1>5 DEF IInv

LEMMA AnsweredKeeps ==
  ASSUME IInv, rpc = "wait", Return, answer' = seek_ret,
         UNCHANGED <<queues, source, seekv, thread>>
  PROVE  IInv'
  <1>1. /\ Kept /\ seek_offset' = seek_offset /\ request_seek' = request_seek /\ tpc' = tpc /\ ret' = ret
        BY DEF Kept, queues, source, seekv, thread
  <1>2. QueuesOK' /\ HandOK' BY <1>1 DEF IInv, Kept, QueuesOK, HandOK
  <1>3. CallOK' BY <1>1, NoCallIsCall DEF IInv, CallOK, Return
  <1>4. SoughtOK' BY <1>1 DEF IInv, SoughtOK, Kept
  <1>5. AnswerOK'
    <2>1. rpc' = "idle" /\ Nearest' = Nearest BY <1>1, NearestKept DEF Return
    <2>2. Quiet' = Quiet BY <1>1 DEF Quiet
    <2>3. QED BY <2>1, <2>2 DEF IInv, AnswerOK
  <1>6. QED BY <1>2, <1>3, <1>4, <1>5 DEF IInv

LEMMA InterruptKeeps == ASSUME IInv, Interrupt PROVE IInv'
  <1>1. UNCHANGED <<queues, source, seekv, thread>> BY DEF Interrupt
  <1>2. CASE rpc = "wait" /\ Return /\ answer' = seek_ret BY <1>1, <1>2, AnsweredKeeps
  <1>3. CASE /\ rpc \in {"open", "take", "check"} /\ UNCHANGED answer
             /\ Return \/ (rpc' \in {"look", "see"} /\ UNCHANGED call)
    <2>1. GoesOn /\ rpc' # "wait" BY <1>3 DEF GoesOn, Return
    <2>2. answer' = NONE BY <1>3, BusyIsUnanswered
    <2>3. QED BY <1>1, <2>1, <2>2, GoesOnIsCall, LookingKeeps
  <1>4. QED BY <1>2, <1>3 DEF Interrupt

LEMMA NextIInv == ASSUME FileSize <= IntMax, IInv, [Next]_vars PROVE IInv'
  <1>1. CASE Thread
        BY <1>1, ExitKeeps, RoundKeeps, SeekStreamKeeps, ResetKeeps, TellKeeps, EndKeeps, GetBufKeeps,
           TooFewKeeps, DownloadKeeps, DownloadFailsKeeps, PushKeeps DEF Thread
  <1>2. CASE Calls BY <1>2, CallsKeep
  <1>3. CASE ReaderSteps
    <2>1. CASE Looking BY <2>1, LookingSteps
    <2>2. CASE Take BY <2>2, TakeKeeps
    <2>3. CASE Move BY <2>3, MoveKeeps
    <2>4. CASE Ask BY <2>4, AskKeeps
    <2>5. CASE Answered BY <2>5, AnsweredKeeps DEF Answered
    <2>6. QED BY <1>3, <2>1, <2>2, <2>3, <2>4, <2>5 DEF ReaderSteps, Looking
  <1>4. CASE Interrupt BY <1>4, InterruptKeeps
  <1>5. CASE UNCHANGED vars
    <2>1. /\ Kept /\ UNCHANGED <<seek_offset, request_seek, seek_ret, tpc, ret, rpc, call, answer>>
          BY <1>5 DEF vars, Kept, queues, source, seekv, thread, reader
    <2>2. QueuesOK' /\ CallOK' /\ HandOK' BY <2>1, KeptParts
    <2>3. SoughtOK' BY <2>1 DEF IInv, SoughtOK, Kept
    <2>4. Nearest' = Nearest /\ Quiet' = Quiet BY <2>1, NearestKept DEF Quiet
    <2>5. AnswerOK' BY <2>1, <2>4 DEF IInv, AnswerOK
    <2>6. QED BY <2>2, <2>3, <2>5 DEF IInv
  <1>6. QED BY <1>1, <1>2, <1>3, <1>4, <1>5 DEF Next

(* The invariant, where an int of the code can hold every place of the stream. *)
THEOREM Invariant == ASSUME FileSize <= IntMax PROVE Spec => []IInv
  <1>1. IInv /\ [Next]_vars => IInv' BY NextIInv
  <1>2. QED BY <1>1, InitIInv, PTL DEF Spec

(* A seek by the thread that answers with a place reads on from there. *)
THEOREM SeekReadsOnFromItsPlace == ASSUME FileSize <= IntMax PROVE Spec => []SoughtPlace
  <1>1. IInv => SoughtPlace BY DEF IInv, AnswerOK, SoughtPlace
  <1>2. QED BY <1>1, Invariant, PTL
=============================================================================
