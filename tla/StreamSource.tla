---------------------------- MODULE StreamSource ----------------------------
(* The stream source (streamsource: thread_read.c, streambufqueue.c, queue.c and
   source.c): a thread that reads ahead, block by block, into buffers, and the
   reader, that takes them, seeks among them, or has the thread seek the
   source.

   Buffers go from the queue of new data, as they are read, to that of old
   data, where a seek back finds them, and from there, or when all is reset, to
   the free ones.  A step is a critical section of the lock of the queues, or an
   access to the fields that both threads use with no lock or their own.  The
   reader waits with timeouts: a wait is to go round again, and the condition
   variable, which only makes it shorter, is left out.

   The source, a URL of FFmpeg, answers as it likes.  The reader's calls come
   one at a time; an interrupt (ffmpeg_interrupt_callback) may end any of them,
   and be over when the next one comes.  Seeks are SEEK_SET. *)
EXTENDS Integers, Sequences, SequencesExt, FiniteSetsExt

CONSTANTS
  FileSize,          \* length of the stream
  Block,             \* longest read of the source (toreadblocksize)
  ReadSize,          \* longest read of the reader, and of its seek by reading
  NEWDATA_MAX,
  OLDDATA_MAX,
  Few,               \* 16, of thread_read_download
  max_read_seek_len,
  IntMax,            \* largest int of the code
  MaxSeeks           \* bound: seeks in all

ASSUME StreamAssumption ==
  /\ {FileSize, NEWDATA_MAX, OLDDATA_MAX, Few, max_read_seek_len, IntMax, MaxSeeks} \subseteq Nat
  /\ {Block, ReadSize} \subseteq Nat \ {0}

VARIABLES
  newdata, oldqueue, freequeue,  \* freequeue: how many there are
  startpos,                      \* of newdata
  allocated,                     \* buffers ever allocated
  place, s_off,                  \* where the source is, and where it is taken to be
  opened, error, fatal_error, request_exit,
  request_seek, seek_offset, inseeking, seek_ret,
  tpc, hand, ret,                \* the thread: its step, the buffer it holds, the answer to a seek
  rpc, call,                     \* the reader: its step, and the call it is in
  answer,                        \* the place a seek by the thread has just answered with
  seeks

queues == <<newdata, oldqueue, freequeue, startpos, allocated>>
source == <<place, s_off>>
flags  == <<opened, error, fatal_error, request_exit>>
seekv  == <<request_seek, seek_offset, inseeking, seek_ret>>
thread == <<tpc, hand, ret>>
reader == <<rpc, call, answer, seeks>>
vars   == <<queues, source, flags, seekv, thread, reader>>

EAGAIN == -11
EIO    == -5
EOF    == -7
NOMEM  == -12
NONE   == -1
Errors == {EAGAIN, EIO, EOF, NOMEM}
Int32(n) == ((n + IntMax + 1) % (2 * (IntMax + 1))) - (IntMax + 1)

\* pos is what the queues take for the place of the first byte, at is its place.
Buffer(pos, at, len, start) == [pos |-> pos, at |-> at, len |-> len, start |-> start]
NoBuffer == Buffer(NONE, NONE, 0, 0)
Held     == hand.len > 0
\* size: bytes still wanted, got: those that came; off, pos, cur (curoff), left: of a seek
Call(op, size, off) == [op |-> op, size |-> size, got |-> 0, off |-> off, pos |-> 0, cur |-> 0, left |-> 0]
NoCall == Call("none", 0, 0)

(* queue_bufdatasize, streambuf_bufpos, streambuf_bufdatasize *)
DataSize(q) == LET size[i \in 0 .. Len(q)] == IF i = 0 THEN 0 ELSE size[i - 1] + q[i].len
               IN size[Len(q)]
Started     == IF newdata = <<>> THEN 0 ELSE Head(newdata).start
BufPos      == startpos + Started
BufDataSize == DataSize(newdata) - Started

Places    == 0 .. FileSize
SeekSteps == {"seek", "reset", "tell", "tail", "clear"}
TypeOK ==
  /\ \A q \in {newdata, oldqueue} : \A i \in DOMAIN q :
       q[i].at \in Places /\ q[i].len \in 1 .. Block /\ q[i].start \in 0 .. q[i].len - 1
  /\ freequeue \in 0 .. allocated /\ startpos \in Int
  /\ place \in Places /\ s_off \in Int
  /\ {opened, request_exit, request_seek, inseeking} \subseteq BOOLEAN
  /\ {error, fatal_error} \subseteq Errors \cup {0}
  /\ seek_offset \in Places /\ {seek_ret, ret, answer} \subseteq Places \cup {NONE}
  /\ tpc \in SeekSteps \cup {"loop", "get", "few", "read", "push", "exited"}
  /\ hand.len \in 0 .. Block
  /\ rpc \in {"open", "idle", "take", "check", "look", "where", "move", "range", "see", "ask", "wait",
              "join", "released"}
  /\ call.op \in {"none", "open", "read", "seek", "close"} /\ call.size \in 0 .. ReadSize
  /\ seeks \in 0 .. MaxSeeks

(* new_thread_read has just started the thread; streamsource_open waits for it. *)
Init ==
  /\ newdata = <<>> /\ oldqueue = <<>> /\ freequeue = 0 /\ startpos = 0 /\ allocated = 0
  /\ place = 0 /\ s_off = 0
  /\ opened = FALSE /\ error = 0 /\ fatal_error = 0 /\ request_exit = FALSE
  /\ request_seek = FALSE /\ seek_offset = 0 /\ inseeking = FALSE /\ seek_ret = 0
  /\ tpc = "loop" /\ hand = NoBuffer /\ ret = 0
  /\ rpc = "open" /\ call = Call("open", 0, 0) /\ answer = NONE /\ seeks = 0

(***************************************************************************)
(* The thread: thread_read_thread_run.                                     *)
(***************************************************************************)
Goes(from, to) == tpc = from /\ tpc' = to

(* It looks at request_exit once a round. *)
Exit ==
  /\ Goes("loop", "exited") /\ request_exit
  /\ UNCHANGED <<queues, source, flags, seekv, hand, ret, reader>>

(* After thread_read_openstream, tried until it succeeds, comes a request to seek, else a read. *)
Round ==
  /\ tpc = "loop" /\ ~request_exit
  /\ \E ok \in BOOLEAN :
       LET open == opened \/ ok
           err  == IF open THEN error ELSE EIO
       IN /\ opened => ok
          /\ opened' = open
          /\ IF request_seek
             THEN /\ tpc' = "seek" /\ inseeking' = TRUE /\ request_seek' = FALSE
                  /\ error' = 0 /\ fatal_error' = 0
             ELSE /\ tpc' = IF open /\ err # EOF THEN "get" ELSE "loop"
                  /\ error' = err /\ fatal_error' = IF open THEN fatal_error ELSE 0
                  /\ UNCHANGED <<request_seek, inseeking>>
  /\ UNCHANGED <<queues, source, request_exit, seek_offset, seek_ret, hand, ret, reader>>

(* thread_read_seekstream: the source is sought, and keeps its place if it refuses *)
SeekStream ==
  /\ tpc = "seek"
  /\ \/ /\ opened
        /\ place' = seek_offset /\ s_off' = seek_offset
        /\ ret' = Int32(seek_offset)
        /\ tpc' = IF ret' >= 0 THEN "reset" ELSE "tell"
     \/ ret' = NONE /\ tpc' = "tell" /\ UNCHANGED source
  /\ UNCHANGED <<queues, flags, seekv, hand, reader>>

\* mutant: what was read of the old place stays to be read
ResetOld ==
  /\ Goes("reset", "tell")
  /\ freequeue' = freequeue + Len(oldqueue)
  /\ oldqueue' = <<>>
  /\ UNCHANGED <<newdata, startpos, allocated, source, flags, seekv, hand, ret, reader>>
(* streambuf_reset: startpos follows the buffers of the queue it takes them from. *)
Reset ==
  /\ Goes("reset", "tell")
  /\ freequeue' = freequeue + Len(newdata) + Len(oldqueue)
  /\ startpos' = startpos + DataSize(newdata)
  /\ newdata' = <<>> /\ oldqueue' = <<>>
  /\ UNCHANGED <<allocated, source, flags, seekv, hand, ret, reader>>

Tell ==
  /\ Goes("tell", "tail")
  /\ seek_ret' = ret /\ inseeking' = FALSE
  /\ UNCHANGED <<queues, source, flags, request_seek, seek_offset, hand, ret, reader>>

(* thread_read_thread_run_l again: both fields once more, with no lock. *)
SeekEnds ==
  /\ Goes("tail", "clear")
  /\ inseeking' = FALSE
  /\ UNCHANGED <<queues, source, flags, request_seek, seek_offset, seek_ret, hand, ret, reader>>
Clear ==
  /\ Goes("clear", IF opened THEN "get" ELSE "loop")
  /\ request_seek' = FALSE
  /\ UNCHANGED <<queues, source, flags, seek_offset, inseeking, seek_ret, hand, ret, reader>>

\* mutant: an old buffer is taken from the other end
GetBufLast ==
  /\ tpc = "get"
  /\ IF freequeue > 0 THEN freequeue' = freequeue - 1 /\ tpc' = "read" /\ UNCHANGED <<oldqueue, allocated>>
     ELSE IF DataSize(oldqueue) > OLDDATA_MAX
          THEN oldqueue' = Front(oldqueue) /\ tpc' = "read" /\ UNCHANGED <<freequeue, allocated>>
     ELSE IF DataSize(newdata) > NEWDATA_MAX
          THEN tpc' = "few" /\ UNCHANGED <<oldqueue, freequeue, allocated>>
     ELSE allocated' = allocated + 1 /\ tpc' = "read" /\ UNCHANGED <<oldqueue, freequeue>>
  /\ UNCHANGED <<newdata, startpos, source, flags, seekv, hand, ret, reader>>
\* mutant: the limit of the new data is not looked at
GetBufAlways ==
  /\ Goes("get", "read")
  /\ IF freequeue > 0 THEN freequeue' = freequeue - 1 /\ UNCHANGED <<oldqueue, allocated>>
     ELSE IF DataSize(oldqueue) > OLDDATA_MAX
          THEN oldqueue' = Tail(oldqueue) /\ UNCHANGED <<freequeue, allocated>>
     ELSE allocated' = allocated + 1 /\ UNCHANGED <<oldqueue, freequeue>>
  /\ UNCHANGED <<newdata, startpos, source, flags, seekv, hand, ret, reader>>
(* streambuf_getbuf: a free buffer, one of too many old ones, or a new one *)
GetBuf ==
  /\ tpc = "get"
  /\ IF freequeue > 0 THEN freequeue' = freequeue - 1 /\ tpc' = "read" /\ UNCHANGED <<oldqueue, allocated>>
     ELSE IF DataSize(oldqueue) > OLDDATA_MAX
          THEN oldqueue' = Tail(oldqueue) /\ tpc' = "read" /\ UNCHANGED <<freequeue, allocated>>
     ELSE IF DataSize(newdata) > NEWDATA_MAX
          THEN tpc' = "few" /\ UNCHANGED <<oldqueue, freequeue, allocated>>
     ELSE allocated' = allocated + 1 /\ tpc' = "read" /\ UNCHANGED <<oldqueue, freequeue>>
  /\ UNCHANGED <<newdata, startpos, source, flags, seekv, hand, ret, reader>>

(* thread_read_download with no buffer to be had *)
TooFew ==
  /\ tpc = "few"
  /\ IF BufDataSize > Few THEN tpc' = "loop" /\ UNCHANGED fatal_error
     ELSE tpc' = "exited" /\ fatal_error' = NOMEM
  /\ UNCHANGED <<queues, source, opened, error, request_exit, seekv, hand, ret, reader>>

(* source_read: a number of bytes, *)
Download ==
  /\ Goes("read", "push")
  /\ \E n \in 1 .. Block :
       /\ place + n <= FileSize
       /\ hand' = Buffer(s_off, place, n, 0)
       /\ place' = place + n /\ s_off' = s_off + n
  /\ UNCHANGED <<queues, flags, seekv, ret, reader>>
(* or an error, which s_off takes for a number of bytes.  The code's EAGAIN is
   positive: what the source calls so is fatal as well. *)
DownloadFails ==
  /\ tpc = "read"
  /\ \E r \in {EOF, EAGAIN, EIO} :
       /\ r = EOF => place = FileSize
       /\ s_off' = s_off + r
       /\ error' = r /\ fatal_error' = IF r = EOF THEN fatal_error ELSE r
       /\ tpc' = IF fatal_error' < 0 THEN "exited" ELSE "loop"
  /\ freequeue' = freequeue + 1
  /\ UNCHANGED <<newdata, oldqueue, startpos, allocated, place, opened, request_exit, seekv, hand, ret,
                 reader>>

(* streambuf_buf_write *)
Push ==
  /\ Goes("push", "loop")
  /\ newdata' = Append(newdata, hand)
  /\ startpos' = IF DataSize(newdata) <= 0 THEN hand.pos ELSE startpos
  /\ hand' = NoBuffer
  /\ UNCHANGED <<oldqueue, freequeue, allocated, source, flags, seekv, ret, reader>>

Thread ==
  \/ Exit \/ Round \/ SeekStream \/ Reset \/ Tell \/ SeekEnds \/ Clear
  \/ GetBuf \/ TooFew \/ Download \/ DownloadFails \/ Push

(***************************************************************************)
(* The reader: streamsource_open, _read, _seek and _close.                 *)
(***************************************************************************)
Return == rpc' = "idle" /\ call' = NoCall

Read ==
  /\ rpc = "idle" /\ rpc' = "take"
  /\ \E size \in 1 .. ReadSize : call' = Call("read", size, 0)
  /\ answer' = NONE
  /\ UNCHANGED <<queues, source, flags, seekv, thread, seeks>>
Seek ==
  /\ rpc = "idle" /\ rpc' = "open" /\ seeks < MaxSeeks
  /\ \E off \in Places : call' = Call("seek", 0, off)
  /\ answer' = NONE /\ seeks' = seeks + 1
  /\ UNCHANGED <<queues, source, flags, seekv, thread>>
\* thread_read_stop; then thread_read_release joins the thread
Close ==
  /\ rpc = "idle" /\ rpc' = "join" /\ call' = Call("close", 0, 0)
  /\ request_exit' = TRUE /\ answer' = NONE
  /\ UNCHANGED <<queues, source, opened, error, fatal_error, seekv, thread, seeks>>
Join ==
  /\ rpc = "join" /\ tpc = "exited"
  /\ rpc' = "released" /\ call' = NoCall
  /\ UNCHANGED <<queues, source, flags, seekv, thread, answer, seeks>>

(* thread_read_get_options, before a seek as well *)
IsOpen ==
  /\ rpc = "open" /\ (opened \/ error # 0)
  /\ IF call.op = "open" THEN Return ELSE rpc' = "look" /\ UNCHANGED call
  /\ UNCHANGED <<queues, source, flags, seekv, thread, answer, seeks>>

(* streambuf_once_read, until there is nothing left to read or to fill.  A read
   that got something ends; that of a seek starts again until it has read enough. *)
ReadEnds(n) ==
  IF call.op = "read" THEN Return
  ELSE LET left == call.left - n
       IN /\ rpc' = IF left > 0 THEN "take" ELSE "see"
          /\ call' = [call EXCEPT !.left = left, !.size = ReadSize, !.got = 0]
\* mutant: a buffer read to its end stays in the new data
TakeLeaves ==
  /\ rpc = "take" /\ newdata # <<>>
  /\ LET buf == Head(newdata)
         n   == Min({buf.len - buf.start, call.size})
     IN /\ IF n <= buf.len - buf.start
           THEN /\ newdata' = <<[buf EXCEPT !.start = @ + n]>> \o Tail(newdata)
                /\ UNCHANGED oldqueue
           ELSE /\ newdata' = Tail(newdata)
                /\ oldqueue' = Append(oldqueue, [buf EXCEPT !.start = 0])
        /\ IF n = call.size THEN ReadEnds(call.got + n)
           ELSE call' = [call EXCEPT !.size = @ - n, !.got = @ + n] /\ UNCHANGED rpc
  /\ UNCHANGED <<freequeue, startpos, allocated, source, flags, seekv, thread, answer, seeks>>
Take ==
  /\ rpc = "take" /\ newdata # <<>>
  /\ LET buf == Head(newdata)
         n   == Min({buf.len - buf.start, call.size})
     IN /\ IF n < buf.len - buf.start
           THEN /\ newdata' = <<[buf EXCEPT !.start = @ + n]>> \o Tail(newdata)
                /\ UNCHANGED oldqueue
           ELSE /\ newdata' = Tail(newdata)
                /\ oldqueue' = Append(oldqueue, [buf EXCEPT !.start = 0])
        /\ IF n = call.size THEN ReadEnds(call.got + n)
           ELSE call' = [call EXCEPT !.size = @ - n, !.got = @ + n] /\ UNCHANGED rpc
  /\ UNCHANGED <<freequeue, startpos, allocated, source, flags, seekv, thread, answer, seeks>>
FindsNone ==
  /\ rpc = "take" /\ newdata = <<>>
  /\ IF call.got > 0 THEN ReadEnds(call.got) ELSE rpc' = "check" /\ UNCHANGED call
  /\ UNCHANGED <<queues, source, flags, seekv, thread, answer, seeks>>
(* thread_read_read with nothing: an error, but that a seek reads on after
   EAGAIN, or a wait *)
Failure == IF fatal_error # 0 THEN fatal_error ELSE error
\* mutant: an error that is not fatal is waited out
CheckFatal ==
  /\ rpc = "check"
  /\ IF fatal_error = 0 THEN rpc' = "take" /\ UNCHANGED call
     ELSE IF call.op = "read" THEN Return
     ELSE rpc' = (IF Failure = EAGAIN THEN "take" ELSE "see") /\ UNCHANGED call
  /\ UNCHANGED <<queues, source, flags, seekv, thread, answer, seeks>>
Check ==
  /\ rpc = "check"
  /\ IF fatal_error = 0 /\ error \in {0, EAGAIN} THEN rpc' = "take" /\ UNCHANGED call
     ELSE IF call.op = "read" THEN Return
     ELSE rpc' = (IF Failure = EAGAIN THEN "take" ELSE "see") /\ UNCHANGED call
  /\ UNCHANGED <<queues, source, flags, seekv, thread, answer, seeks>>

(* thread_read_seek, and streambuf_seek, each take the position for themselves. *)
Look ==
  /\ rpc = "look" /\ rpc' = "where"
  /\ call' = [call EXCEPT !.pos = BufPos]
  /\ UNCHANGED <<queues, source, flags, seekv, thread, answer, seeks>>
Where ==
  /\ rpc = "where"
  /\ IF BufPos = call.off /\ Int32(call.off) >= 0 THEN Return
     ELSE /\ rpc' = IF BufPos = call.off THEN "range" ELSE "move"
          /\ call' = [call EXCEPT !.cur = BufPos]
  /\ UNCHANGED <<queues, source, flags, seekv, thread, answer, seeks>>

(* streambuf_seek.  The first buffer of the new data is taken from its start;
   then whole buffers change queues, and the byte sought must be within the next
   one, and not its first.  startpos stays, in all of it. *)
Rewound == IF newdata = <<>> THEN newdata ELSE <<[Head(newdata) EXCEPT !.start = 0]>> \o Tail(newdata)
Within(buf) == call.off - buf.pos \in 1 .. buf.len - 1
From(buf)   == [buf EXCEPT !.start = call.off - buf.pos]
Forward ==
  LET past == Cardinality({i \in DOMAIN Rewound : \A j \in 1 .. i : Rewound[j].pos + Rewound[j].len < call.off})
      rest == SubSeq(Rewound, past + 1, Len(Rewound))
  IN IF call.off - call.cur > DataSize(newdata)
     THEN [new |-> Rewound, old |-> oldqueue, ok |-> FALSE]
     ELSE LET ok == rest # <<>> /\ Within(Head(rest))
          IN [new |-> IF ok THEN <<From(Head(rest))>> \o Tail(rest) ELSE rest,
              old |-> oldqueue \o SubSeq(Rewound, 1, past), ok |-> ok]
\* The buffer taken that the byte is not within is put back in no queue.
Backward ==
  LET last == Len(oldqueue) - Cardinality({i \in DOMAIN oldqueue :
                \A j \in i .. Len(oldqueue) : oldqueue[j].pos > call.off})
      rest == SubSeq(oldqueue, last + 1, Len(oldqueue)) \o Rewound
  IN IF call.cur - call.off > DataSize(oldqueue)
     THEN [new |-> Rewound, old |-> oldqueue, ok |-> FALSE]
     ELSE LET ok == last > 0 /\ Within(oldqueue[last])
          IN [new |-> IF ok THEN <<From(oldqueue[last])>> \o rest ELSE rest,
              old |-> SubSeq(oldqueue, 1, last - 1), ok |-> ok]
Move ==
  /\ rpc = "move"
  /\ LET moved == IF call.off > call.cur THEN Forward ELSE Backward
     IN /\ newdata' = moved.new /\ oldqueue' = moved.old
        /\ IF moved.ok /\ Int32(call.off) >= 0 THEN Return ELSE rpc' = "range" /\ UNCHANGED call
  /\ UNCHANGED <<freequeue, startpos, allocated, source, flags, seekv, thread, answer, seeks>>

(* The seek by reading, where the place is not too far ahead; then it sees where it is. *)
InRange ==
  /\ rpc = "range"
  /\ LET diff == Int32(call.off - call.pos)
         near == call.off > 0 /\ diff > 0 /\ diff - BufDataSize < max_read_seek_len
     IN /\ rpc' = IF near THEN "take" ELSE "see"
        /\ call' = [call EXCEPT !.left = diff, !.size = ReadSize]
  /\ UNCHANGED <<queues, source, flags, seekv, thread, answer, seeks>>
See ==
  /\ rpc = "see"
  /\ IF call.off > 0 /\ BufPos = call.off THEN Return ELSE rpc' = "ask" /\ UNCHANGED call
  /\ UNCHANGED <<queues, source, flags, seekv, thread, answer, seeks>>

(* The seek by the thread. *)
Ask ==
  /\ rpc = "ask" /\ rpc' = "wait"
  /\ request_seek' = TRUE /\ seek_offset' = call.off /\ inseeking' = TRUE /\ seek_ret' = NONE
  /\ UNCHANGED <<queues, source, flags, thread, call, answer, seeks>>
Answered ==
  /\ rpc = "wait" /\ (~inseeking \/ fatal_error # 0)
  /\ Return /\ answer' = seek_ret
  /\ UNCHANGED <<queues, source, flags, seekv, thread, seeks>>

(* ffmpeg_interrupt_callback is seen true: a wait ends, the call goes on or returns. *)
Interrupt ==
  /\ \/ rpc = "open" /\ call.op = "open" /\ Return /\ UNCHANGED answer
     \/ rpc = "open" /\ call.op = "seek" /\ rpc' = "look" /\ UNCHANGED <<call, answer>>
     \/ rpc \in {"take", "check"} /\ call.got = 0 /\ call.op = "read" /\ Return /\ UNCHANGED answer
     \/ rpc \in {"take", "check"} /\ call.got = 0 /\ call.op = "seek" /\ rpc' = "see" /\ UNCHANGED <<call, answer>>
     \/ rpc = "wait" /\ Return /\ answer' = seek_ret
  /\ UNCHANGED <<queues, source, flags, seekv, thread, seeks>>

Calls == Read \/ Seek \/ Close
ReaderSteps == \/ Join \/ IsOpen \/ Take \/ FindsNone \/ Check
         \/ Look \/ Where \/ Move \/ InRange \/ See \/ Ask \/ Answered
Next == Thread \/ Calls \/ ReaderSteps \/ Interrupt
Spec == Init /\ [][Next]_vars
FairSpec == Spec /\ WF_vars(Thread) /\ WF_vars(ReaderSteps)

(***************************************************************************)
(* Properties.                                                             *)
(***************************************************************************)
Taken   == IF tpc \in {"read", "push"} THEN 1 ELSE 0
Buffers == Len(newdata) + Len(oldqueue) + freequeue + Taken
Nearest == IF newdata # <<>> THEN Head(newdata).at + Head(newdata).start
           ELSE IF Held THEN hand.at ELSE place

(* As long as no buffer is lost (Backward), the old data and the new are one
   stretch of the stream, whole and in order, whose end is where the source
   goes on, whatever the reader reads and seeks and whenever the thread is at
   it: streambuf_once_read, streambuf_seek, streambuf_getbuf, streambuf_reset. *)
OrderKept ==
  Buffers = allocated =>
    LET all == oldqueue \o newdata \o (IF Held THEN <<hand>> ELSE <<>>)
    IN /\ \A i \in 1 .. Len(all) - 1 : all[i].at + all[i].len = all[i + 1].at
       /\ \A i \in DOMAIN all : all[i].start > 0 => i = Len(oldqueue) + 1
       /\ all # <<>> /\ tpc # "reset" => Last(all).at + Last(all).len = place

(* The buffers the stream owns, old, new, free and in hand, are never more than
   the two limits of streambuf_getbuf allow, though either queue alone may go
   beyond its own. *)
BuffersBounded == Buffers <= NEWDATA_MAX + OLDDATA_MAX + 1

(* When a seek by the thread has answered with a place, the next byte to be
   read is that one, with nothing of the old place left before it: the reset of
   thread_read_seekstream, and the reads of the thread before and after it. *)
SoughtPlace == answer # NONE => Nearest = answer

(* An open, a read and a close return, with no need of an interrupt; so does a
   seek that asks the thread while it is not serving another (thread_read_read
   and thread_read_seek wait for an error or a fatal error as well). *)
CallsReturn ==
  (call.op \in {"open", "read", "close"} \/ (rpc = "wait" /\ request_seek /\ tpc \notin SeekSteps))
    ~> (call.op = "none")
=============================================================================
