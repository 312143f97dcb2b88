------------------------------ MODULE LoopBuffer ------------------------------
(* The loop buffer of the input (amffmpeg/libavformat/aviolpbuf.c): a ring
   between a slow source and avio, that keeps what was read for seeking back.
   The ring is filled at wp from the cache or the source, and read at rp; pos
   is the place of wp in the stream.

   The calls modelled come from the player thread, one at a time (the mate
   thread reads only pos): a call of avio, a fill for buffering, a reset.  A
   read, and a seek done by reading, take several fills, whose results the
   source chooses.

   The source is one of Kinds: "file", which can be sought; "stream", which
   cannot (is_streamed); "timed", which can be sought by time only, and then
   counts its bytes from 0 again; "sliced", the input of the CMF demuxer
   (cmfvpb.c), sought by time, or to a byte of the slice that is selected.  It
   delivers byte base + low next; bytes of a cache nobody wrote are HOLE. *)
EXTENDS CacheFile

CONSTANTS
  Kinds,
  Size,          \* buffer_size
  Reserve,       \* 32: kept free, so that a full ring is not taken for an empty one
  BackReserve,   \* 64: not offered for seeking back
  Block,         \* block_read_size
  Slack,         \* 1024, of url_lp_intelligent_buffering
  BackMax,       \* 3M, of url_lp_intelligent_buffering
  MaxReadSeek,   \* max_read_seek
  FileSize,      \* length of the source
  Times,         \* bases a seek by time may lead to
  MaxRead,       \* longest read of avio
  IntMax         \* the largest int: valid_data_size wraps behind it

ASSUME LoopAssumption ==
  /\ Kinds \subseteq {"file", "stream", "timed", "sliced"}
  /\ {Size, Reserve, BackReserve, Block, Slack, BackMax, MaxReadSeek, FileSize, MaxRead, IntMax} \subseteq Nat
  /\ Times \subseteq Nat
  /\ 0 < Reserve /\ Reserve <= BackReserve /\ Reserve < Size
  /\ 0 < Block /\ Block <= Size /\ Size <= IntMax

VARIABLES
  buffer, rp, wp, valid_data_size, pos,
  kind, base, low,  \* the source: where it counts from, and its read position
  slice,            \* where the slice begins in which a "sliced" one is sought
  places,           \* history: what the places of the ring are worth
  call              \* the call the player thread is in

loopVars == <<buffer, rp, wp, valid_data_size, pos>>
srcVars  == <<kind, base, low, slice, places>>
vars == <<loopVars, srcVars, call, cacheVars>>

EAGAIN   == -11
EIO      == -5
Call(op, len, some) == [op |-> op, len |-> len, some |-> some]
NoCall   == Call("none", 0, FALSE)
HOLE     == -1

Seekable  == kind \in {"file", "sliced"}
file_size == IF Seekable THEN FileSize ELSE -1
Cells     == 0 .. Size - 1
Origins   == Times \cup {0}

(* "own": a byte has the place it has in the stream; "shifted": the places were
   counted from 0 again while the source stayed where it was; "mixed": the source
   was sought while the ring held bytes it had delivered elsewhere. *)
Worth == {"own", "shifted", "mixed"}

\* A plausible mistake: the pointer stays on the end.
UpLate(p) == IF p > Size THEN p - Size ELSE p
(* Pointers behind the end go on at the start, and the other way round. *)
Up(p) == IF p >= Size THEN p - Size ELSE p
Down(p) == IF p < 0 THEN p + Size ELSE p
Int32(v) == IF v > IntMax THEN v - 2 * (IntMax + 1) ELSE v

(* valid_data_can_seek_forward, pos_on_read, valid_data_can_seek_back *)
Forward == IF wp >= rp THEN wp - rp ELSE Size - (rp - wp)
ReadPos == pos - Forward
\* A plausible mistake: all that was read is offered, however small the ring.
BackOfCount == Most(0, valid_data_size - Forward)
Back == Most(0, Least(valid_data_size - Forward, Size - Forward - BackReserve))
(* valid_data_can_read: what a read can take at once *)
CanRead == IF wp >= rp THEN wp - rp ELSE Size - rp

TypeOK ==
  /\ buffer \in [Cells -> Int]
  /\ rp \in Cells /\ wp \in Cells
  /\ valid_data_size \in -(IntMax + 1) .. IntMax
  /\ pos \in Nat /\ low \in 0 .. FileSize
  /\ kind \in Kinds /\ base \in Origins /\ slice \in Origins /\ places \in Worth
  /\ call.op \in {"none", "read", "readseek"} /\ call.len \in Nat
  /\ CacheTypeOK

Init ==
  /\ buffer = [i \in Cells |-> HOLE]
  /\ rp = 0 /\ wp = 0 /\ valid_data_size = 0 /\ pos = 0
  /\ kind \in Kinds /\ base = 0 /\ low = 0 /\ slice = 0 /\ places = "own"
  /\ call = NoCall
  /\ CacheInit
  /\ kind = "sliced" => ~ cache_enable  \* it has no name to be cached under

(****************************************************************************)
(* url_lpfillbuffer(size), returning r                                      *)
(****************************************************************************)
\* A plausible mistake: the reserve is kept everywhere.
RoomAlwaysReserved(size) ==
  IF wp >= rp THEN Least(size, Size - wp - Reserve) ELSE Least(size, rp - wp - Reserve)
Room(size) ==
  IF wp >= rp
  THEN IF rp # 0 THEN Least(size, Size - wp) ELSE Least(size, Size - wp - Reserve)
  ELSE Least(size, rp - wp - Reserve)

(* The bytes 0 .. n - 1 of a source or a cache go into the ring. *)
Store(n, bytes) ==
  /\ buffer' = [i \in Cells |-> IF wp <= i /\ i < wp + n THEN bytes[i - wp] ELSE buffer[i]]
  /\ wp' = IF wp + n >= Size THEN 0 ELSE wp + n
  /\ valid_data_size' = Int32(valid_data_size + n)
  /\ pos' = pos + n
  /\ UNCHANGED rp

Cached(size) == cache_client_read(pos, Room(size))
AtEnd        == file_size > 0 /\ pos >= file_size
(* With a cache the source may be elsewhere, and is sought first, if it tells
   where it is. *)
MustSeek     == cache_enable /\ low > 0 /\ low # pos

(* A plausible mistake: the caller is told to try again. *)
FillNotAgain(size, r) ==
  /\ Room(size) <= 0 \/ (Cached(size) = 0 /\ AtEnd)
  /\ r = EAGAIN
  /\ UNCHANGED <<loopVars, low, cacheVars>>
FillNot(size, r) ==
  /\ Room(size) <= 0 \/ (Cached(size) = 0 /\ AtEnd)
  /\ r = 0
  /\ UNCHANGED <<loopVars, low, cacheVars>>

FillFromCache(size, r) ==
  /\ Room(size) > 0 /\ r = Cached(size) /\ r > 0
  /\ Store(r, [k \in 0 .. r - 1 |-> IF pos + k \in cache_data THEN pos + k ELSE HOLE])
  /\ UNCHANGED <<low, cacheVars>>

FillSeekFails(size, r) ==
  /\ Room(size) > 0 /\ Cached(size) = 0 /\ ~ AtEnd
  /\ MustSeek /\ r = -1
  /\ UNCHANGED <<loopVars, low, cacheVars>>

FillFromSource(size, r) ==
  /\ Room(size) > 0 /\ Cached(size) = 0 /\ ~ AtEnd
  /\ LET from  == IF MustSeek /\ Seekable THEN pos ELSE low
         right == IF base + from = pos THEN pos .. pos + r - 1 ELSE {}
     IN \/ /\ r \in 1 .. Least(Room(size), FileSize - from)
           /\ low' = from + r
           /\ Store(r, [k \in 0 .. r - 1 |-> base + (from + k)])
           /\ cache_client_write(pos, r, right)
           /\ UNCHANGED cache_enable
        \/ /\ r \in {EAGAIN, EIO} \/ (r = 0 /\ from = FileSize)
           /\ low' = from
           /\ UNCHANGED <<loopVars, cacheVars>>

Fill(size, r) ==
  FillNot(size, r) \/ FillFromCache(size, r) \/ FillSeekFails(size, r) \/ FillFromSource(size, r)

FillResults == {EAGAIN, EIO} \cup -1 .. Size

(****************************************************************************)
(* url_lpread                                                               *)
(****************************************************************************)
Read(n) ==
  /\ call = NoCall /\ n > 0
  /\ call' = Call("read", n, FALSE)
  /\ UNCHANGED <<loopVars, srcVars, cacheVars>>

(* Bytes of the ring are handed out, or passed over by a seek. *)
Take ==
  /\ call.len > 0 /\ CanRead > 0
  /\ LET n == Least(call.len, CanRead) IN
       /\ rp' = Up(rp + n)
       /\ call' = Call(call.op, call.len - n, call.op = "readseek")
  /\ UNCHANGED <<buffer, wp, valid_data_size, pos, srcVars, cacheVars>>

(* The ring is empty: it is filled with a block, or, with LESS_BUFF_DATA, only
   with what is missing. *)
TakeFills ==
  /\ call.len > 0 /\ CanRead = 0
  /\ \E size \in {Block} \cup {n \in {call.len} : n < Block}, r \in FillResults :
       /\ Fill(size, r)
       /\ \/ /\ r > 0
             /\ UNCHANGED call
          \* a seek reads again after a part or EAGAIN
          \/ /\ r <= 0 /\ call.op = "readseek" /\ (call.some \/ r = EAGAIN)
             /\ call' = Call(call.op, call.len, FALSE)
          \* it gives up at the end or an error; a read returns what it has
          \/ /\ r <= 0 /\ (call.op = "readseek" => ~ call.some /\ r # EAGAIN)
             /\ call' = NoCall
  /\ UNCHANGED <<kind, base, slice, places>>

(* Everything asked for is read, or passed over. *)
TakeEnds ==
  /\ call # NoCall /\ call.len = 0
  /\ call' = NoCall
  /\ UNCHANGED <<loopVars, srcVars, cacheVars>>

(****************************************************************************)
(* url_lpseek                                                               *)
(****************************************************************************)
\* A plausible mistake: what the old ring held is still offered.
RestartKeepsCount(p) ==
  /\ rp' = 0 /\ wp' = 0 /\ UNCHANGED valid_data_size /\ pos' = p
  /\ buffer' = [i \in Cells |-> HOLE]

(* The ring starts anew at place p; what it held is not looked at again. *)
Restart(p) ==
  /\ rp' = 0 /\ wp' = 0 /\ valid_data_size' = 0 /\ pos' = p
  /\ buffer' = [i \in Cells |-> HOLE]

(* The source is sought to byte p, of the slice that is selected if it has any. *)
SourceTo(p) == low' = p /\ base' = IF kind = "sliced" THEN slice ELSE base

(* So it is under a ring that stays as it is. *)
SourceUnderRing(p) ==
  /\ SourceTo(p)
  /\ places' = IF cache_enable \/ (low' = low /\ base' = base) THEN places ELSE "mixed"

InRing(offset) == offset - ReadPos \in -Back .. Forward

(* The source is slow: a seek forward over not too much is done by reading. *)
ByReading(offset) ==
  LET ahead == offset - ReadPos IN
    /\ ahead > Forward
    /\ \/ kind = "stream"
       \/ /\ ahead < Size - Block /\ ahead <= MaxReadSeek
          /\ file_size > 0 => ahead < (3 * file_size) \div 4

SeekInRing(offset) ==
  /\ call = NoCall /\ InRing(offset)
  /\ rp' = Down(Up(rp + (offset - ReadPos)))
  /\ UNCHANGED <<buffer, wp, valid_data_size, pos, srcVars, call, cacheVars>>

SeekByReading(offset) ==
  /\ call = NoCall /\ ~ InRing(offset) /\ ByReading(offset)
  /\ rp' = wp
  /\ call' = Call("readseek", offset - pos, FALSE)
  /\ UNCHANGED <<buffer, wp, valid_data_size, pos, srcVars, cacheVars>>

(* With a cache the source is left where it is: a fill seeks it on a miss. *)
SeekSource(offset) ==
  /\ call = NoCall /\ ~ InRing(offset) /\ ~ ByReading(offset)
  /\ \/ /\ cache_enable /\ offset < file_size
        /\ UNCHANGED <<low, base>>
     \/ /\ ~ (cache_enable /\ offset < file_size)
        /\ Seekable /\ offset < FileSize
        /\ SourceTo(offset)
  /\ Restart(offset) /\ places' = "own"
  /\ UNCHANGED <<kind, slice, call, cacheVars>>

(* The source cannot be sought there.  It is sought back to pos "to clear the
   errors". *)
SeekSourceFails(offset) ==
  /\ call = NoCall /\ ~ InRing(offset) /\ ~ ByReading(offset)
  /\ ~ (cache_enable /\ offset < file_size)
  /\ valid_data_size' = 0
  /\ \/ /\ Seekable /\ pos < FileSize
        /\ SourceUnderRing(pos)
     \/ UNCHANGED <<low, base, places>>
  /\ UNCHANGED <<buffer, rp, wp, pos, kind, slice, call, cacheVars>>

Seek(offset) == SeekInRing(offset) \/ SeekByReading(offset) \/ SeekSource(offset) \/ SeekSourceFails(offset)

(* SEEK_END *)
SeekEnd(back) ==
  /\ call = NoCall /\ Seekable /\ back \in 1 .. FileSize
  /\ SourceTo(FileSize - back)
  /\ Restart(FileSize - back) /\ places' = "own"
  /\ UNCHANGED <<kind, slice, call, cacheVars>>

(* AVSEEK_SIZE of a source that tells its length only by its end: it is sought
   there and back to pos, which may fail behind the end. *)
AskSize ==
  /\ call = NoCall /\ kind = "file"
  /\ \/ pos <= FileSize /\ SourceUnderRing(pos)
     \/ pos >= FileSize /\ FileSize > 0 /\ SourceUnderRing(FileSize - 1)
  /\ UNCHANGED <<loopVars, kind, slice, call, cacheVars>>

(****************************************************************************)
(* The other calls                                                          *)
(****************************************************************************)
(* url_lpexseek: vhls tells how far behind pos the time is, and if that is in
   the ring it is sought there; else the source seeks, and counts from 0. *)
SeekTimeInRing(behind) ==
  /\ call = NoCall /\ kind = "timed"
  /\ Back + Forward > 0 /\ behind \in 0 .. Back + Forward
  /\ rp' = Down(Up(rp + (Forward - behind)))
  /\ UNCHANGED <<buffer, wp, valid_data_size, pos, srcVars, call, cacheVars>>

SeekTime(t) ==
  /\ call = NoCall /\ kind \in {"timed", "sliced"}
  /\ base' = t /\ low' = 0
  /\ Restart(0) /\ places' = "own"
  /\ UNCHANGED <<kind, slice, call, cacheVars>>

(* AVSEEK_SLICE_BYTIME: the source selects the slice it is to be sought in (the
   lists of file_list2.c and of libvhls read on where they are until then), and
   the ring stays as it is. *)
SeekSlice(t) ==
  /\ call = NoCall /\ kind = "sliced"
  /\ slice' = t
  /\ UNCHANGED <<loopVars, kind, base, low, places, call, cacheVars>>

(* url_lpreset: the source stays where it is, or a stream has been moved by its
   demuxer just before (ffmpeg_hls_demuxer.c). *)
Reset ==
  /\ call = NoCall
  /\ \/ UNCHANGED <<low, base>>
     \/ kind = "stream" /\ low' = 0 /\ base' \in Times
  /\ Restart(0)
  /\ places' = IF cache_enable \/ low' = 0 THEN "own" ELSE "shifted"
  /\ UNCHANGED <<kind, slice, call, cacheVars>>

(* url_lp_intelligent_buffering *)
Buffering ==
  /\ call = NoCall
  /\ Forward \div Size < 1
  /\ \/ Back + Forward < Size - Block - Slack
     \/ Back > Forward \div 2 + 1
     \/ Back > BackMax
  /\ \E r \in FillResults : Fill(Block, r)
  /\ UNCHANGED <<kind, base, slice, places, call>>

(* The ring and its source are closed, and opened anew for the same stream; the
   CMF demuxer opens a slice. *)
Reopen ==
  /\ call = NoCall
  /\ base' \in IF kind = "sliced" THEN Origins ELSE {0}
  /\ slice' = base' /\ low' = 0
  /\ Restart(0) /\ places' = "own"
  /\ CacheReopens(kind = "file")
  /\ UNCHANGED <<kind, call>>

Next ==
  \/ \E n \in 1 .. MaxRead : Read(n)
  \/ Take \/ TakeFills \/ TakeEnds
  \/ \E offset \in 0 .. FileSize + 1 : Seek(offset)
  \/ \E back \in 1 .. FileSize : SeekEnd(back)
  \/ \E behind \in 0 .. Size : SeekTimeInRing(behind)
  \/ \E t \in Times : SeekTime(t) \/ SeekSlice(t)
  \/ AskSize \/ Buffering \/ Reset \/ Reopen

Spec == Init /\ [][Next]_vars

(* The player thread runs on; and a source that is asked again and again, by a
   seek that reads on after EAGAIN, answers something else in the end: bytes,
   an error (a timeout, an interrupt), or the end. *)
SourceAnswers == TakeFills /\ (loopVars' # loopVars \/ call' = NoCall)
FairSpec == Spec /\ WF_vars(Take) /\ WF_vars(TakeFills) /\ WF_vars(TakeEnds)
                 /\ SF_vars(SourceAnswers)

(****************************************************************************)
(* Properties                                                               *)
(****************************************************************************)
(* What a read would get, and what can be sought back to, are consecutive bytes
   of the stream, whose places there are shift more than the ring says. *)
RingHolds(shift) ==
  /\ \A i \in 0 .. Forward - 1 : buffer[Up(rp + i)] = base + shift + (ReadPos + i)
  /\ \A i \in 1 .. Back : buffer[Down(rp - i)] = base + shift + (ReadPos - i)

(* They are the bytes of the stream at these places. *)
RingHoldsStream == RingHolds(0)

(* Without a cache they are, also when valid_data_size has counted beyond the
   ring, or wrapped; and after a reset that left the source where it was they
   are at least the bytes it has delivered since, none missing and none twice. *)
SourceRingHolds ==
  ~ cache_enable =>
    /\ places = "own" => RingHoldsStream
    /\ places = "shifted" => RingHolds(low - pos)

(* A read of an empty ring finds room to fill: the reserve does not make it
   take a full stop for the end of the stream. *)
EmptyRingFills == (call # NoCall /\ CanRead = 0) => Room(1) > 0

(* The ring is a window on the stream. *)
Window == INSTANCE InputWindow WITH first <- ReadPos - Back, next <- ReadPos, last <- pos
ImplementsWindow == Window!Spec

(* Reads and seeks return, also at the end of the stream. *)
CallsEnd == (call # NoCall) ~> (call = NoCall)
=============================================================================
