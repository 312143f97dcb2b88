---------------------------- MODULE PlayerThread ----------------------------
(***************************************************************************)
(* The player thread (amplayer/player/player.c) and its mate               *)
(* (player_mate.c).                                                        *)
(*                                                                         *)
(* The player thread opens a file, waits for the start if it must, then    *)
(* loops: check the commands and the flags they set, read a packet, write  *)
(* it to the decoder, and, when an end or a seek is flagged, stop or reset *)
(* and go on.  While it is inside a read that may block, or a seek, it     *)
(* lets its mate execute the commands in its place; the two share the      *)
(* flags of play_para_t and no lock guards them.                           *)
(*                                                                         *)
(* Clients send commands through the queue (CommandQueue, which the        *)
(* message pool implements), and stop the player: empty the queue,         *)
(* interrupt the player thread, send CMD_STOP.  The request to exit of the *)
(* player thread (ThreadPool) is here a flag, "interrupted".               *)
(*                                                                         *)
(* Not here: fast forward and backward, live streams, buffering states,    *)
(* switching of audio and subtitles.                                       *)
(***************************************************************************)
EXTENDS Integers, Sequences

CONSTANTS
  QueueMax,   \* MESSAGE_MAX
  FullTime,   \* state.full_time
  Sendable,   \* commands that clients send, beside the stop
  MaxSends,   \* bound: how many of them
  SEM_VALUE_MAX, \* of the C library: a semaphore at this value is not posted
  Hangs,      \* the decoder may hang, and its watchdog ask for a reset
  NeedStart,  \* start_param->need_start
  Network     \* the source is slow media, not local playback

Kinds == {"START", "STOP", "SEARCH", "PAUSE", "RESUME", "LOOP", "NOLOOP", "TSPROGRAM"}
Args  == -1..(FullTime + 1)

ASSUME PlayerAssumption ==
  /\ FullTime \in Nat \ {0}
  /\ QueueMax \in Nat \ {0} /\ MaxSends \in Nat /\ SEM_VALUE_MAX \in Nat \ {0}
  /\ Sendable \subseteq [kind : Kinds \ {"STOP"}, arg : Args]
  /\ Hangs \in BOOLEAN /\ NeedStart \in BOOLEAN /\ Network \in BOOLEAN

VARIABLES
  queue,        \* the pending commands
  para,         \* flags of playctrl_info, the state of the player, and whether a
                \* packet is being written (avpkt_isvalid); for the properties also
                \* the time that the last search executed asked for, and whether
                \* anything but a search has set time_point since
  pc,           \* where the player thread is
  site,         \* which call it makes while the mate may work
  res,          \* what that call returned
  sought,       \* the time that time_search has the source seek to, or -1
  oldcmd,       \* was the command executed last a search?
  mate,         \* where the mate is
  mate_isrunng,
  mate_should_sleep,
  mate_should_exit,
  mate_sem,
  interrupted,  \* the request to exit of the player thread
  temp_interrupt_ffmpeg,
  ignore_ffmpeg_errors,
  stop,         \* where the client that stops the player is
  sends         \* commands sent so far

mates   == <<mate, mate_isrunng, mate_should_sleep, mate_should_exit, mate_sem>>
signals == <<interrupted, temp_interrupt_ffmpeg, ignore_ffmpeg_errors>>
main    == <<pc, site, res, sought>>
clients == <<stop, sends>>
vars    == <<queue, para, oldcmd, main, mates, signals, clients>>

Q == INSTANCE CommandQueue WITH SEARCH <- "SEARCH"

Statuses == {"INITING", "TYPE_REDY", "INITOK", "START", "RUNNING", "PAUSE",
             "SEARCHING", "SEARCHOK", "PLAYEND", "STOPED", "ERROR", "EXIT"}

Inside  == {"reading", "seek", "sleep", "sleep2", "sleep3"}
Pcs     == {"open", "dec_init", "wait_start", "prepare", "check", "read", "judge", "write",
            "drain", "tail", "reset", "release", "join", "exit", "done"} \cup Inside
MatePcs == {"none", "sem", "woken", "running", "work", "cmd", "intr", "after", "update",
            "leave", "dead"}

TypeOK ==
  /\ Q!TypeOK
  /\ para \in [end_flag : BOOLEAN, search_flag : BOOLEAN, reset_flag : BOOLEAN,
               request_end_flag : BOOLEAN, loop_flag : BOOLEAN, pause_flag : BOOLEAN,
               switch_ts_program_flag : BOOLEAN, read_end_flag : BOOLEAN,
               packet : BOOLEAN,
               time_point : -1..FullTime, status : Statuses,
               asked : Args, moved : BOOLEAN]
  /\ pc \in Pcs /\ site \in {"read", "buffering", "seek"}
  /\ res \in {"ok", "fail", "ignorable"}
  /\ sought \in -1..(FullTime - 1) /\ oldcmd \in BOOLEAN
  /\ mate \in MatePcs /\ mate_isrunng \in BOOLEAN
  /\ mate_should_sleep \in BOOLEAN /\ mate_should_exit \in BOOLEAN
  /\ mate_sem \in 0..SEM_VALUE_MAX
  /\ interrupted \in BOOLEAN /\ temp_interrupt_ffmpeg \in BOOLEAN
  /\ ignore_ffmpeg_errors \in BOOLEAN
  /\ stop \in {"idle", "clear", "interrupt", "send", "sent"} /\ sends \in 0..MaxSends

Init ==
  /\ queue = << >>
  /\ para = [end_flag |-> FALSE, search_flag |-> FALSE, reset_flag |-> FALSE,
             request_end_flag |-> FALSE, loop_flag |-> FALSE, pause_flag |-> FALSE,
             switch_ts_program_flag |-> FALSE, read_end_flag |-> FALSE,
             packet |-> FALSE, time_point |-> -1, status |-> "INITING",
             asked |-> -1, moved |-> FALSE]
  /\ pc = "open" /\ site = "read" /\ res = "ok" /\ sought = -1 /\ oldcmd = FALSE
  /\ mate = "none" /\ mate_isrunng = FALSE /\ mate_sem = 0
  /\ mate_should_sleep = FALSE /\ mate_should_exit = FALSE
  /\ interrupted = FALSE /\ temp_interrupt_ffmpeg = FALSE /\ ignore_ffmpeg_errors = FALSE
  /\ stop = "idle" /\ sends = 0
-----------------------------------------------------------------------------
(* check_msg: what a command does to the flags. *)

(* Mutant: a seek beyond the end is taken for one inside. *)
InRangeOrBeyond(t) == t >= 0

InRange(t) == t >= 0 /\ t < FullTime

Seek(p, t) ==
  IF InRange(t)
  THEN [p EXCEPT !.search_flag = TRUE, !.time_point = t, !.end_flag = TRUE,
                 !.asked = t, !.moved = FALSE]
  ELSE IF t < 0
  THEN [p EXCEPT !.reset_flag = TRUE, !.time_point = -1, !.end_flag = TRUE,
                 !.asked = t, !.moved = FALSE]
  ELSE [p EXCEPT !.end_flag = TRUE, !.search_flag = FALSE, !.status = "PLAYEND",
                 !.asked = t, !.moved = FALSE]

check_msg(p, c) ==
  CASE c.kind = "STOP" -> [p EXCEPT !.end_flag = TRUE, !.loop_flag = FALSE,
                             !.search_flag = FALSE, !.request_end_flag = TRUE]
    [] c.kind = "SEARCH" -> Seek(p, c.arg)
    [] c.kind \in {"PAUSE", "RESUME"} ->
         IF p.status = "SEARCHING" THEN p ELSE [p EXCEPT !.pause_flag = (c.kind = "PAUSE")]
    [] c.kind \in {"LOOP", "NOLOOP"} -> [p EXCEPT !.loop_flag = (c.kind = "LOOP")]
    [] c.kind = "TSPROGRAM" -> [p EXCEPT !.switch_ts_program_flag = TRUE,
                                  !.search_flag = TRUE, !.time_point = 0, !.moved = TRUE]
    [] OTHER -> p

(* Two searches in a row: the second waits until a frame of the first shows,
   at most 300 ms. *)
MayThrottle == oldcmd /\ queue # << >> /\ Head(queue).kind = "SEARCH"

(* get_message and check_msg, if there is a command. *)
ExecuteNext(p) == IF queue = << >> THEN p ELSE check_msg(p, Head(queue))
TakeNext == /\ queue' = IF queue = << >> THEN queue ELSE Tail(queue)
            /\ oldcmd' = IF queue = << >> THEN oldcmd ELSE Head(queue).kind = "SEARCH"

EndStatus(p) == IF p.request_end_flag THEN "STOPED" ELSE "PLAYEND"

Played(p) == [p EXCEPT !.end_flag = TRUE, !.status = "PLAYEND",
                       !.search_flag = FALSE, !.reset_flag = FALSE]

(* update_playing_info: when all was read the end of the stream may be found,
   by buffers that run low (check_avbuf_end) or do not move (check_force_end). *)
Updated(p) ==
  {p} \cup
  (IF ~ p.read_end_flag \/ p.status = "PAUSE" \/ p.end_flag THEN {}
   ELSE {IF p.loop_flag \/ p.status = "SEARCHING" THEN [p EXCEPT !.end_flag = TRUE] ELSE Played(p),
         IF p.loop_flag THEN [p EXCEPT !.end_flag = TRUE, !.search_flag = FALSE] ELSE Played(p)})

(* The pause and the resume that check_flag and the mate carry out. *)
PauseOrResume(p) ==
  IF p.pause_flag THEN {[p EXCEPT !.status = "PAUSE"]}
  ELSE IF p.status \in {"PAUSE", "SEARCHOK"} THEN Updated([p EXCEPT !.status = "RUNNING"])
  ELSE {p}

(* check_flag after the command: the end, unless it is the end before a seek. *)
Ended(p) == IF p.search_flag THEN p ELSE [p EXCEPT !.status = EndStatus(p)]

(* The rest of check_flag: where a switch of the program is flagged it breaks,
   unless it has returned before, when the pts moved and there is no subtitle. *)
Checked(p) ==
  IF p.end_flag THEN {[para |-> Ended(p), ret |-> "BREAK"]}
  ELSE [para : PauseOrResume(p),
        ret : IF p.pause_flag THEN {"CONTINUE"}
              ELSE {"NONO"} \cup (IF p.switch_ts_program_flag THEN {"BREAK"} ELSE {})]

(* check_decoder_worksta: a decoder that hangs is to be reset, where it is or
   a second later, be it beyond the end. *)
Watched(p) ==
  {p} \cup (IF p.status = "PAUSE" \/ ~ Hangs THEN {}
            ELSE {[p EXCEPT !.reset_flag = TRUE, !.end_flag = TRUE, !.time_point = t,
                            !.moved = TRUE] : t \in {-1} \cup 1..FullTime})
-----------------------------------------------------------------------------
(* The player thread.  What a call returned is forgotten once it is judged. *)
Goto(at) == pc' = at /\ site' = "read" /\ res' = "ok" /\ sought' = -1
Waits(at) == pc' = at /\ UNCHANGED <<site, res, sought>>
Fail(at) == /\ para' = [para EXCEPT !.status = "ERROR"] /\ Goto(at)

HasStop  == \E i \in 1..Len(queue) : queue[i].kind = "STOP"
(* check_stop_cmd: take commands until one is a stop, and forget the others. *)
DrainToStop ==
  \/ ~ HasStop /\ queue' = << >>
  \/ \E n \in 1..Len(queue) :
       /\ queue[n].kind = "STOP"
       /\ \A i \in 1..(n - 1) : queue[i].kind # "STOP"
       /\ queue' = SubSeq(queue, n + 1, Len(queue))

Open ==
  /\ pc = "open"
  /\ \/ para' = [para EXCEPT !.status = "TYPE_REDY"] /\ Goto("dec_init")
     \/ Fail("release")
  /\ UNCHANGED <<queue, oldcmd, mates, signals, clients>>

(* player_dec_init and set_media_info; before them a type parser may leave
   at a stop it only peeks at. *)
DecInit ==
  /\ pc = "dec_init"
  /\ \/ /\ para' = [para EXCEPT !.status = "INITOK"]
        /\ Goto(IF NeedStart THEN "wait_start" ELSE "prepare")
        /\ UNCHANGED queue
     \/ /\ para' = [para EXCEPT !.status = IF HasStop THEN "STOPED" ELSE "ERROR"]
        /\ DrainToStop
        /\ Goto("release")
     \/ /\ queue # << >> /\ Head(queue).kind = "STOP"
        /\ Goto("release")
        /\ UNCHANGED <<para, queue>>
  /\ UNCHANGED <<oldcmd, mates, signals, clients>>

(* check_start_cmd, and the test of the flags that follows it. *)
WaitStart ==
  /\ pc = "wait_start" /\ queue # << >>
  /\ LET c == Head(queue)
         p == IF c.kind = "SEARCH" /\ InRange(c.arg)
              THEN [para EXCEPT !.time_point = c.arg, !.status = "SEARCHOK",
                                !.end_flag = FALSE, !.asked = c.arg, !.moved = FALSE]
              ELSE check_msg(para, c)
         ended == p.end_flag /\ ~ p.search_flag
     IN  IF c.kind = "START" THEN para' = p /\ Goto("prepare")
         ELSE IF ended THEN para' = [p EXCEPT !.status = EndStatus(p)] /\ Goto("release")
         ELSE para' = p /\ Goto("wait_start")
  /\ queue' = Tail(queue)
  /\ UNCHANGED <<oldcmd, mates, signals, clients>>

(* The decoder is opened and the mate made; the software decoder may fail. *)
Prepare ==
  /\ pc = "prepare"
  /\ \/ /\ para' = [para EXCEPT !.status = "START"]
        /\ Goto("check") \/ Goto("release")
        /\ mate' = "sem"
     \/ Fail("release") /\ UNCHANGED mate
  /\ UNCHANGED <<queue, oldcmd, mate_isrunng, mate_should_sleep, mate_should_exit, mate_sem,
                 signals, clients>>

(* check_flag, and what the loop makes of its result.  A break that is not for
   the end goes on to write the packet that is there, or else makes an end. *)
CheckFlag ==
  /\ pc = "check"
  /\ TakeNext
  /\ \E f \in Checked(ExecuteNext(para)) :
       \/ f.ret # "BREAK" /\ para' = f.para /\ Goto("read")
       \/ /\ f.ret = "BREAK" /\ f.para.packet /\ ~ f.para.end_flag
          /\ para' = f.para /\ Goto("write")
       \/ /\ f.ret = "BREAK" /\ (f.para.packet => f.para.end_flag)
          /\ para' = [f.para EXCEPT !.end_flag = TRUE, !.packet = FALSE]
          /\ Goto("tail")
  /\ UNCHANGED <<mates, signals, clients>>

CheckFlagThrottled ==
  /\ pc = "check" /\ MayThrottle
  /\ Goto("read")
  /\ UNCHANGED <<queue, para, oldcmd, mates, signals, clients>>

(* The semaphore of the mate after one more sem_post. *)
Posted(n) == IF n < SEM_VALUE_MAX THEN n + 1 ELSE n

(* player_mate_wake *)
MateWake == /\ mate_should_sleep' = FALSE
            /\ mate_sem' = Posted(mate_sem)
            /\ UNCHANGED <<mate, mate_isrunng, mate_should_exit>>

(* read_av_packet; or, when a packet is not yet written, ffmpeg_buffering_data
   or a sleep. *)
Read ==
  /\ pc = "read"
  /\ \/ /\ ~ para.packet /\ site' = "read" /\ pc' = "reading"
        /\ IF Network THEN MateWake ELSE UNCHANGED mates
     \/ para.packet /\ site' = "buffering" /\ MateWake /\ pc' = "reading"
     \/ para.packet /\ site' = "buffering" /\ UNCHANGED mates /\ pc' = "write"
  /\ UNCHANGED <<queue, para, oldcmd, res, sought, signals, clients>>

(* The read returns.  An interrupted one may fail, or succeed from what is
   buffered; a failure can be any other; the error of a read that the mate
   interrupted is ignored.  A success may yet bring no packet. *)
ReadReturns ==
  /\ pc = "reading" /\ site # "seek"
  /\ \E r \in {"packet", "again", "eof", "fail"} :
       /\ res' = IF r = "fail" /\ ~ ignore_ffmpeg_errors THEN "fail" ELSE "ok"
       /\ ignore_ffmpeg_errors' = (ignore_ffmpeg_errors /\ r # "fail")
       /\ para' = IF site = "buffering" THEN para
                  ELSE [para EXCEPT !.packet = (r = "packet"), !.read_end_flag = @ \/ r = "eof"]
  /\ pc' = IF Network \/ site = "buffering" THEN "sleep" ELSE "judge"
  /\ UNCHANGED <<queue, oldcmd, site, sought, mates, interrupted, temp_interrupt_ffmpeg, clients>>

(* player_mate_sleep: undo the interrupt of the mate, *)
MateSleep ==
  /\ pc = "sleep"
  /\ temp_interrupt_ffmpeg' = FALSE
  /\ interrupted' = (interrupted /\ ~ temp_interrupt_ffmpeg)
  /\ Waits("sleep2")
  /\ UNCHANGED <<queue, para, oldcmd, mates, ignore_ffmpeg_errors, clients>>

(* Mutant: the mate is not told to sleep, only waited for. *)
MateShouldSleepNot ==
  /\ pc = "sleep2"
  /\ Waits("sleep3")
  /\ UNCHANGED <<queue, para, oldcmd, mates, signals, clients>>

(* tell it to sleep, *)
MateShouldSleep ==
  /\ pc = "sleep2"
  /\ mate_should_sleep' = TRUE
  /\ Waits("sleep3")
  /\ UNCHANGED <<queue, para, oldcmd, mate, mate_isrunng, mate_should_exit, mate_sem, signals, clients>>

(* and wait until it no longer runs. *)
MateSleeps ==
  /\ pc = "sleep3" /\ ~ mate_isrunng
  /\ Waits("judge")
  /\ UNCHANGED <<queue, para, oldcmd, mates, signals, clients>>

(* check_to_retry: a slow medium is read again, unless interrupted; but errors
   of some kinds are not, nor is it done for ever. *)
MayRetry == Network /\ ~ interrupted /\ ~ para.read_end_flag
            /\ para.status \notin {"ERROR", "PLAYEND", "STOPED", "EXIT"}

ReadJudged ==
  /\ pc = "judge" /\ site = "read"
  /\ \/ /\ res = "ok" \/ MayRetry
        /\ para' = [para EXCEPT !.status = IF @ = "PAUSE" THEN @ ELSE "RUNNING"]
        /\ Goto("write")
     \/ res = "fail" /\ Fail("release")
  /\ UNCHANGED <<queue, oldcmd, mates, signals, clients>>

BufferingJudged ==
  /\ pc = "judge" /\ site = "buffering"
  /\ Goto("write") /\ UNCHANGED para
  /\ UNCHANGED <<queue, oldcmd, mates, signals, clients>>

(* write_av_packet, update_playing_info, check_decoder_worksta. *)
Write ==
  /\ pc = "write"
  /\ \E written \in BOOLEAN :
       LET p == [para EXCEPT !.packet = @ /\ ~ written] IN
       \/ p.read_end_flag /\ ~ p.packet /\ para' = p /\ Goto("drain")
       \/ /\ p.read_end_flag => p.packet
          /\ \E q \in Updated(p) : \E w \in Watched(q) :
               para' = w /\ Goto(IF w.end_flag THEN "tail" ELSE "check")
       \/ Fail("release")
  /\ UNCHANGED <<queue, oldcmd, mates, signals, clients>>

(* All is written: wait for the play end, *)
DrainOn(p) ==
  \E w \in Watched(p) : \/ para' \in Updated(w) /\ Goto("drain")
                        \/ para' = w /\ Goto("tail")

Drain ==
  /\ pc = "drain" /\ ~ para.end_flag
  /\ TakeNext
  /\ \E f \in Checked(ExecuteNext(para)) :
       \/ /\ f.ret = "BREAK"
          /\ para' = [f.para EXCEPT !.read_end_flag = @ /\ ~ f.para.search_flag]
          /\ Goto("tail")
       \/ f.ret = "CONTINUE" /\ para' = f.para /\ Goto("drain")
       \/ f.ret = "NONO" /\ DrainOn(f.para)
  /\ UNCHANGED <<mates, signals, clients>>

(* with the searches throttled as ever. *)
DrainThrottled ==
  /\ pc = "drain" /\ ~ para.end_flag /\ MayThrottle
  /\ DrainOn(para)
  /\ UNCHANGED <<queue, oldcmd, mates, signals, clients>>

DrainEnds ==
  /\ pc = "drain" /\ para.end_flag
  /\ Goto("tail") /\ UNCHANGED <<queue, para, oldcmd, mates, signals, clients>>

(* exit_flag *)
EndOrReset ==
  /\ pc = "tail"
  /\ IF para.loop_flag \/ para.search_flag \/ para.reset_flag \/ para.switch_ts_program_flag
     THEN /\ para' = [para EXCEPT !.status = IF para.switch_ts_program_flag THEN @ ELSE "SEARCHING"]
          /\ Goto("reset")
     ELSE Goto("release") /\ UNCHANGED para
  /\ UNCHANGED <<queue, oldcmd, mates, signals, clients>>

(* player_reset: the flags of the end are cleared, the decoder opened anew,
   and the source seeks, unless there is nothing to seek to. *)
Reset ==
  /\ pc = "reset"
  /\ LET t == IF para.loop_flag /\ ~ para.search_flag THEN 0 ELSE para.time_point IN
       \/ /\ para' = [para EXCEPT !.end_flag = FALSE, !.read_end_flag = FALSE, !.packet = FALSE,
                                   !.time_point = t]
          /\ site' = "seek"
          /\ IF t >= 0 THEN MateWake /\ pc' = "seek" /\ UNCHANGED <<res, sought>>
             ELSE UNCHANGED mates /\ pc' = "judge" /\ res' = "ok" /\ sought' = -1
       \/ Fail("release") /\ UNCHANGED mates
  /\ UNCHANGED <<queue, oldcmd, signals, clients>>

(* time_search: it takes the time to seek to.  At or beyond the end it is done
   at once, and the source stays where it is; *)
SeekStarts ==
  /\ pc = "seek"
  /\ IF para.time_point < FullTime
     THEN sought' = para.time_point /\ pc' = "reading" /\ UNCHANGED res
     ELSE sought' = -1 /\ pc' = "sleep" /\ res' = "ok"
  /\ UNCHANGED <<queue, para, oldcmd, site, mates, signals, clients>>

(* or else the source seeks, and the time it reached may be stored.  A failure
   while errors are to be ignored is told apart only for the properties. *)
SeekReturns ==
  /\ pc = "reading" /\ site = "seek"
  /\ \/ res' = "ok" /\ \/ UNCHANGED para
                       \/ para' = [para EXCEPT !.time_point = sought]
     \/ res' = (IF ignore_ffmpeg_errors THEN "ignorable" ELSE "fail") /\ UNCHANGED para
  /\ pc' = "sleep"
  /\ UNCHANGED <<queue, oldcmd, site, sought, mates, signals, clients>>

(* Mutant: a seek that the mate took up meanwhile is not looked at. *)
SeekJudgedBlindly ==
  /\ pc = "judge" /\ site = "seek"
  /\ \/ /\ res # "ok" /\ Fail("release")
     \/ /\ res = "ok"
        /\ para' = [para EXCEPT !.status = IF para.search_flag THEN "SEARCHOK" ELSE @,
                                !.search_flag = FALSE, !.reset_flag = FALSE, !.end_flag = FALSE,
                                !.switch_ts_program_flag = FALSE, !.read_end_flag = FALSE]
        /\ Goto("check")
  /\ UNCHANGED <<queue, oldcmd, mates, signals, clients>>

(* After the reset: what was flagged meanwhile ends the playing. *)
SeekJudged ==
  /\ pc = "judge" /\ site = "seek"
  /\ \/ /\ res # "ok" /\ Fail("release")
     \/ /\ res = "ok" /\ para.end_flag
        /\ para' = [para EXCEPT !.status = "PLAYEND", !.read_end_flag = FALSE]
        /\ Goto("release")
     \/ /\ res = "ok" /\ ~ para.end_flag
        /\ para' = [para EXCEPT !.status = IF para.search_flag THEN "SEARCHOK" ELSE @,
                                !.search_flag = FALSE, !.reset_flag = FALSE, !.end_flag = FALSE,
                                !.switch_ts_program_flag = FALSE, !.read_end_flag = FALSE]
        /\ Goto("check")
  /\ UNCHANGED <<queue, oldcmd, mates, signals, clients>>
-----------------------------------------------------------------------------
(* Mutant: the mate is told to exit, but not woken. *)
MateReleaseSilent ==
  /\ pc = "release"
  /\ mate_should_sleep' = TRUE /\ mate_should_exit' = TRUE
  /\ Goto("join")
  /\ UNCHANGED <<queue, para, oldcmd, mate, mate_isrunng, mate_sem, signals, clients>>

(* player_mate_release, and the end of the thread. *)
MateRelease ==
  /\ pc = "release"
  /\ mate_should_sleep' = TRUE /\ mate_should_exit' = TRUE
  /\ mate_sem' = IF mate = "none" THEN mate_sem ELSE Posted(Posted(Posted(mate_sem)))
  /\ Goto("join")
  /\ UNCHANGED <<queue, para, oldcmd, mate, mate_isrunng, signals, clients>>

(* Mutant: the error stands, stop or not. *)
JoinKeepsError ==
  /\ pc = "join" /\ mate \in {"none", "dead"}
  /\ Goto("exit")
  /\ UNCHANGED <<queue, para, oldcmd, mates, signals, clients>>

(* The mate is joined; an error after a stop is no error. *)
Join ==
  /\ pc = "join" /\ mate \in {"none", "dead"}
  /\ IF para.status # "ERROR" THEN UNCHANGED <<queue, para>>
     ELSE IF para.request_end_flag
     THEN para' = [para EXCEPT !.status = "STOPED"] /\ UNCHANGED queue
     ELSE /\ DrainToStop
          /\ para' = [para EXCEPT !.status = IF HasStop THEN "STOPED" ELSE @]
  /\ Goto("exit")
  /\ UNCHANGED <<oldcmd, mates, signals, clients>>

Exit ==
  /\ pc = "exit"
  /\ para' = [para EXCEPT !.status = "EXIT"]
  /\ Goto("done")
  /\ UNCHANGED <<queue, oldcmd, mates, signals, clients>>
-----------------------------------------------------------------------------
(* The mate. *)
MateGoto(at) == /\ mate' = at
                /\ UNCHANGED <<mate_isrunng, mate_should_sleep, mate_should_exit, mate_sem>>

MateSemWait ==
  /\ mate = "sem" /\ mate_sem > 0
  /\ mate' = "woken" /\ mate_sem' = mate_sem - 1
  /\ UNCHANGED <<queue, para, oldcmd, main, mate_isrunng, mate_should_sleep, mate_should_exit,
                 signals, clients>>

MateIsRunning ==
  /\ mate = "woken"
  /\ mate' = "running" /\ mate_isrunng' = TRUE
  /\ UNCHANGED <<queue, para, oldcmd, main, mate_should_sleep, mate_should_exit, mate_sem,
                 signals, clients>>

(* After its delay, *)
MateDecides ==
  /\ mate = "running"
  /\ MateGoto(IF mate_should_sleep THEN "leave" ELSE "work")
  /\ UNCHANGED <<queue, para, oldcmd, main, signals, clients>>

(* and again before each round, the mate looks whether it should sleep. *)
MateRound ==
  /\ mate = "work"
  /\ MateGoto(IF mate_should_sleep \/ mate_should_exit THEN "leave" ELSE "cmd")
  /\ UNCHANGED <<queue, para, oldcmd, main, signals, clients>>

(* player_mate_thread_cmd_proxy: one command, if any, *)
MateCommand ==
  /\ mate = "cmd"
  /\ \/ /\ queue # << >>
        /\ para' = ExecuteNext(para) /\ TakeNext
        /\ MateGoto(IF para'.search_flag /\ Network THEN "intr" ELSE "after")
     \/ /\ queue = << >> \/ MayThrottle
        /\ MateGoto("update") /\ UNCHANGED <<queue, para, oldcmd>>
  /\ UNCHANGED <<main, signals, clients>>

(* an interrupt of the player thread, so that it takes up the seek, *)
MateInterrupts ==
  /\ mate = "intr"
  /\ interrupted' = TRUE /\ temp_interrupt_ffmpeg' = TRUE /\ ignore_ffmpeg_errors' = TRUE
  /\ MateGoto("after")
  /\ UNCHANGED <<queue, para, oldcmd, main, clients>>

(* the pause or resume, *)
MatePauses ==
  /\ mate = "after"
  /\ para' \in IF para.end_flag THEN {para} ELSE PauseOrResume(para)
  /\ MateGoto("update")
  /\ UNCHANGED <<queue, oldcmd, main, signals, clients>>

(* and update_playing_info. *)
MateUpdates ==
  /\ mate = "update"
  /\ para' \in Updated(para)
  /\ MateGoto("work")
  /\ UNCHANGED <<queue, oldcmd, main, signals, clients>>

(* Mutant: the mark of the running mate stays. *)
MateLeavesMark ==
  /\ mate = "leave"
  /\ MateGoto(IF mate_should_exit THEN "dead" ELSE "sem")
  /\ UNCHANGED <<queue, para, oldcmd, main, signals, clients>>

MateLeaves ==
  /\ mate = "leave"
  /\ mate' = (IF mate_should_exit THEN "dead" ELSE "sem") /\ mate_isrunng' = FALSE
  /\ UNCHANGED <<queue, para, oldcmd, main, mate_should_sleep, mate_should_exit, mate_sem,
                 signals, clients>>
-----------------------------------------------------------------------------
(* The clients. *)
Send ==
  /\ para.status # "EXIT" /\ sends < MaxSends
  /\ \E c \in Sendable : Q!Post(c) \/ Q!Coalesce(c)
  /\ sends' = sends + 1
  /\ UNCHANGED <<para, oldcmd, main, mates, signals, stop>>

(* player_stop and player_stop_async: clear_all_message, *)
StopBegins ==
  /\ stop = "idle" /\ para.status # "EXIT"
  /\ stop' = "clear"
  /\ UNCHANGED <<queue, para, oldcmd, main, mates, signals, sends>>

StopClears ==
  /\ stop = "clear"
  /\ \/ Q!Take /\ UNCHANGED stop
     \/ queue = << >> /\ stop' = "interrupt" /\ UNCHANGED queue
  /\ UNCHANGED <<para, oldcmd, main, mates, signals, sends>>

(* ffmpeg_interrupt, *)
StopInterrupts ==
  /\ stop = "interrupt"
  /\ interrupted' = TRUE /\ stop' = "send"
  /\ UNCHANGED <<queue, para, oldcmd, main, mates, temp_interrupt_ffmpeg, ignore_ffmpeg_errors, sends>>

(* and the command. *)
StopSends ==
  /\ stop = "send"
  /\ Q!Post([kind |-> "STOP", arg |-> 0])
  /\ stop' = "sent"
  /\ UNCHANGED <<para, oldcmd, main, mates, signals, sends>>

Main == \/ Open \/ DecInit \/ WaitStart \/ Prepare \/ CheckFlag \/ CheckFlagThrottled
        \/ Read \/ ReadReturns \/ MateSleep \/ MateShouldSleep \/ MateSleeps
        \/ ReadJudged \/ BufferingJudged \/ Write \/ Drain \/ DrainThrottled \/ DrainEnds \/ EndOrReset \/ Reset
        \/ SeekStarts \/ SeekReturns \/ SeekJudged \/ MateRelease \/ Join \/ Exit

Mate == \/ MateSemWait \/ MateIsRunning \/ MateDecides \/ MateRound \/ MateCommand
        \/ MateInterrupts \/ MatePauses \/ MateUpdates \/ MateLeaves

Stopper == StopBegins \/ StopClears \/ StopInterrupts \/ StopSends

Next == Main \/ Mate \/ Send \/ Stopper

Spec == Init /\ [][Next]_vars

(* What is buffered runs out, and then an interrupted read of a slow medium
   fails (retry_transfer_wrapper asks url_interrupt_cb). *)
InterruptedReadFails == ReadReturns /\ Network /\ interrupted /\ site = "read" /\ res' = "fail"

(* The two threads run, reads and seeks return, and a client that has begun
   a stop goes through with it. *)
FairSpec ==
  /\ Spec
  /\ WF_vars(Main) /\ WF_vars(Mate)
  /\ SF_vars(InterruptedReadFails)
  /\ WF_vars(StopClears \/ StopInterrupts \/ StopSends)
-----------------------------------------------------------------------------
(* The mate executes commands only while the player thread waits inside a
   read, a buffering or a seek, or for the mate to sleep: two threads without
   a lock never touch the flags at once (player_mate_wake, player_mate_sleep,
   player_mate_thread_run). *)
MateOnlyInside == mate \in {"cmd", "intr", "after", "update"} => pc \in Inside

(* A search is reported done (SEARCHOK) only if the source was sought to the
   time that the last search executed asked for: not an earlier one, and not
   nowhere (player_thread after player_reset).  Since then a watchdog of the
   decoder or a switch of the program may have set another time, which then
   passes for it in the code (player.c:184-205). *)
SearchOkIsCurrent ==
  [][pc = "judge" /\ site = "seek" /\ para.search_flag /\ pc' = "check" =>
       sought = para.asked \/ para.moved]_vars

(* A player that executed a stop does not end in an error, whatever the
   interrupt of the stop did to the read or the seek (player_thread from
   release0 on). *)
NoErrorAfterStop ==
  [][para'.status = "EXIT" => ~ (para.status = "ERROR" /\ para.request_end_flag)]_vars

(* The error of a read or seek that the mate interrupted on behalf of a seek
   is ignored; says the comment at player_mate_thread_cmd_proxy. *)
InterruptedSeekIgnored ==
  [][pc = "judge" /\ res = "ignorable" => para'.status # "ERROR"]_vars

(* The mate falls asleep when told to: player_mate_sleep returns. *)
SleepEnds == pc = "sleep3" ~> pc # "sleep3"

(* A stop that is sent ends the player thread: player_stop waits for that
   while it holds the lock of all stops. *)
StopEndsThread == stop = "sent" ~> pc = "done"
=============================================================================
