------------------------------ MODULE HttpInput ------------------------------
(* The HTTP connection of the input (amffmpeg/libavformat/http.c): it opens a
   link to the server, asks for the file from a place on, and when the server
   fails, redirects, or closes early, closes the link and opens another.

   All calls come from the thread that reads the input, one at a time.  The
   server answers each step as it likes: it refuses the link, loses the request
   or the answer, answers with an error, a redirect or a demand for
   authorization, with the rest of the file or, though asked for a part, the
   whole; then it sends some bytes, none, or closes.

   Of the bytes only their places count.  Links are those of tcp_pool.c, where
   keep_alive, which nothing ever sets, would let one wait for the next
   request: so all are closed, and its list of free links stays empty.  With
   MAX_CONNECT_LINKS = 1 the old link is closed before a new one is opened. *)
EXTENDS Integers

CONSTANTS
  FileSize,        \* length of the file at the server
  BodySize,        \* length of the text sent with a redirect
  MaxRead,         \* longest read
  OPEN_RETRY_MAX,  \* requests done again in one http_open_cnx
  MAX_REDIRECTS,
  READ_RETRY_MAX,  \* reopens in one http_seek
  READ_SEEK_TIMES,
  retry_times,     \* config_rettry: opens in http_open, reopens in http_read
  Near,            \* 10: a link that closes so near the end has come to it
  Tail,            \* 1024, of read_seek_count
  IntMax           \* http_seek keeps the result of a reopen in an int

ASSUME HttpAssumption ==
  /\ {FileSize, BodySize, MaxRead, Near, Tail, READ_RETRY_MAX, retry_times, IntMax} \subseteq Nat
  /\ {OPEN_RETRY_MAX, MAX_REDIRECTS, READ_SEEK_TIMES} \subseteq Nat

VARIABLES
  hd,               \* the place of the next byte on the link, if there is one
  tcppool_list,     \* how many links tcp_pool.c has registered
  off, filesize, do_readseek_size, http_code,
  is_seek, is_streamed, read_seek_count,
  authorized,       \* auth_state has a type
  pc, call,         \* where the call is
  answer            \* the place http_seek has just answered with

link  == <<hd, tcppool_list>>
place == <<off, filesize, do_readseek_size, http_code>>
mode  == <<is_seek, is_streamed, read_seek_count, authorized>>
vars  == <<link, place, mode, pc, call, answer>>

NULL     == -1
NoAnswer == -1
UNKNOWN  == -1
Call(op, target, tries, redo, redirects, old_off) ==
  [op |-> op, target |-> target, tries |-> tries,
   redo |-> redo, redirects |-> redirects, old_off |-> old_off]
NoCall == Call("none", 0, 0, 0, 0, 0)
Places == 0 .. FileSize + 1
Int32(v) == IF v > IntMax THEN v - 2 * (IntMax + 1) ELSE v

TypeOK ==
  /\ hd \in {NULL} \cup 0 .. FileSize /\ tcppool_list \in 0 .. 1
  /\ off \in Places /\ filesize \in {UNKNOWN, BodySize, FileSize}
  /\ do_readseek_size \in Places /\ http_code \in {-1, 0, 200, 206, 302, 401, 404, 416, 503}
  /\ is_seek \in BOOLEAN /\ is_streamed \in BOOLEAN /\ authorized \in BOOLEAN
  /\ read_seek_count \in 0 .. READ_SEEK_TIMES
  /\ pc \in {"closed", "idle", "redo", "request", "read"}
  /\ call.op \in {"none", "open", "read", "seek"} /\ call.target \in Places /\ call.old_off \in Places
  /\ call.redo \in 0 .. OPEN_RETRY_MAX + MAX_REDIRECTS + 2 /\ call.redirects \in 0 .. MAX_REDIRECTS
  /\ answer \in {NoAnswer} \cup Places

Init ==
  /\ hd = NULL /\ tcppool_list = 0
  /\ off = 0 /\ filesize = UNKNOWN /\ do_readseek_size = 0 /\ http_code = 0
  /\ is_seek = FALSE /\ is_streamed = TRUE /\ read_seek_count = 0 /\ authorized = FALSE
  /\ pc = "closed" /\ call = NoCall /\ answer = NoAnswer

(****************************************************************************)
(* Where a call goes on                                                     *)
(****************************************************************************)
Return(a) == pc' = "idle" /\ call' = NoCall /\ answer' = a

(* http_open_cnx is entered: from http_open, or from http_reopen_cnx for a read
   (at off) or a seek (at target), which keep the old value of off. *)
EnterCnx(op, target, tries, old_off) ==
  pc' = "redo" /\ call' = Call(op, target, tries, 0, 0, old_off) /\ answer' = NoAnswer

Redo(redirects) ==
  /\ pc' = "redo" /\ answer' = NoAnswer
  /\ call' = Call(call.op, call.target, call.tries, call.redo + 1, redirects, call.old_off)

GoRead == pc' = "read" /\ call' = call /\ answer' = NoAnswer

(* tcppool_close_tcplink *)
CloseLink ==
  /\ hd' = NULL
  /\ tcppool_list' = IF hd # NULL THEN tcppool_list - 1 ELSE tcppool_list

(* The calls of url_interrupt_cb that make a loop give up may come at any time:
   where the code looks for an interrupt, giving up is always possible. *)

(* http_open_cnx fails, with s->off = p, s->filesize = f and s->http_code = c. *)
CnxFails(p, f, c) ==
  /\ filesize' = f /\ http_code' = c
  /\ \/ /\ call.op = "open"
        /\ off' = p /\ is_seek' = FALSE
        /\ \/ /\ call.tries > 1 /\ c # 404
              /\ EnterCnx("open", 0, call.tries - 1, 0)
           \/ pc' = "closed" /\ call' = NoCall /\ answer' = NoAnswer
     \/ /\ call.op = "read"
        /\ off' = call.old_off /\ UNCHANGED is_seek
        /\ IF c = 416 /\ f <= 0 THEN Return(NoAnswer) ELSE GoRead
     \/ /\ call.op = "seek"
        /\ \/ /\ call.tries > 0 /\ ~ (f > 0 /\ call.target >= f)
              /\ off' = call.target /\ UNCHANGED is_seek
              /\ EnterCnx("seek", call.target, call.tries - 1, call.old_off)
           \/ /\ off' = call.old_off /\ is_seek' = FALSE
              /\ Return(call.target)

(* http_open_cnx succeeds, with a link whose next byte is at from.  A seek
   takes a place beyond IntMax for an error, and opens another link. *)
CnxSucceeds(from, f, c) ==
  /\ filesize' = f /\ http_code' = c
  /\ \/ /\ call.op \in {"open", "seek"}
        /\ hd' = from /\ UNCHANGED <<off, tcppool_list>>
        /\ is_seek' = FALSE
        /\ Return(IF call.op = "seek" THEN call.target ELSE NoAnswer)
     \/ /\ call.op = "read"
        /\ hd' = from /\ UNCHANGED <<off, tcppool_list, is_seek>>
        /\ GoRead
     \/ /\ call.op = "seek" /\ Int32(call.target) < 0
        /\ call.tries > 0 /\ ~ (f > 0 /\ call.target >= f)
        /\ CloseLink /\ off' = call.target /\ UNCHANGED is_seek
        /\ EnterCnx("seek", call.target, call.tries - 1, off)

(****************************************************************************)
(* http_open_cnx                                                            *)
(****************************************************************************)
(* An interrupt, or no link to the server. *)
Refused ==
  /\ pc = "redo"
  /\ CnxFails(off, filesize, http_code)
  /\ UNCHANGED <<link, do_readseek_size, is_streamed, read_seek_count, authorized>>

(* tcppool_opened_tcplink *)
Linked ==
  /\ pc = "redo"
  /\ hd' = 0 /\ tcppool_list' = tcppool_list + 1
  /\ pc' = "request" /\ call' = call /\ answer' = NoAnswer
  /\ UNCHANGED <<place, mode>>

(* A plausible mistake: the last failure leaves the link to the pool. *)
ConnectFailsKeeping(p, f, c) ==
  /\ hd' = NULL
  /\ \/ /\ call.redo <= OPEN_RETRY_MAX
        /\ tcppool_list' = tcppool_list - 1
        /\ off' = p /\ filesize' = f /\ http_code' = c /\ UNCHANGED is_seek
        /\ Redo(call.redirects)
     \/ /\ call.redo > OPEN_RETRY_MAX
        /\ UNCHANGED tcppool_list
        /\ CnxFails(p, f, c)
  /\ UNCHANGED <<read_seek_count, authorized>>

(* http_connect fails: the link is closed, and another opened. *)
ConnectFails(p, f, c) ==
  /\ CloseLink
  /\ \/ /\ call.redo <= OPEN_RETRY_MAX
        /\ off' = p /\ filesize' = f /\ http_code' = c /\ UNCHANGED is_seek
        /\ Redo(call.redirects)
     \/ /\ call.redo > OPEN_RETRY_MAX
        /\ CnxFails(p, f, c)
  /\ UNCHANGED <<read_seek_count, authorized>>

(* The request cannot be sent. *)
NotSent ==
  /\ pc = "request"
  /\ ConnectFails(off, filesize, http_code)
  /\ UNCHANGED <<do_readseek_size, is_streamed>>

Ranged == off > 0 /\ is_seek

(* No answer, or an error: http_connect has set off to 0 by then. *)
NotAnswered ==
  /\ pc = "request"
  /\ \E c \in {-1, 404, 503} \cup {code \in {416} : Ranged /\ off >= FileSize} :
       ConnectFails(0, UNKNOWN, c)
  /\ do_readseek_size' = 0 /\ UNCHANGED is_streamed

(* The link ends within the headers, after some of them have been taken in. *)
HeadersCut ==
  /\ pc = "request"
  /\ \E f \in {UNKNOWN, FileSize} :
       \/ ConnectFails(0, f, 200)
       \/ Ranged /\ off < FileSize /\ ConnectFails(off, f, 206)
  /\ do_readseek_size' = 0 /\ is_streamed' \in BOOLEAN

(* A plausible mistake: nothing of what comes before off is dropped. *)
HeadersTakingAll(from, f) ==
  /\ do_readseek_size' = 0
  /\ read_seek_count' = IF /\ off > from /\ off - from >= f - Tail
                           /\ read_seek_count < READ_SEEK_TIMES
                        THEN read_seek_count + 1 ELSE read_seek_count
  /\ is_streamed' \in BOOLEAN

(* The headers of an answer whose bytes start at from and have the length f, if
   it tells one.  What comes before off will be read and dropped. *)
Headers(from, f) ==
  /\ do_readseek_size' = off - from
  /\ read_seek_count' = IF /\ off > from /\ off - from >= f - Tail
                           /\ read_seek_count < READ_SEEK_TIMES
                        THEN read_seek_count + 1 ELSE read_seek_count
  /\ is_streamed' \in BOOLEAN

(* goto redo after an answer; off is as it was before the request. *)
AskAgain(redirects, f, c) ==
  /\ filesize' = f /\ http_code' = c /\ UNCHANGED <<off, is_seek>>
  /\ Redo(redirects)

(* A plausible mistake: one redirect more is followed than is counted. *)
RedirectedOnceMore ==
  /\ pc = "request"
  /\ \E f \in {UNKNOWN, BodySize} :
       /\ Headers(0, f)
       /\ \/ call.redirects <= MAX_REDIRECTS /\ AskAgain(call.redirects + 1, f, 302)
          \/ call.redirects > MAX_REDIRECTS /\ CnxFails(off, f, 302)
  /\ CloseLink /\ UNCHANGED authorized

Redirected ==
  /\ pc = "request"
  /\ \E f \in {UNKNOWN, BodySize} :
       /\ Headers(0, f)
       /\ \/ call.redirects < MAX_REDIRECTS /\ AskAgain(call.redirects + 1, f, 302)
          \/ call.redirects = MAX_REDIRECTS /\ CnxFails(off, f, 302)
  /\ CloseLink /\ UNCHANGED authorized

(* The answer to the first demand for authorization may be known. *)
Unauthorized ==
  /\ pc = "request"
  /\ \E f \in {UNKNOWN, BodySize} :
       /\ Headers(0, f)
       /\ \/ ~ authorized /\ authorized' = TRUE /\ AskAgain(call.redirects, f, 401)
          \/ UNCHANGED authorized /\ CnxFails(off, f, 401)
  /\ CloseLink

(* The whole file, or what was asked for. *)
Answered ==
  /\ pc = "request"
  /\ \/ \E f \in {UNKNOWN, FileSize} : Headers(0, f) /\ CnxSucceeds(0, f, 200)
     \/ Ranged /\ off < FileSize /\ Headers(off, FileSize) /\ CnxSucceeds(off, FileSize, 206)
  /\ UNCHANGED authorized

(****************************************************************************)
(* http_open, http_seek, http_close                                         *)
(****************************************************************************)
Open ==
  /\ pc = "closed"
  /\ off' = 0 /\ filesize' = UNKNOWN /\ do_readseek_size' = 0 /\ http_code' = 0
  /\ is_seek' = TRUE /\ is_streamed' = TRUE /\ read_seek_count' = 0 /\ authorized' = FALSE
  /\ EnterCnx("open", 0, retry_times, 0)
  /\ UNCHANGED link

Seek(target) ==
  /\ pc = "idle" /\ ~ is_streamed
  /\ ~ (filesize > 0 /\ target >= filesize)
  /\ CloseLink
  /\ off' = target /\ is_seek' = TRUE
  /\ EnterCnx("seek", target, READ_RETRY_MAX, off)
  /\ UNCHANGED <<filesize, do_readseek_size, http_code, is_streamed, read_seek_count, authorized>>

Close ==
  /\ pc = "idle"
  /\ CloseLink
  /\ pc' = "closed" /\ UNCHANGED call /\ answer' = NoAnswer
  /\ UNCHANGED <<place, mode>>

(****************************************************************************)
(* http_read                                                                *)
(****************************************************************************)
AtEnd == filesize >= 0 /\ off >= filesize

(* At the end it returns at once. *)
Read ==
  /\ pc = "idle"
  /\ ~ (filesize > 0 /\ off = filesize) /\ ~ (http_code = 416 /\ filesize <= 0)
  /\ pc' = "read" /\ call' = Call("read", 0, retry_times, 0, 0, 0) /\ answer' = NoAnswer
  /\ UNCHANGED <<link, place, mode>>

(* A plausible mistake: dropped bytes are counted in off like the others. *)
ReceiveCounting(n) ==
  /\ pc = "read" /\ hd # NULL /\ ~ AtEnd
  /\ hd + n <= FileSize
  /\ hd' = hd + n /\ off' = off + n
  /\ IF do_readseek_size >= n THEN do_readseek_size' = do_readseek_size - n ELSE do_readseek_size' = 0
  /\ IF do_readseek_size >= n /\ do_readseek_size > 0 THEN GoRead ELSE Return(NoAnswer)
  /\ UNCHANGED <<tcppool_list, filesize, http_code, mode>>

(* n bytes come.  While bytes are dropped off stays, where it will be when all
   are: but then it also misses those that came with the last of them. *)
Receive(n) ==
  /\ pc = "read" /\ hd # NULL /\ ~ AtEnd
  /\ hd + n <= FileSize
  /\ hd' = hd + n
  /\ \/ /\ do_readseek_size = 0
        /\ off' = off + n /\ UNCHANGED do_readseek_size
        /\ Return(NoAnswer)
     \/ /\ do_readseek_size \in 1 .. n - 1
        /\ do_readseek_size' = 0 /\ UNCHANGED off
        /\ Return(NoAnswer)
     \/ /\ do_readseek_size >= n
        /\ do_readseek_size' = do_readseek_size - n /\ UNCHANGED off
        /\ GoRead
  /\ UNCHANGED <<tcppool_list, filesize, http_code, mode>>

(* A plausible mistake: reopens are not counted. *)
ReopenAlways ==
  /\ CloseLink
  /\ EnterCnx("read", 0, call.tries, off)

(* http_reopen_cnx at off, as often as retry_times allows. *)
Reopen ==
  \/ /\ call.tries > 0
     /\ CloseLink
     /\ EnterCnx("read", 0, call.tries - 1, off)
  \/ /\ call.tries = 0
     /\ Return(NoAnswer) /\ UNCHANGED link

(* No link, or an error on it, or nothing on it for too long. *)
ReadFails ==
  /\ pc = "read" /\ ~ AtEnd
  /\ Reopen
  /\ UNCHANGED <<place, mode>>

(* The server closes the link. *)
LinkEnds ==
  /\ pc = "read" /\ hd # NULL /\ ~ AtEnd
  /\ IF off < filesize - Near /\ read_seek_count < READ_SEEK_TIMES
     THEN Reopen
     ELSE Return(NoAnswer) /\ UNCHANGED link
  /\ UNCHANGED <<place, mode>>

(* An interrupt, the end, or no bytes yet. *)
ReadsNothing ==
  /\ pc = "read"
  /\ Return(NoAnswer)
  /\ UNCHANGED <<link, place, mode>>

Cnx == Refused \/ Linked \/ NotSent \/ NotAnswered \/ HeadersCut \/ Redirected \/ Unauthorized \/ Answered
Reading == (\E n \in 1 .. MaxRead : Receive(n)) \/ ReadFails \/ LinkEnds \/ ReadsNothing

Next ==
  \/ Open \/ Read \/ Close
  \/ \E target \in Places : Seek(target)
  \/ Cnx \/ Reading

Spec == Init /\ [][Next]_vars

(* The server answers, or a timeout does. *)
FairSpec == Spec /\ WF_vars(Cnx) /\ WF_vars(Reading)

(****************************************************************************)
(* Properties                                                               *)
(****************************************************************************)
(* Every way out of a call keeps one link at most, and gives the others back;
   nothing is left when the input is closed, or could not be opened. *)
LinksAccounted ==
  /\ tcppool_list = IF hd = NULL THEN 0 ELSE 1
  /\ pc = "closed" => hd = NULL

(* off, where the next link will be opened if this one fails, is never ahead of
   the bytes handed out: a read that opens another link skips none. *)
OffNotAhead == (pc \in {"idle", "read"} /\ hd # NULL) => off <= hd + do_readseek_size

(* A seek that answers with a place, and has opened a link, has opened it at this
   place (url.h, ffurl_seek): after any number of redirects, and whether the
   server starts there or at 0, but only as long as no request had to be done
   again (see the README for what happens then). *)
SeekGoesThere ==
  [][ (answer' # NoAnswer /\ hd' # NULL /\ call.redo = call.redirects)
        => hd' + do_readseek_size' = answer' ]_vars

(* However the server behaves, calls return: all the loops that open another
   link, follow a redirect or drop bytes come to an end. *)
CallsReturn == (pc \notin {"idle", "closed"}) ~> (pc \in {"idle", "closed"})
=============================================================================
