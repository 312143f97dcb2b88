--------------------------- MODULE HttpInputProofs ---------------------------
(* Proofs about HttpInput, for files, retries and bounds of any size. *)
EXTENDS HttpInput, TLAPS

(* A call that is under way knows what it is, and has a link exactly while it
   waits for an answer. *)
CallsOK ==
  /\ pc \in {"redo", "request", "read"} => call.op # "none"
  /\ pc = "read" => call.op = "read"
  /\ pc = "redo" => hd = NULL
  /\ pc = "request" => hd # NULL

(* How often an http_open_cnx has gone back to redo: once for each failure it
   may try again after, for each redirect, and for the demand for
   authorization. *)
RedoBounded ==
  call.redo <= OPEN_RETRY_MAX + 1 + call.redirects + (IF authorized THEN 1 ELSE 0)

(* While bytes are dropped, off is where the dropping will end. *)
DropsToOff == (pc \in {"idle", "read"} /\ hd # NULL /\ do_readseek_size > 0) => off = hd + do_readseek_size

(* The parts of TypeOK. *)
FlagsOK == is_seek \in BOOLEAN /\ is_streamed \in BOOLEAN /\ authorized \in BOOLEAN
PlacesOK ==
  /\ hd \in {NULL} \cup 0 .. FileSize /\ tcppool_list \in 0 .. 1
  /\ off \in Places /\ do_readseek_size \in Places
  /\ answer \in {NoAnswer} \cup Places
AnswersOK ==
  /\ filesize \in {UNKNOWN, BodySize, FileSize}
  /\ http_code \in {-1, 0, 200, 206, 302, 401, 404, 416, 503}
  /\ read_seek_count \in 0 .. READ_SEEK_TIMES
CallOK ==
  /\ pc \in {"closed", "idle", "redo", "request", "read"}
  /\ call.op \in {"none", "open", "read", "seek"} /\ call.target \in Places /\ call.old_off \in Places
  /\ call.redo \in 0 .. OPEN_RETRY_MAX + MAX_REDIRECTS + 2 /\ call.redirects \in 0 .. MAX_REDIRECTS

IInv == /\ FlagsOK /\ PlacesOK /\ AnswersOK /\ CallOK /\ CallsOK
        /\ RedoBounded /\ LinksAccounted /\ OffNotAhead /\ DropsToOff
-----------------------------------------------------------------------------
(* The constants are numbers. *)
LEMMA Constants ==
  /\ FileSize \in Nat /\ BodySize \in Nat /\ MaxRead \in Nat
  /\ OPEN_RETRY_MAX \in Nat /\ MAX_REDIRECTS \in Nat /\ READ_SEEK_TIMES \in Nat
  BY HttpAssumption

(* Nothing is open at first. *)
LEMMA InitIInv == Init => IInv
  <1> SUFFICES ASSUME Init PROVE IInv OBVIOUS
  <1> USE Constants DEF Init, NoCall, Call, NULL
  <1>1. FlagsOK BY DEF FlagsOK
  <1>2. PlacesOK BY DEF PlacesOK, Places, NoAnswer
  <1>3. AnswersOK BY DEF AnswersOK, UNKNOWN
  <1>4. CallOK /\ CallsOK /\ RedoBounded BY DEF CallOK, CallsOK, RedoBounded, Places
  <1>5. LinksAccounted /\ OffNotAhead /\ DropsToOff BY DEF LinksAccounted, OffNotAhead, DropsToOff
  <1>6. QED BY <1>1, <1>2, <1>3, <1>4, <1>5 DEF IInv

(* What a step that leaves off, filesize and the like in their sets leaves. *)
Answers == {-1, 0, 200, 206, 302, 401, 404, 416, 503}
Lengths == {UNKNOWN, BodySize, FileSize}

(* http_open_cnx fails, and its link is closed: its caller opens another, or
   returns. *)
LEMMA CnxFailsKeeps ==
  ASSUME IInv, pc \in {"redo", "request"},
         NEW p \in Places, NEW f \in Lengths, NEW c \in Answers, CnxFails(p, f, c),
         hd' = NULL, tcppool_list' = 0, do_readseek_size' \in Places,
         is_streamed' \in BOOLEAN, authorized' \in BOOLEAN, authorized => authorized',
         read_seek_count' \in 0 .. READ_SEEK_TIMES
  PROVE  IInv'
  <1> USE Constants DEF CnxFails, EnterCnx, Return, GoRead, Call, NoCall, NULL
  <1>1. FlagsOK' BY DEF IInv, FlagsOK
  <1>2. PlacesOK' BY DEF IInv, PlacesOK, CallOK, Places, NoAnswer
  <1>3. AnswersOK' BY DEF AnswersOK, Lengths, Answers
  <1>4. CallOK' BY DEF IInv, CallOK, Places
  <1>5. CallsOK' BY DEF IInv, CallsOK, CallOK
  <1>6. RedoBounded' BY DEF IInv, RedoBounded, CallOK
  <1>7. LinksAccounted' BY DEF LinksAccounted
  <1>8. OffNotAhead' /\ DropsToOff' BY DEF OffNotAhead, DropsToOff
  <1>9. QED BY <1>1, <1>2, <1>3, <1>4, <1>5, <1>6, <1>7, <1>8 DEF IInv

(* http_open_cnx closes its link and goes to redo. *)
LEMMA RedoKeeps ==
  ASSUME IInv, pc = "request",
         NEW r \in 0 .. MAX_REDIRECTS, Redo(r),
         call.redo <= OPEN_RETRY_MAX + r + (IF authorized' THEN 1 ELSE 0),
         hd' = NULL, tcppool_list' = 0, off' \in Places, do_readseek_size' \in Places,
         filesize' \in Lengths, http_code' \in Answers,
         is_seek' \in BOOLEAN, is_streamed' \in BOOLEAN, authorized' \in BOOLEAN,
         read_seek_count' \in 0 .. READ_SEEK_TIMES
  PROVE  IInv'
  <1> USE Constants DEF Redo, Call, NULL
  <1>1. FlagsOK' BY DEF FlagsOK
  <1>2. PlacesOK' BY DEF PlacesOK, Places, NoAnswer
  <1>3. AnswersOK' BY DEF AnswersOK, Lengths, Answers
  <1>4. CallOK' BY DEF IInv, CallOK, Places
  <1>5. CallsOK' BY DEF IInv, CallsOK, CallOK
  <1>6. RedoBounded' BY DEF IInv, RedoBounded, CallOK
  <1>7. LinksAccounted' BY DEF LinksAccounted
  <1>8. OffNotAhead' /\ DropsToOff' BY DEF OffNotAhead, DropsToOff
  <1>9. QED BY <1>1, <1>2, <1>3, <1>4, <1>5, <1>6, <1>7, <1>8 DEF IInv

(* Closing the link, if there is one, leaves none. *)
LEMMA CloseLinkLeavesNone == IInv /\ CloseLink => hd' = NULL /\ tcppool_list' = 0
  BY Constants DEF IInv, LinksAccounted, CloseLink, NULL

(* http_connect fails: a retry, while there are some left, or the end. *)
LEMMA ConnectFailsKeeps ==
  ASSUME IInv, pc = "request",
         NEW p \in Places, NEW f \in Lengths, NEW c \in Answers, ConnectFails(p, f, c),
         do_readseek_size' \in Places, is_streamed' \in BOOLEAN
  PROVE  IInv'
  <1>1. hd' = NULL /\ tcppool_list' = 0 BY CloseLinkLeavesNone DEF ConnectFails
  <1>2. /\ authorized' \in BOOLEAN /\ authorized' = authorized
        /\ read_seek_count' \in 0 .. READ_SEEK_TIMES
        BY DEF ConnectFails, IInv, FlagsOK, AnswersOK
  <1>3. CASE CnxFails(p, f, c) BY <1>1, <1>2, <1>3, CnxFailsKeeps
  <1>4. CASE /\ call.redo <= OPEN_RETRY_MAX
             /\ off' = p /\ filesize' = f /\ http_code' = c /\ UNCHANGED is_seek
             /\ Redo(call.redirects)
    <2>1. call.redirects \in 0 .. MAX_REDIRECTS /\ call.redo \in Nat BY DEF IInv, CallOK
    <2>2. call.redo <= OPEN_RETRY_MAX + call.redirects + (IF authorized' THEN 1 ELSE 0)
          BY <1>4, <2>1, Constants
    <2>3. is_seek' \in BOOLEAN BY <1>4 DEF IInv, FlagsOK
    <2>4. QED BY <1>1, <1>2, <1>4, <2>1, <2>2, <2>3, RedoKeeps
  <1>5. QED BY <1>3, <1>4 DEF ConnectFails

(* http_open_cnx fails without a link. *)
LEMMA RefusedKeeps == IInv /\ Refused => IInv'
  <1> SUFFICES ASSUME IInv, Refused PROVE IInv' OBVIOUS
  <1>1. pc = "redo" /\ CnxFails(off, filesize, http_code) BY DEF Refused
  <1>2. off \in Places /\ filesize \in Lengths /\ http_code \in Answers
        BY DEF IInv, PlacesOK, AnswersOK, Lengths, Answers
  <1>3. hd' = NULL /\ tcppool_list' = 0
        BY DEF Refused, link, IInv, CallsOK, LinksAccounted
  <1>4. /\ do_readseek_size' \in Places /\ read_seek_count' \in 0 .. READ_SEEK_TIMES
        /\ is_streamed' \in BOOLEAN /\ authorized' \in BOOLEAN /\ authorized' = authorized
        BY DEF Refused, IInv, PlacesOK, AnswersOK, FlagsOK
  <1>5. QED BY <1>1, <1>2, <1>3, <1>4, CnxFailsKeeps

(* The request cannot be sent. *)
LEMMA NotSentKeeps == IInv /\ NotSent => IInv'
  <1> SUFFICES ASSUME IInv, NotSent PROVE IInv' OBVIOUS
  <1>1. pc = "request" /\ ConnectFails(off, filesize, http_code) BY DEF NotSent
  <1>2. off \in Places /\ filesize \in Lengths /\ http_code \in Answers
        BY DEF IInv, PlacesOK, AnswersOK, Lengths, Answers
  <1>3. do_readseek_size' \in Places /\ is_streamed' \in BOOLEAN
        BY DEF NotSent, IInv, PlacesOK, FlagsOK
  <1>4. QED BY <1>1, <1>2, <1>3, ConnectFailsKeeps

(* No answer, or an error. *)
LEMMA NotAnsweredKeeps == IInv /\ NotAnswered => IInv'
  <1> SUFFICES ASSUME IInv, NotAnswered PROVE IInv' OBVIOUS
  <1>1. 0 \in Places BY Constants DEF Places
  <1>2. UNKNOWN \in Lengths BY DEF Lengths
  <1>3. PICK c \in {-1, 404, 503} \cup {code \in {416} : Ranged /\ off >= FileSize} :
          ConnectFails(0, UNKNOWN, c) BY DEF NotAnswered
  <1>4. c \in Answers BY <1>3 DEF Answers
  <1>5. pc = "request" /\ do_readseek_size' \in Places /\ is_streamed' \in BOOLEAN
        BY <1>1 DEF NotAnswered, IInv, FlagsOK
  <1>6. QED BY <1>1, <1>2, <1>3, <1>4, <1>5, ConnectFailsKeeps

(* The headers are cut. *)
LEMMA HeadersCutKeeps == IInv /\ HeadersCut => IInv'
  <1> SUFFICES ASSUME IInv, HeadersCut PROVE IInv' OBVIOUS
  <1>1. 0 \in Places /\ off \in Places BY Constants DEF Places, IInv, PlacesOK
  <1>2. 200 \in Answers /\ 206 \in Answers BY DEF Answers
  <1>3. PICK f \in {UNKNOWN, FileSize} : ConnectFails(0, f, 200) \/ ConnectFails(off, f, 206)
        BY DEF HeadersCut
  <1>4. f \in Lengths BY <1>3 DEF Lengths
  <1>5. pc = "request" /\ do_readseek_size' \in Places /\ is_streamed' \in BOOLEAN
        BY <1>1 DEF HeadersCut
  <1>6. QED BY <1>1, <1>2, <1>3, <1>4, <1>5, ConnectFailsKeeps

(* What an answer's headers set is in range. *)
LEMMA HeadersSet ==
  ASSUME IInv, NEW from \in {0, off}, NEW f \in Lengths, Headers(from, f)
  PROVE  /\ do_readseek_size' = off - from /\ do_readseek_size' \in Places
         /\ is_streamed' \in BOOLEAN
         /\ read_seek_count' \in 0 .. READ_SEEK_TIMES
  <1>1. off \in Places /\ read_seek_count \in 0 .. READ_SEEK_TIMES
        BY DEF IInv, PlacesOK, AnswersOK
  <1>2. f \in Int BY Constants DEF Lengths, UNKNOWN
  <1>3. QED BY <1>1, <1>2, Constants DEF Headers, Places

(* A redirect is followed, or is one too many. *)
LEMMA RedirectedKeeps == IInv /\ Redirected => IInv'
  <1> SUFFICES ASSUME IInv, Redirected PROVE IInv' OBVIOUS
  <1>1. PICK f \in {UNKNOWN, BodySize} :
          /\ Headers(0, f)
          /\ \/ call.redirects < MAX_REDIRECTS /\ AskAgain(call.redirects + 1, f, 302)
             \/ call.redirects = MAX_REDIRECTS /\ CnxFails(off, f, 302)
        BY DEF Redirected
  <1>2. f \in Lengths /\ 302 \in Answers BY <1>1 DEF Lengths, Answers
  <1>3. hd' = NULL /\ tcppool_list' = 0 BY CloseLinkLeavesNone DEF Redirected
  <1>4. /\ do_readseek_size' \in Places /\ is_streamed' \in BOOLEAN
        /\ read_seek_count' \in 0 .. READ_SEEK_TIMES
        BY <1>1, <1>2, HeadersSet
  <1>5. /\ pc = "request" /\ off \in Places
        /\ authorized' = authorized /\ authorized' \in BOOLEAN /\ is_seek \in BOOLEAN
        BY DEF Redirected, IInv, PlacesOK, FlagsOK
  <1>6. CASE CnxFails(off, f, 302) BY <1>2, <1>3, <1>4, <1>5, <1>6, CnxFailsKeeps
  <1>7. CASE call.redirects < MAX_REDIRECTS /\ AskAgain(call.redirects + 1, f, 302)
    <2>1. call.redirects \in 0 .. MAX_REDIRECTS /\ call.redo \in Nat BY DEF IInv, CallOK
    <2>2. call.redirects + 1 \in 0 .. MAX_REDIRECTS BY <1>7, <2>1, Constants
    <2>3. call.redo <= OPEN_RETRY_MAX + (call.redirects + 1) + (IF authorized' THEN 1 ELSE 0)
          BY <1>5, <2>1, Constants DEF IInv, RedoBounded
    <2>4. /\ off' \in Places /\ filesize' \in Lengths /\ http_code' \in Answers
          /\ is_seek' \in BOOLEAN /\ Redo(call.redirects + 1)
          BY <1>2, <1>5, <1>7 DEF AskAgain
    <2>5. QED BY <1>3, <1>4, <1>5, <2>2, <2>3, <2>4, RedoKeeps
  <1>8. QED BY <1>1, <1>6, <1>7

(* A demand for authorization is met once. *)
LEMMA UnauthorizedKeeps == IInv /\ Unauthorized => IInv'
  <1> SUFFICES ASSUME IInv, Unauthorized PROVE IInv' OBVIOUS
  <1>1. PICK f \in {UNKNOWN, BodySize} :
          /\ Headers(0, f)
          /\ \/ ~ authorized /\ authorized' = TRUE /\ AskAgain(call.redirects, f, 401)
             \/ UNCHANGED authorized /\ CnxFails(off, f, 401)
        BY DEF Unauthorized
  <1>2. f \in Lengths /\ 401 \in Answers BY <1>1 DEF Lengths, Answers
  <1>3. hd' = NULL /\ tcppool_list' = 0 BY CloseLinkLeavesNone DEF Unauthorized
  <1>4. /\ do_readseek_size' \in Places /\ is_streamed' \in BOOLEAN
        /\ read_seek_count' \in 0 .. READ_SEEK_TIMES
        BY <1>1, <1>2, HeadersSet
  <1>5. pc = "request" /\ off \in Places /\ authorized \in BOOLEAN /\ is_seek \in BOOLEAN
        BY DEF Unauthorized, IInv, PlacesOK, FlagsOK
  <1>6. CASE UNCHANGED authorized /\ CnxFails(off, f, 401)
        BY <1>2, <1>3, <1>4, <1>5, <1>6, CnxFailsKeeps
  <1>7. CASE ~ authorized /\ authorized' = TRUE /\ AskAgain(call.redirects, f, 401)
    <2>1. call.redirects \in 0 .. MAX_REDIRECTS /\ call.redo \in Nat BY DEF IInv, CallOK
    <2>2. call.redo <= OPEN_RETRY_MAX + call.redirects + (IF authorized' THEN 1 ELSE 0)
          BY <1>5, <1>7, <2>1, Constants DEF IInv, RedoBounded
    <2>3. /\ off' \in Places /\ filesize' \in Lengths /\ http_code' \in Answers
          /\ is_seek' \in BOOLEAN /\ authorized' \in BOOLEAN /\ Redo(call.redirects)
          BY <1>2, <1>5, <1>7 DEF AskAgain
    <2>4. QED BY <1>3, <1>4, <1>5, <2>1, <2>2, <2>3, RedoKeeps
  <1>8. QED BY <1>1, <1>6, <1>7

(* A link with an answer goes to the caller, or, after a seek beyond IntMax, is
   closed for another. *)
LEMMA CnxSucceedsKeeps ==
  ASSUME IInv, pc = "request",
         NEW from \in {0, off}, NEW f \in Lengths, NEW c \in Answers,
         from <= FileSize, Headers(from, f), CnxSucceeds(from, f, c), UNCHANGED authorized
  PROVE  IInv'
  <1>1. /\ do_readseek_size' = off - from /\ do_readseek_size' \in Places
        /\ is_streamed' \in BOOLEAN /\ read_seek_count' \in 0 .. READ_SEEK_TIMES
        BY HeadersSet
  <1>2. /\ off \in Places /\ authorized' \in BOOLEAN /\ is_seek \in BOOLEAN /\ from \in 0 .. FileSize
        BY Constants DEF IInv, PlacesOK, FlagsOK, Places
  <1>3. hd # NULL /\ tcppool_list = 1 BY DEF IInv, CallsOK, LinksAccounted
  <1> USE Constants DEF CnxSucceeds, EnterCnx, Return, GoRead, CloseLink, Call, NoCall, NULL
  <1>4. FlagsOK' BY <1>1, <1>2 DEF FlagsOK
  <1>5. PlacesOK' BY <1>1, <1>2, <1>3 DEF IInv, PlacesOK, CallOK, Places, NoAnswer
  <1>6. AnswersOK' BY <1>1 DEF AnswersOK, Lengths, Answers
  <1>7. CallOK' BY <1>2 DEF IInv, CallOK, Places
  <1>8. CallsOK' BY <1>2 DEF IInv, CallsOK, CallOK
  <1>9. RedoBounded' BY DEF IInv, RedoBounded, CallOK
  <1>10. LinksAccounted' BY <1>2, <1>3 DEF LinksAccounted
  <1>11. OffNotAhead' /\ DropsToOff' BY <1>1, <1>2 DEF OffNotAhead, DropsToOff, Places
  <1>12. QED BY <1>4, <1>5, <1>6, <1>7, <1>8, <1>9, <1>10, <1>11 DEF IInv

(* The server answers with the file, or the part asked for. *)
LEMMA AnsweredKeeps == IInv /\ Answered => IInv'
  <1> SUFFICES ASSUME IInv, Answered PROVE IInv' OBVIOUS
  <1>1. pc = "request" /\ UNCHANGED authorized /\ 200 \in Answers /\ 206 \in Answers
        BY DEF Answered, Answers
  <1>2. CASE \E f \in {UNKNOWN, FileSize} : Headers(0, f) /\ CnxSucceeds(0, f, 200)
    <2>1. PICK f \in {UNKNOWN, FileSize} : Headers(0, f) /\ CnxSucceeds(0, f, 200) BY <1>2
    <2>2. f \in Lengths /\ 0 <= FileSize BY <2>1, Constants DEF Lengths
    <2>3. QED BY <1>1, <2>1, <2>2, CnxSucceedsKeeps
  <1>3. CASE off < FileSize /\ Headers(off, FileSize) /\ CnxSucceeds(off, FileSize, 206)
    <2>1. FileSize \in Lengths /\ off <= FileSize
          BY <1>3, Constants DEF Lengths, IInv, PlacesOK, Places
    <2>2. QED BY <1>1, <1>3, <2>1, CnxSucceedsKeeps
  <1>4. QED BY <1>2, <1>3 DEF Answered

(* http_open starts. *)
LEMMA OpenKeeps == IInv /\ Open => IInv'
  <1> SUFFICES ASSUME IInv, Open PROVE IInv' OBVIOUS
  <1> USE Constants DEF Open, EnterCnx, Call, link, NULL
  <1>1. FlagsOK' BY DEF FlagsOK
  <1>2. PlacesOK' BY DEF IInv, PlacesOK, Places, NoAnswer
  <1>3. AnswersOK' BY DEF AnswersOK
  <1>4. CallOK' BY DEF CallOK, Places
  <1>5. CallsOK' BY DEF IInv, CallsOK, LinksAccounted
  <1>6. RedoBounded' BY DEF RedoBounded
  <1>7. LinksAccounted' BY DEF IInv, LinksAccounted
  <1>8. OffNotAhead' /\ DropsToOff' BY DEF OffNotAhead, DropsToOff
  <1>9. QED BY <1>1, <1>2, <1>3, <1>4, <1>5, <1>6, <1>7, <1>8 DEF IInv

(* http_seek closes the link and enters http_open_cnx. *)
LEMMA SeekKeeps == ASSUME IInv, NEW target \in Places, Seek(target) PROVE IInv'
  <1>1. hd' = NULL /\ tcppool_list' = 0 BY CloseLinkLeavesNone DEF Seek
  <1> USE <1>1, Constants DEF Seek, EnterCnx, Call, NULL
  <1>2. FlagsOK' BY DEF IInv, FlagsOK
  <1>3. PlacesOK' BY DEF IInv, PlacesOK, Places, NoAnswer
  <1>4. AnswersOK' BY DEF IInv, AnswersOK
  <1>5. CallOK' BY DEF IInv, CallOK, PlacesOK, Places
  <1>6. CallsOK' BY DEF CallsOK
  <1>7. RedoBounded' BY DEF RedoBounded
  <1>8. LinksAccounted' BY DEF LinksAccounted
  <1>9. OffNotAhead' /\ DropsToOff' BY DEF OffNotAhead, DropsToOff
  <1>10. QED BY <1>2, <1>3, <1>4, <1>5, <1>6, <1>7, <1>8, <1>9 DEF IInv

(* http_close. *)
LEMMA CloseKeeps == IInv /\ Close => IInv'
  <1> SUFFICES ASSUME IInv, Close PROVE IInv' OBVIOUS
  <1>1. hd' = NULL /\ tcppool_list' = 0 BY CloseLinkLeavesNone DEF Close
  <1> USE <1>1, Constants DEF Close, place, mode, NULL
  <1>2. FlagsOK' BY DEF IInv, FlagsOK
  <1>3. PlacesOK' BY DEF IInv, PlacesOK, NoAnswer
  <1>4. AnswersOK' BY DEF IInv, AnswersOK
  <1>5. CallOK' BY DEF IInv, CallOK
  <1>6. CallsOK' BY DEF CallsOK
  <1>7. RedoBounded' BY DEF IInv, RedoBounded
  <1>8. LinksAccounted' BY DEF LinksAccounted
  <1>9. OffNotAhead' /\ DropsToOff' BY DEF OffNotAhead, DropsToOff
  <1>10. QED BY <1>2, <1>3, <1>4, <1>5, <1>6, <1>7, <1>8, <1>9 DEF IInv

(* A link is opened, and the request is next. *)
LEMMA LinkedKeeps == IInv /\ Linked => IInv'
  <1> SUFFICES ASSUME IInv, Linked PROVE IInv' OBVIOUS
  <1> USE Constants DEF Linked, place, mode, NULL
  <1>1. FlagsOK' BY DEF IInv, FlagsOK
  <1>2. PlacesOK' BY DEF IInv, PlacesOK, CallsOK, LinksAccounted, NoAnswer
  <1>3. AnswersOK' BY DEF IInv, AnswersOK
  <1>4. CallOK' BY DEF IInv, CallOK
  <1>5. CallsOK' BY DEF IInv, CallsOK
  <1>6. RedoBounded' BY DEF IInv, RedoBounded
  <1>7. LinksAccounted' BY DEF IInv, LinksAccounted, CallsOK
  <1>8. OffNotAhead' /\ DropsToOff' BY DEF OffNotAhead, DropsToOff
  <1>9. QED BY <1>1, <1>2, <1>3, <1>4, <1>5, <1>6, <1>7, <1>8 DEF IInv

(* http_read is entered. *)
LEMMA ReadKeeps == IInv /\ Read => IInv'
  <1> SUFFICES ASSUME IInv, Read PROVE IInv' OBVIOUS
  <1> USE Constants DEF Read, link, place, mode, Call, NULL
  <1>1. FlagsOK' BY DEF IInv, FlagsOK
  <1>2. PlacesOK' BY DEF IInv, PlacesOK, NoAnswer
  <1>3. AnswersOK' BY DEF IInv, AnswersOK
  <1>4. CallOK' BY DEF IInv, CallOK, Places
  <1>5. CallsOK' BY DEF IInv, CallsOK
  <1>6. RedoBounded' BY DEF IInv, RedoBounded
  <1>7. LinksAccounted' BY DEF IInv, LinksAccounted
  <1>8. OffNotAhead' /\ DropsToOff' BY DEF IInv, OffNotAhead, DropsToOff
  <1>9. QED BY <1>1, <1>2, <1>3, <1>4, <1>5, <1>6, <1>7, <1>8 DEF IInv

(* Bytes come: they are dropped, or handed out. *)
LEMMA ReceiveKeeps == ASSUME IInv, NEW n \in 1 .. MaxRead, Receive(n) PROVE IInv'
  <1>1. /\ hd \in 0 .. FileSize /\ hd' \in 0 .. FileSize /\ hd' = hd + n /\ n \in Nat
        /\ off \in 0 .. FileSize + 1 /\ do_readseek_size \in 0 .. FileSize + 1
        BY Constants DEF IInv, PlacesOK, Places, Receive, NULL
  <1>2. off <= hd + do_readseek_size /\ (do_readseek_size > 0 => off = hd + do_readseek_size)
        BY DEF IInv, OffNotAhead, DropsToOff, Receive
  <1>3. /\ do_readseek_size' \in 0 .. FileSize + 1 /\ off' \in 0 .. FileSize + 1
        /\ off' <= hd' + do_readseek_size' /\ (do_readseek_size' > 0 => off' = hd' + do_readseek_size')
        BY <1>1, <1>2, Constants DEF Receive
  <1> USE Constants DEF Receive, mode, GoRead, Return, Call, NoCall, NULL
  <1>4. FlagsOK' BY DEF IInv, FlagsOK
  <1>5. PlacesOK' BY <1>1, <1>3 DEF IInv, PlacesOK, Places, NoAnswer
  <1>6. AnswersOK' BY DEF IInv, AnswersOK
  <1>7. CallOK' BY DEF IInv, CallOK, Places
  <1>8. CallsOK' BY DEF IInv, CallsOK
  <1>9. RedoBounded' BY DEF IInv, RedoBounded
  <1>10. LinksAccounted' BY <1>1 DEF IInv, LinksAccounted
  <1>11. OffNotAhead' /\ DropsToOff' BY <1>3 DEF OffNotAhead, DropsToOff
  <1>12. QED BY <1>4, <1>5, <1>6, <1>7, <1>8, <1>9, <1>10, <1>11 DEF IInv

(* A read returns, with nothing else changed. *)
LEMMA ReturnsKeeps ==
  ASSUME IInv, pc = "read", Return(NoAnswer), UNCHANGED <<link, place, mode>>
  PROVE  IInv'
  <1> USE Constants DEF Return, link, place, mode, NoCall, Call, NULL
  <1>1. FlagsOK' BY DEF IInv, FlagsOK
  <1>2. PlacesOK' BY DEF IInv, PlacesOK, NoAnswer
  <1>3. AnswersOK' BY DEF IInv, AnswersOK
  <1>4. CallOK' BY DEF CallOK, Places
  <1>5. CallsOK' BY DEF CallsOK
  <1>6. RedoBounded' BY DEF RedoBounded
  <1>7. LinksAccounted' BY DEF IInv, LinksAccounted
  <1>8. OffNotAhead' /\ DropsToOff' BY DEF IInv, OffNotAhead, DropsToOff
  <1>9. QED BY <1>1, <1>2, <1>3, <1>4, <1>5, <1>6, <1>7, <1>8 DEF IInv

(* A read opens another link at off, or gives up. *)
LEMMA ReopenKeeps ==
  ASSUME IInv, pc = "read", Reopen, UNCHANGED <<place, mode>>
  PROVE  IInv'
  <1>1. CASE Return(NoAnswer) /\ UNCHANGED link BY <1>1, ReturnsKeeps
  <1>2. CASE CloseLink /\ EnterCnx("read", 0, call.tries - 1, off)
    <2>1. hd' = NULL /\ tcppool_list' = 0 BY <1>2, CloseLinkLeavesNone
    <2> USE <1>2, <2>1, Constants DEF EnterCnx, Call, place, mode, NULL
    <2>2. FlagsOK' BY DEF IInv, FlagsOK
    <2>3. PlacesOK' BY DEF IInv, PlacesOK, NoAnswer
    <2>4. AnswersOK' BY DEF IInv, AnswersOK
    <2>5. CallOK' BY DEF IInv, CallOK, PlacesOK, Places
    <2>6. CallsOK' BY DEF CallsOK
    <2>7. RedoBounded' BY DEF RedoBounded
    <2>8. LinksAccounted' BY DEF LinksAccounted
    <2>9. OffNotAhead' /\ DropsToOff' BY DEF OffNotAhead, DropsToOff
    <2>10. QED BY <2>2, <2>3, <2>4, <2>5, <2>6, <2>7, <2>8, <2>9 DEF IInv
  <1>3. QED BY <1>1, <1>2 DEF Reopen

(* A step that changes nothing. *)
LEMMA StutterKeeps == IInv /\ UNCHANGED vars => IInv'
  <1> SUFFICES ASSUME IInv, UNCHANGED vars PROVE IInv' OBVIOUS
  <1> USE DEF vars, link, place, mode
  <1>1. FlagsOK' /\ PlacesOK' /\ AnswersOK' BY DEF IInv, FlagsOK, PlacesOK, AnswersOK
  <1>2. CallOK' /\ CallsOK' /\ RedoBounded' BY DEF IInv, CallOK, CallsOK, RedoBounded
  <1>3. LinksAccounted' /\ OffNotAhead' /\ DropsToOff'
        BY DEF IInv, LinksAccounted, OffNotAhead, DropsToOff
  <1>4. QED BY <1>1, <1>2, <1>3 DEF IInv

(* Every step keeps the inductive invariant. *)
LEMMA NextIInv == IInv /\ [Next]_vars => IInv'
  <1> SUFFICES ASSUME IInv, [Next]_vars PROVE IInv' OBVIOUS
  <1>1. CASE Open BY <1>1, OpenKeeps
  <1>2. CASE Read BY <1>2, ReadKeeps
  <1>3. CASE Close BY <1>3, CloseKeeps
  <1>4. CASE \E target \in Places : Seek(target) BY <1>4, SeekKeeps
  <1>5. CASE Cnx
        BY <1>5, RefusedKeeps, LinkedKeeps, NotSentKeeps, NotAnsweredKeeps, HeadersCutKeeps,
           RedirectedKeeps, UnauthorizedKeeps, AnsweredKeeps DEF Cnx
  <1>6. CASE Reading
    <2>1. CASE \E n \in 1 .. MaxRead : Receive(n) BY <2>1, ReceiveKeeps
    <2>2. CASE ReadFails BY <2>2, ReopenKeeps DEF ReadFails
    <2>3. CASE LinkEnds
      <3>1. CASE Reopen BY <2>3, <3>1, ReopenKeeps DEF LinkEnds
      <3>2. CASE Return(NoAnswer) /\ UNCHANGED link BY <2>3, <3>2, ReturnsKeeps DEF LinkEnds
      <3>3. QED BY <2>3, <3>1, <3>2 DEF LinkEnds
    <2>4. CASE ReadsNothing BY <2>4, ReturnsKeeps DEF ReadsNothing
    <2>5. QED BY <1>6, <2>1, <2>2, <2>3, <2>4 DEF Reading
  <1>7. CASE UNCHANGED vars BY <1>7, StutterKeeps
  <1>8. QED BY <1>1, <1>2, <1>3, <1>4, <1>5, <1>6, <1>7 DEF Next

(* The inductive invariant holds in every state. *)
THEOREM Invariant == Spec => []IInv
  BY InitIInv, NextIInv, PTL DEF Spec

(* The variables stay in their sets: how often a request is done again, and how
   many redirects are followed, is bounded, and off never leaves the file. *)
THEOREM TypeCorrect == Spec => []TypeOK
  <1>1. IInv => TypeOK
    <2> SUFFICES ASSUME IInv PROVE TypeOK OBVIOUS
    <2>1. FlagsOK /\ PlacesOK /\ AnswersOK /\ CallOK BY DEF IInv
    <2>2. /\ hd \in {NULL} \cup 0 .. FileSize /\ tcppool_list \in 0 .. 1
          /\ off \in Places /\ do_readseek_size \in Places
          /\ answer \in {NoAnswer} \cup Places
          BY <2>1 DEF PlacesOK
    <2>3. /\ filesize \in {UNKNOWN, BodySize, FileSize}
          /\ http_code \in {-1, 0, 200, 206, 302, 401, 404, 416, 503}
          /\ read_seek_count \in 0 .. READ_SEEK_TIMES
          BY <2>1 DEF AnswersOK
    <2>4. /\ pc \in {"closed", "idle", "redo", "request", "read"}
          /\ call.op \in {"none", "open", "read", "seek"}
          /\ call.target \in Places /\ call.old_off \in Places
          /\ call.redo \in 0 .. OPEN_RETRY_MAX + MAX_REDIRECTS + 2
          /\ call.redirects \in 0 .. MAX_REDIRECTS
          BY <2>1 DEF CallOK
    <2>5. is_seek \in BOOLEAN /\ is_streamed \in BOOLEAN /\ authorized \in BOOLEAN
          BY <2>1 DEF FlagsOK
    <2>6. QED BY <2>2, <2>3, <2>4, <2>5, Zenon DEF TypeOK
  <1>2. QED BY <1>1, Invariant, PTL

(* Whatever the server does, every link but the one in use has been given back,
   and a closed input holds none. *)
THEOREM LinksAreAccounted == Spec => []LinksAccounted
  <1>1. IInv => LinksAccounted BY DEF IInv
  <1>2. QED BY <1>1, Invariant, PTL

(* A read that goes on over another link skips no byte. *)
THEOREM OffIsNotAhead == Spec => []OffNotAhead
  <1>1. IInv => OffNotAhead BY DEF IInv
  <1>2. QED BY <1>1, Invariant, PTL
-----------------------------------------------------------------------------
(* As long as redirects alone have led back to redo, off is what the seek asked
   for. *)
SeekOf(o, c, p) == (c.op = "seek" /\ p \in {"redo", "request"} /\ c.redo = c.redirects) => o = c.target
AsksForTarget == call.redirects <= call.redo /\ SeekOf(off, call, pc)

\* What a step shows.
Goes == (answer' # NoAnswer /\ hd' # NULL /\ call.redo = call.redirects) => hd' + do_readseek_size' = answer'

(* http_open_cnx is entered with off at the target, and nothing done again. *)
LEMMA EnterAsks ==
  ASSUME NEW op, NEW target, NEW tries, NEW old_off, EnterCnx(op, target, tries, old_off),
         op = "seek" => off' = target
  PROVE  AsksForTarget' /\ answer' = NoAnswer
  BY DEF EnterCnx, Call, AsksForTarget, SeekOf

(* A call that returns, or goes on to read, seeks no more. *)
LEMMA ReturnAsks == ASSUME NEW a, Return(a) PROVE AsksForTarget' /\ answer' = a
  BY DEF Return, NoCall, Call, AsksForTarget, SeekOf
LEMMA GoReadAsks == ASSUME AsksForTarget, GoRead PROVE AsksForTarget' /\ answer' = NoAnswer
  BY DEF GoRead, AsksForTarget, SeekOf

(* A failure leaves more to be done again than redirects followed, for good. *)
LEMMA RedoAsks ==
  ASSUME IInv, AsksForTarget, pc = "request", NEW r, Redo(r),
         \/ r = call.redirects
         \/ r = call.redirects + 1 /\ off' = off
  PROVE  AsksForTarget' /\ answer' = NoAnswer
  <1>1. call.redo \in Nat /\ call.redirects \in Nat BY Constants DEF IInv, CallOK
  <1>2. QED BY <1>1 DEF Redo, Call, AsksForTarget, SeekOf

LEMMA CnxFailsAsks ==
  ASSUME AsksForTarget, NEW p, NEW f, NEW c, CnxFails(p, f, c)
  PROVE  AsksForTarget'
  <1>1. CASE call.op = "open" /\ off' = p /\ EnterCnx("open", 0, call.tries - 1, 0) BY <1>1, EnterAsks
  <1>2. CASE pc' = "closed" /\ call' = NoCall BY <1>2 DEF NoCall, Call, AsksForTarget, SeekOf
  <1>3. CASE Return(NoAnswer) BY <1>3, ReturnAsks
  <1>4. CASE GoRead BY <1>4, GoReadAsks
  <1>5. CASE off' = call.target /\ EnterCnx("seek", call.target, call.tries - 1, call.old_off)
        BY <1>5, EnterAsks
  <1>6. CASE Return(call.target) BY <1>6, ReturnAsks
  <1>7. QED BY <1>1, <1>2, <1>3, <1>4, <1>5, <1>6 DEF CnxFails

(* Where no link is left, nothing is claimed of it. *)
LEMMA NoLinkGoes == hd' = NULL \/ answer' = NoAnswer => Goes
  BY DEF Goes

LEMMA ConnectFailsAsks ==
  ASSUME IInv, AsksForTarget, pc = "request", NEW p, NEW f, NEW c, ConnectFails(p, f, c)
  PROVE  AsksForTarget' /\ Goes
  <1>1. hd' = NULL BY CloseLinkLeavesNone DEF ConnectFails
  <1>2. CASE CnxFails(p, f, c) BY <1>2, CnxFailsAsks, <1>1, NoLinkGoes
  <1>3. CASE Redo(call.redirects) BY <1>3, RedoAsks, NoLinkGoes
  <1>4. QED BY <1>2, <1>3 DEF ConnectFails

(* The answer of a seek is its target, where off is. *)
LEMMA CnxSucceedsAsks ==
  ASSUME IInv, AsksForTarget, pc = "request", NEW from \in {0, off}, NEW f \in Lengths, NEW c,
         from <= FileSize, Headers(from, f), CnxSucceeds(from, f, c)
  PROVE  AsksForTarget' /\ Goes
  <1>1. do_readseek_size' = off - from /\ off \in Int /\ from \in Int
        BY Constants, HeadersSet DEF IInv, PlacesOK, Places
  <1>2. CASE /\ call.op \in {"open", "seek"} /\ hd' = from
             /\ Return(IF call.op = "seek" THEN call.target ELSE NoAnswer)
    <2>1. answer' = (IF call.op = "seek" THEN call.target ELSE NoAnswer) BY <1>2 DEF Return
    <2>2. AsksForTarget' BY <1>2, ReturnAsks
    <2>3. CASE call.op # "seek" BY <2>1, <2>2, <2>3, NoLinkGoes
    <2>4. CASE call.op = "seek"
      <3>1. call.redo = call.redirects => off = call.target BY <2>4 DEF AsksForTarget, SeekOf
      <3>2. answer' = call.target BY <2>1, <2>4
      <3>3. hd' + do_readseek_size' = from + (off - from) BY <1>1, <1>2
      <3>4. from + (off - from) = off BY <1>1
      <3>5. QED BY <2>2, <3>1, <3>2, <3>3, <3>4, Zenon DEF Goes
    <2>5. QED BY <2>3, <2>4
  <1>3. CASE GoRead BY <1>3, GoReadAsks, NoLinkGoes
  <1>4. CASE off' = call.target /\ EnterCnx("seek", call.target, call.tries - 1, off)
        BY <1>4, EnterAsks, NoLinkGoes
  <1>5. QED BY <1>2, <1>3, <1>4 DEF CnxSucceeds

(* Every step of http_open_cnx. *)
LEMMA CnxAsks == IInv /\ AsksForTarget /\ Cnx => AsksForTarget' /\ Goes
  <1> SUFFICES ASSUME IInv, AsksForTarget, Cnx PROVE AsksForTarget' /\ Goes OBVIOUS
  <1>1. CASE Refused
    <2>1. hd' = NULL BY <1>1 DEF Refused, link, IInv, CallsOK
    <2>2. QED BY <1>1, <2>1, CnxFailsAsks, NoLinkGoes DEF Refused
  <1>2. CASE Linked
    <2>1. /\ pc = "redo" /\ off' = off /\ pc' = "request" /\ call' = call /\ answer' = NoAnswer
          BY <1>2 DEF Linked, place
    <2>2. QED BY <2>1, NoLinkGoes DEF AsksForTarget, SeekOf
  <1>3. CASE NotSent BY <1>3, ConnectFailsAsks DEF NotSent
  <1>4. CASE NotAnswered BY <1>4, ConnectFailsAsks DEF NotAnswered
  <1>5. CASE HeadersCut BY <1>5, ConnectFailsAsks DEF HeadersCut
  <1>6. CASE Redirected
    <2>1. hd' = NULL /\ pc = "request" BY <1>6, CloseLinkLeavesNone DEF Redirected
    <2>2. PICK f : \/ AskAgain(call.redirects + 1, f, 302)
                   \/ CnxFails(off, f, 302)
          BY <1>6 DEF Redirected
    <2>3. CASE AskAgain(call.redirects + 1, f, 302) BY <2>1, <2>3, RedoAsks, NoLinkGoes DEF AskAgain
    <2>4. QED BY <2>1, <2>2, <2>3, CnxFailsAsks, NoLinkGoes
  <1>7. CASE Unauthorized
    <2>1. hd' = NULL /\ pc = "request" BY <1>7, CloseLinkLeavesNone DEF Unauthorized
    <2>2. PICK f : \/ AskAgain(call.redirects, f, 401)
                   \/ CnxFails(off, f, 401)
          BY <1>7 DEF Unauthorized
    <2>3. CASE AskAgain(call.redirects, f, 401) BY <2>1, <2>3, RedoAsks, NoLinkGoes DEF AskAgain
    <2>4. QED BY <2>1, <2>2, <2>3, CnxFailsAsks, NoLinkGoes
  <1>8. CASE Answered
    <2>1. pc = "request" /\ off \in Int BY <1>8, Constants DEF Answered, IInv, PlacesOK, Places
    <2>2. CASE \E f \in {UNKNOWN, FileSize} : Headers(0, f) /\ CnxSucceeds(0, f, 200)
      <3>1. PICK f \in {UNKNOWN, FileSize} : Headers(0, f) /\ CnxSucceeds(0, f, 200) BY <2>2
      <3>2. f \in Lengths /\ 0 <= FileSize BY <3>1, Constants DEF Lengths
      <3>3. QED BY <2>1, <3>1, <3>2, CnxSucceedsAsks
    <2>3. CASE off < FileSize /\ Headers(off, FileSize) /\ CnxSucceeds(off, FileSize, 206)
      <3>1. FileSize \in Lengths /\ off <= FileSize BY <2>1, <2>3, Constants DEF Lengths
      <3>2. QED BY <2>1, <2>3, <3>1, CnxSucceedsAsks
    <2>4. QED BY <1>8, <2>2, <2>3 DEF Answered
  <1>9. QED BY <1>1, <1>2, <1>3, <1>4, <1>5, <1>6, <1>7, <1>8 DEF Cnx

(* Every step of http_read answers with no place. *)
LEMMA ReadingAsks == IInv /\ AsksForTarget /\ Reading => AsksForTarget' /\ answer' = NoAnswer
  <1> SUFFICES ASSUME IInv, AsksForTarget, Reading PROVE AsksForTarget' /\ answer' = NoAnswer OBVIOUS
  <1>1. CASE GoRead BY <1>1, GoReadAsks
  <1>2. CASE Return(NoAnswer) BY <1>2, ReturnAsks
  <1>3. CASE EnterCnx("read", 0, call.tries - 1, off) BY <1>3, EnterAsks
  <1>4. QED BY <1>1, <1>2, <1>3 DEF Reading, Receive, ReadFails, LinkEnds, ReadsNothing, Reopen

LEMMA NextAsks == IInv /\ AsksForTarget /\ Next => AsksForTarget' /\ Goes
  <1> SUFFICES ASSUME IInv, AsksForTarget, Next PROVE AsksForTarget' /\ Goes OBVIOUS
  <1>1. CASE Open BY <1>1, EnterAsks, NoLinkGoes DEF Open
  <1>2. CASE Read BY <1>2, NoLinkGoes DEF Read, Call, AsksForTarget, SeekOf
  <1>3. CASE Close
    <2>1. pc' = "closed" /\ call' = call /\ answer' = NoAnswer BY <1>3 DEF Close
    <2>2. QED BY <2>1, NoLinkGoes DEF AsksForTarget, SeekOf
  <1>4. CASE \E target \in Places : Seek(target) BY <1>4, EnterAsks, NoLinkGoes DEF Seek
  <1>5. CASE Cnx BY <1>5, CnxAsks
  <1>6. CASE Reading BY <1>6, ReadingAsks, NoLinkGoes
  <1>7. QED BY <1>1, <1>2, <1>3, <1>4, <1>5, <1>6 DEF Next

LEMMA AsksInvariant == Spec => []AsksForTarget
  <1>1. Init => AsksForTarget BY DEF Init, NoCall, Call, AsksForTarget, SeekOf
  <1>2. IInv /\ AsksForTarget /\ [Next]_vars => AsksForTarget'
    <2>1. UNCHANGED vars /\ AsksForTarget => AsksForTarget' BY DEF vars, place, AsksForTarget, SeekOf
    <2>2. QED BY <2>1, NextAsks
  <1>3. QED BY <1>1, <1>2, Invariant, PTL DEF Spec

(* A seek that never had to ask again, but for redirects, reads on from where it
   says. *)
THEOREM SeekAnswersItsPlace == Spec => SeekGoesThere
  <1>1. IInv /\ AsksForTarget /\ [Next]_vars
          => [(answer' # NoAnswer /\ hd' # NULL /\ call.redo = call.redirects)
                => hd' + do_readseek_size' = answer']_vars
        BY NextAsks DEF Goes
  <1>2. QED BY <1>1, Invariant, AsksInvariant, PTL DEF Spec, SeekGoesThere
=============================================================================
