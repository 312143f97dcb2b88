# LibPlayer: formal specifications

These TLA+ modules specify the concurrent core of Amlogic's LibPlayer, the media
player library under `src/`: the commands that clients send to a player, the
threads that carry them out, the registry through which one thread interrupts
another, and the layers that bring the bytes of the stream: HTTP connection,
read-ahead, ring and cache. TLC checks them on small instances; TLAPS proves every
safety property and both refinements for every size.

The reference is the C source. Each definition that stands for code is listed in
`PROJECT.json` under `map` with the lines it models.

## 1. The system

A client starts a player with `player_start` and gets a *pid*. From then on it
sends commands: start, pause, seek, stop, and so on. Each player has

* a **player thread** (`player.c`), which opens the source, reads packets
  (FFmpeg), writes them to the decoder, and executes commands between packets;
* a **mate thread** (`player_mate.c`), which executes commands in its place while
  the player thread is inside a call that may block;
* a **message pool** (`message.c`), the ring of pending commands;
* a **state** (`player_update.c`), reported to the client by a callback.

All threads are made through the **thread pool** (`amavutils/amthreadpool.c`),
which can ask a thread, or a thread and all it has made, to leave what it is
doing. FFmpeg's network code tests that request in every wait.

```
  clients --player_ctrl.c--> pid pool --> play_para_t
     |                                      | message pool
     | ffmpeg_interrupt                     v
     +----> thread pool --request--> player thread <--wake/sleep--> mate thread
                                        |  read/seek                 (shares all flags)
                                        v
                  FFmpeg protocols, loop buffer, cache file, stream source, HLS
                                        |
                                        v
                      codec devices, audio decoder (amadec), subtitles
```

### Inventory

| component | state it keeps | operations | what is hard | what makes it correct |
|---|---|---|---|---|
| Message pool, `message.c` | ring of command pointers, in/out index, count, mutex | send, send or update, get, peek, clear | a search looks for an older one and appends in two critical sections; a full ring drops its oldest | it is a bounded queue that drops its head; each slot has one owner; a command handed out is not rewritten |
| Thread pool, `amthreadpool.c` | registry of threads, pools with member lists, per thread a countdown request, a condition | create, join, sleep, wake, cancel and uncancel of one thread or a pool | the request is tested and counted down without the lock; a new thread registers itself; the lists are walked while threads come and go | a request to exit is not lost, reaches all threads of the player, and no list names a freed thread |
| Player thread and mate, `player.c`, `player_mate.c` | flags of `playctrl_info`, player state, mate flags and semaphore | the player loop, reset, the command proxy of the mate | two threads share all flags without a lock; a stop, a seek and a mate's interrupt meet | only one of the two works at a time; a stop ends the thread; a seek that is reported is the last one asked for |
| Player control, `player_ctrl.c`, `player_id.c`, `thread_mgt.c` | bitmap of pids, data pointer and use count per pid, two global locks | request and release a pid, open and close its data, start, stop, exit, about forty calls that open, act, close | exit frees what other calls hold; use counts that do not balance; stop and exit wait for a thread under a lock | no call touches a freed player; the count is the number of calls inside; a pid has one player |
| State and buffering, `player_update.c` | state, buffer levels, times | update, force and check end, report | the end of a stream must be told from a slow network | reported states follow the order of play; buffering ends |
| HTTP connection, `http.c` | link, place of the next byte, bytes to drop, length, retries | open, read, seek, reopen, close | every step may fail, redirect or be ignored by the server, and starts the others again | no link leaks; no byte is skipped; a seek goes where it says; loops end |
| TCP link pool, `tcp_pool.c`, `itemlist.c` | active and free links | open, release, find free, close | reuse of links is written, but nothing switches it on | a link has one user and is closed once |
| Stream source, `streamsource/` | new, old and free buffers, seek request | read-ahead, read, seek | two threads, a seek handshake half under a lock; positions of queues | data come in order; a seek is followed by data of its target; memory is bounded |
| Loop buffer, `aviolpbuf.c` | ring of bytes with read and write pointers, file position, count of valid data | fill, read, seek, seek by reading or by time | wrap and reserve arithmetic; a count that outgrows the ring; where the source is | the bytes read or sought back to are those of the stream at that place |
| Cache file, `player_cache_file.c`, `player_cache_mgt.c`, `aviolpcache.c` | bitmap of pages on disk, the data file | read, write, close and open again | pages written in part | a page marked valid holds the stream's bytes |
| Audio decoder, `amadec/` | its own message pool, decoder state, PCM ring | commands, decode loop, output | the commands and the ring cross threads | like the message pool; samples come in order |
| HLS client, `third_parts/libvhls` | playlist, bandwidth, segment cache, worker state | refresh, download, seek, switch | workers race with seek and close | segments in order; close ends the workers |
| Codec devices, subtitles, hardware settings, modules, vendored libraries | handles, sysfs | ioctl, parsing | little: sequential, or outside this code | not specified |

`PROJECT.json` lists the hazards of this code line by line, with the properties
that would catch each, or the reason why none does.


## 2. The modules

| module | what it is | code |
|---|---|---|
| `CommandQueue` | abstract: a bounded queue of commands that drops its head when full and merges searches | the promise of `message.c` |
| `MessagePool` | the ring, its heap cells, and the threads that send, take and free | `message.c`, `player_send_message` |
| `MessagePoolProofs` | theorems about `MessagePool` | |
| `ThreadPool` | registry, pools, creation, exit, join, sleep, wake, cancel | `amthreadpool.c` |
| `ThreadPoolProofs` | theorems about `ThreadPool` | |
| `PlayerThread` | the player thread, its mate, and the client that stops it | `player.c`, `player_mate.c`, and what they call in `player_update.c`, `player_para.c`, `player_av.c` |
| `PlayerThreadProofs` | theorems about `PlayerThread` | |
| `PlayerControl` | the pid pool and the calls of the library | `player_ctrl.c`, `player_id.c`, `thread_mgt.c` |
| `PlayerControlProofs` | theorems about `PlayerControl` | |
| `HttpInput` | a connection over a server that answers as it likes | `http.c`, and the opening and closing of links in `tcp_pool.c` |
| `HttpInputProofs` | theorems about `HttpInput` | |
| `StreamSource` | the thread that reads ahead, its buffers, and the reader | `thread_read.c`, `streambufqueue.c`, `queue.c`, `source.c`, `streamsource.c` |
| `StreamSourceProofs` | theorems about `StreamSource`: the seek by the thread | |
| `StreamQueueProofs` | theorems about `StreamSource`: the queues of buffers | |
| `InputWindow` | abstract: a window on a stream that moves forward and starts anew | the promise of `aviolpbuf.c` |
| `CacheFile` | the pages of a stream on disk; a part of the next | `player_cache_file.c`, `player_cache_mgt.c` |
| `LoopBuffer` | the ring, its source and its cache | `aviolpbuf.c` |
| `LoopBufferProofs` | theorems about `LoopBuffer` | |
| `MC*` | small instances of the seven | |

How they fit together. `MessagePool` is shown to implement `CommandQueue`, and
`PlayerThread` uses the operators of `CommandQueue` as its command queue: what
is checked of the player rests on the refinement, not on the ring.
`PlayerThread` has the request to exit of one thread as the flag `interrupted`;
`ThreadPool` says how such a flag behaves, and where it does not behave like a
flag (`InterruptHolds`, section 4). `PlayerControl` has of a player only the
states its calls look at; that a player which is told to stop does end is the
fairness it assumes, and is the property `StopEndsThread` of `PlayerThread`.

The three modules of the input lie one above the other: the ring of `LoopBuffer`
reads a source, which may be the connection of `HttpInput` or the read-ahead of
`StreamSource`, and `CacheFile` is part of `LoopBuffer`, because which bytes the
cache keeps depends on where the ring takes the source to be. Each layer gives
the one above a place to read from and to seek to; what is claimed of the lower
one (a seek that answers with a place goes there) is what the upper one assumes of
its source. They are not composed into one state space: a source of `LoopBuffer`
that is sought answers with its place or fails, as `SeekGoesThere` and `SoughtPlace`
say.

### MessagePool

State: the four fields of `message_pool_t` under their own names; `mem`, the
heap cells that hold commands; per thread, `pc` (between which critical sections
it is) and `held` (the pointer in its hands). A step is a critical section of
`msg_mutex`, a `malloc` or a `free`. `send_message_update` is two steps, because
the mutex is released between its scan and the append: `UpdateHit`, or
`UpdateMiss` and then `SendRoom` or `SendFull`. `Get` is `get_message`, by a
player or by a client inside `clear_all_message`. The contents of a slot outside
the window are stale pointers, as in the code.

### ThreadPool

`status` is the life of each thread; `threadpool_threadlist`, `threadpool_list`,
`threadlist` and `pool` are the lists of `amthreadpool.c`. `on_requred_exit` is
the request, a countdown from 3. `usleep` tests, reads and decrements it with no lock:
`SleepTest`, `SleepLoad`, which may find another value than was tested, and `SleepStore`,
which writes one less. A wake likewise reads (`ReadRequest`) what it stores (`CallSelf`).

A step is what one lock covers. A thread starts in four (`FindPool`, `AddToPool`,
`Register`, `SetInited`), and its creator goes on after the last. A join is four more
(`Unregister`, `Unlist`, `FreeThread`, `Release`): each list has its lock, and freeing has
none. A call looks its thread up (`Begin`), reads the thread's pool (`ReadPool`), locks that
pool's list (`LockList`) and holds it over the walk to `MembersDone`; `Unlocked` makes the
others wait, but not `Release`, which frees the list with the pool. `Gone` says that what
a call uses next has been freed; then it returns or never does (`UseFreed`), which is all
the model has of undefined behaviour. `wanted` is history: whether the last thing asked of
the thread was to exit. `Root(t)`, the thread at the head of the chain of creators, is for
the properties only: the code stores the pool in each thread and never follows the chain.

### PlayerThread

`para` is the record of the flags of `playctrl_info` the two threads share, the
player state, and whether a packet is pending. `pc` is where the player thread
is, `mate` where the mate is; the mate's four flags keep their names. The steps
of the player thread are the parts of its loop between two points where the
mate or a client can intervene. `check_flag` and its like are single steps,
though they touch several flags: `MateOnlyInside` shows that the mate, the only
other thread that writes these flags, is then not executing. While the player
thread is inside a read or a seek (`Inside`), the mate's steps and its own are
interleaved one by one. `site`, `res` and `sought` say which call is under way,
what it returned and what it seeks to. Sequential consistency is assumed for
`mate_isrunng` and `mate_should_sleep`, which are plain variables.

`Checked` is `check_flag` from where a command has been taken: it breaks out of the
loop on a stop, on a seek or a reset, and on a switch of the program, and goes round
in a pause.

Two fields of `para` are history: `asked`, the time that the search executed last asked
for, and `moved`, whether a watchdog or a switch of the program has set another time since.
`SearchOkIsCurrent` compares with them, not with the `time_point` of the code: a seek that is
told as done went to `asked`, unless `moved`. The exception is what the code does: a watchdog
(`player.c:184`, `203`) and a switch that the mate executes both replace `time_point` without
clearing `search_flag`, and the SEARCHOK that follows is for their time; and where that time
is the end of the stream, `time_search` succeeds without seeking (`SeekStarts`,
`player_av.c:1692`).

`mate_sem` is a semaphore of the C library, which saturates at `SEM_VALUE_MAX` (`Posted`): each
wake posts once, whatever is left of earlier posts, and the release thrice.

`Updated` is `update_playing_info` as far as it ends the playing; `Watched` is
`check_decoder_worksta`. What the media does is nondeterministic: a read brings
a packet, none, the end or an error; a packet is written or not; a seek succeeds
or fails.

### PlayerControl

`priv_pid_pool`, `priv_pid_data`, `priv_pid_used` and `last` are the variables of
`player_id.c`; `life` the memory of each player, `thread` its thread and state,
`pthread_id` its id, `bearer` whose thread each `pthread_t` names. `call` is where
each client is; a step is one critical section of the pid pool, one access to a
player, or one call of the threads library. `use` stands for every call that
opens the pid data, acts and closes; `async`, `lrvolume`, `info`, `stop` and
`exit` for those that do something else. `pthread_join` is external: it fails at
once for an id that names no thread, or that another join waits for, which is
what bionic does. A `pthread_t` is given out again as soon as its thread is joined,
though the player of that thread may still store it until it is exited; `secondhand` is
history, and names the players whose thread got such an id. A stop or an asynchronous stop may
find no memory for its command: `stop_fail` is where `player_stop` is when it will return
that error, or the one of its join, and `stop_leave` where it will return success.

Clients are bound by one rule: `player_exit` is the last call on a pid. The code
states it only by the warning `PID is in using!` in `player_release_pid`; without
it every call can touch freed memory, since the use count delays nothing.

### HttpInput

`hd` is the link, as the place of the next byte the server will send on it;
`tcppool_list` counts the links that `tcp_pool.c` has registered. `off`,
`do_readseek_size`, `http_code`, `is_seek` and so on are the fields of
`HTTPContext`. `call` is the call under way with its counters: tries left, requests
done again (`redo_open_cnt`), redirects. `pc` is "redo" at the label of that name in
`http_open_cnx`, "request" while a request is out, "read" at the label `retry` of
`http_read`. The server's answers are the disjuncts of `Cnx`: no link (`Refused`), a
request or an answer that is lost, an error, headers that are cut off, a redirect, a
demand for authorization, the file from the place asked for, or all of it. A seek that
the server ignores is done by dropping bytes (`do_readseek_size`, `Receive`).

### StreamSource

`newdata`, `oldqueue` and `freequeue` are the queues of buffers; a buffer has its
length, what was read of it, and two places: `pos`, which the code keeps, and `at`,
where its bytes come from. `place` is where the source is, `s_off` where `source.c`
takes it to be. `tpc` and `rpc` are the steps of the two threads; a step is a
critical section of the lock of the queues, or an access to a field they share
without it (`request_seek`, `inseeking`, `seek_ret`, `error`, `fatal_error`). A seek of
the reader tries the buffers (`Look`, `Where`, `Move`), then reads on (`InRange`, `Take`),
then asks the thread (`Ask`, `Answered`), which serves it in five steps
(`SeekSteps`). `allocated` counts the buffers ever made: if fewer exist, one was lost.

### LoopBuffer and CacheFile

`rp`, `wp`, `pos` and `valid_data_size` are the fields of `url_lpbuf_t`; a cell of
`buffer` holds the place in the stream its byte comes from, or `HOLE` for a byte that
was stored for another place. `low` is where the source is. A read or a seek by
reading takes several steps (`Take`, `TakeFills`, `TakeEnds`), each fill with what the
source chooses to answer. There are four kinds of source: a file, a stream that cannot be
sought, one that is sought by time (`timed`) and the input of the CMF demuxer (`sliced`),
which is sought to a byte of the slice selected before. What moves the source and what
moves the ring are separate: `SeekSource`, `SeekEnd`, `SeekTime` move both; `AskSize` and a seek that
fails move the source and put it back to `pos`; `SeekSlice` only selects the slice of the
seeks to come, as the protocols behind it do (`file_list2.c:1472`); `Reset` (`url_lpreset`)
empties the ring and counts from 0, and the source stays. So the places the ring counts in need
not be those of the stream: the history variable `places` says whether they are (`own`), are off by
what a reset left (`shifted`), or belong to two places of the source at once (`mixed`).
`SourceRingHolds` claims of the first that the bytes are those of the stream, of the second that
they are those the source has delivered since the reset, in order, and nothing of the third. `Back`, `Forward`, `Room` are the arithmetic of the code,
with pointers as numbers of cells and `Int32` for the count of valid data. The cache
is `cache_map`, `cache_data` (which bytes of the data file are right) and
`last_write_off`; `MarkedPages` and `map_searce_valid_bytes` keep the rounding of the
code. `InputWindow` has three places, the first byte that can be sought, the next, and
the last fetched; the refinement mapping is `ReadPos - Back`, `ReadPos`, `pos`.

## 3. What each run checks

| run | instance | question | states |
|---|---|---|---|
| `message_pool` | 2 slots, 3 cells, 2 clients, 1 player, 2 kinds, 2 arguments | indices and count agree (`RingOK`); one owner per command (`OneOwner`); searches do not pile up (`SearchesBounded`); a command being executed is not rewritten (`HeldIsStable`); the ring is the abstract queue (`ImplementsQueue`); no command waits for ever (`QueuedLeaves`) | 100 000 |
| `thread_pool` | player, sub-thread, its sub-thread; 1 controller with all calls | a running thread is found; no list names a freed one, and only a call for the thread joined meets freed memory; an interrupt can reach all descendants; a request survives the unlocked countdown (`CancelSticks`); a thread that stays cancelled ends (`CancelEndsThread`) | 800 000 |
| `player_seek` | full time 2, queue of 2, 2 commands out of three seeks, loop and program switch, a stop, decoder hangs | the mate runs only inside a wait; a reported seek went to the time last asked for, unless the watchdog or a switch replaced it; no error after a stop | 8 500 000 |
| `player_stop_live` | waits for START, 2 commands, a stop | the mate goes to sleep when told; a stop ends the thread | 60 000 |
| `player_control` | 2 players on 2 pids and 2 thread ids, 2 clients, 2 calls of five kinds | a pid leads to its player while a call is inside, and comes back; no thread runs on a freed player; a stop that succeeds is synchronous; all calls return, unless a join waits for a player that nobody told to stop | 556 000 |
| `loop_buffer` | ring of 5, file of 7, block 2, cache of one page or none, all kinds of source | what can be read and sought is the stream, or after a reset what the source delivered since (`SourceRingHolds`, without a cache); an empty ring has room (`EmptyRingFills`); the ring is the window (`ImplementsWindow`); calls end | 295 000 |
| `http_input` | file of 4, reads of 2, one or two retries of each kind | links are accounted for; no byte is skipped (`OffNotAhead`); a seek goes there (`SeekGoesThere`); calls return | 160 000 |
| `stream_source` | stream of 3, buffers of 2, limits of 1, 2 seeks | the buffers are one stretch of the stream in order (`OrderKept`) and bounded; a seek by the thread is followed by its byte (`SoughtPlace`); calls return | 718 000 |
| `thread_interrupt_lost`, `player_stop_lost`, `player_seek_error`, `loop_buffer_cache` | | violations, section 4 | |

Why the bounds are enough. The ring wraps, fills and overflows with two slots,
and three cells are enough for a full ring with one more command on its way; the
theorems of section 5 have no bound. Three threads are a chain of the two ways a
thread finds its pool. Two commands before and beside a stop let a second
seek meet a first one in every phase, with one of them executed by the mate; two
time points and one beyond the end are the three branches of a seek. Two
players on two pids make a pid come back while a client is still in a call on
the other. A ring of five cells with a reserve of one and two kept for seeking
back wraps at both pointers, fills, and is read empty; `IntMax` = 6 is less than the file, so
that the count of valid data wraps while the file is read. A file of four bytes with reads of two has a place
at the start, one inside, the end, and one beyond the int of `http_seek`; one retry
of each kind lets each loop run on and run out. Three bytes in buffers of two are
enough for a buffer that is full and one that is not, for old data beyond the
limit, and for every branch of `streambuf_seek`. `MaxCalls`, `MaxSends` and
`MaxSeeks` are the bounds on counters. `SEM_VALUE_MAX` is a constant of the C library, here 2
in the safety runs and 4 in the live one: a mate that is that many posts behind, which only
runs through idle rounds, gets no more, as in the library; and the three posts of the
release are beyond 2, so that the saturation is met. The proofs have it at any value.

`CHECK_DEADLOCK FALSE` stands where the system stops: all threads joined, the
player gone, all players used up, the stream source released.

Fairness. Each is weak fairness of code that runs without waiting, or that waits
with a timeout, except these. `ThreadPool`: strong fairness of
`ExitOnRequest`, since a loop that sleeps and works tests the request in every
round, and only there. `PlayerThread`: strong fairness of
`InterruptedReadFails`: `retry_transfer_wrapper` asks `url_interrupt_cb` in every
wait, and what was buffered before runs out. `PlayerControl`: a thread that was
sent a stop exits, which is `StopEndsThread`. A client is never obliged to make a
call, only to go on with one. `HttpInput`: the server answers, or a timeout of the
code does, and the reader reads on. `LoopBuffer`: strong fairness of `SourceAnswers`,
since a seek by reading asks again after EAGAIN, and a source that is asked again and
again has bytes, an error or the end in time (a network source has a timeout).
`StreamSource`: both threads run; an interrupt is never needed to end a call.

## 4. Where the code does not do what it says

* `thread_interrupt_lost`. A wake stores back the request it read before a
  cancel: the interrupt of a stop is lost (`amthreadpool.c:245`).
* `player_stop_lost`. The mate executes a program switch and then a stop while the
  player thread reads. The switch makes the thread reset instead of end, which
  clears the end, and `player_mate_sleep` undoes the interrupt of the stop with
  its own: the thread plays on, and `player_stop` waits for it with the lock of
  all stops held.
* `player_seek_error`. The error of a seek that the mate interrupted for the
  sake of a newer seek ends the playing, though the comment at the interrupt
  says it is ignored.
* `loop_buffer_cache`. With a cache, a seek leaves the source where it is, and the
  fill seeks it on a miss, but only if its position is greater than 0
  (`aviolpbuf.c:273`). A seek away from the start with the source still at 0 reads the
  first bytes of the stream for those of the place, and writes them to the cache.

Seen while modelling, with no run of its own.

*Threads.* An uncancel is lost to the countdown of `usleep` (`amthreadpool.c:209`), which
then stores a request of 1 or 2; and if it falls between the test and the decrement, -1,
which reads as a request to exit too. A call that has looked a thread up works on freed memory if that
thread is joined before it is through (`amthreadpool.c:266` to `279`), for the lock of the
registry is released by then and the pool is freed without the lock of its list (`309`):
`NoDanglingThread` shows that this is the only way, and that the join of a member of
the pool is safe. `ffmpeg_interrupt_light`, documented as of one thread, is pool-wide
(`player_ffmpeg_ctrl.c:109`). A stop is also lost if the queue overflows behind it, or
if a LOOP is executed after it: the runs that show `StopEndsThread` leave both out.

*Seeks.* A watchdog that meets a search which is flagged and not yet served replaces its time
by the current one plus a second, by none, or by one at the end of the stream
(`player.c:184`, `203`), and leaves `search_flag`: SEARCHOK is then reported for a time nobody asked for, or
with no seek at all (`player_av.c:1692`, `player.c:1671`). A switch of the program that the
mate executes does the same with time 0.

*Calls.* `player_exit` ignores what its stop and its join answer, and frees the player in any
case (`player_ctrl.c:349` to `355`). Two things come of it. If the stop finds no memory for
its command (`258`), the join waits for a thread that nobody told to stop, with the lock of
all exits held: hence `Stuck` in `CallsReturn`. And it joins a thread twice (`349`, `352`), by an
id that the first join gave away: if a new player got it, exit waits for the thread of
that player, whose own stop and exit cannot join it then, and which is freed while it runs.
With three players, two thread ids and five calls of stop and exit, TLC finds
`NoFreedAccess` violated if `secondhand` is not exempted. `audio_set_lrvolume` opens the pid data and never closes them, as do
`player_aid`, `audio_set_playback_rate` and `player_closeCodec` on some ways;
`player_get_media_info` closes data it has not opened (`player_ctrl.c:1031`): the use
count is only good for a warning. `player_start` keeps its pid when it has no memory
(history variable `nomem`). The id of a new thread is stored after the thread runs
(`thread_mgt.c:62`): a command that its state callback sends wakes thread 0.

*Connection.* `http_connect` sets `off` to 0 before it has an answer (`http.c:944`): a
request that is then done again asks for the file from its start, and `http_seek`, which
answers with the place wanted whatever came of it (`http.c:1274`), leaves the link
elsewhere, where `url.h:148` promises the new position. Hence the condition of
`SeekGoesThere` that nothing was done again but redirects. A seek that fails in the end
also answers with its place, with the old `off` restored. While bytes are dropped `off`
stays, and does not count those that come with the last of them, so that a link opened
again at `off` repeats bytes: `OffNotAhead` is an inequality. Nothing sets `keep_alive`:
the list of free links in `tcp_pool.c`, with a search and removal in two steps and a
variable that hides another of its name (`tcp_pool.c:127`), is never used.

*Ring.* After a source seek that failed, `url_lpseek` answers with the place it sought
back to instead of an error (`aviolpbuf.c:493`); a seek by reading that meets the end
answers 0 (`aviolpbuf.c:478`). `url_lpreset` counts from 0 again and leaves the source
(`aviolpbuf.c:628`); after the last slice, where the CMF demuxer resets and reads on
(`cmfdec.c:392`), a seek to a byte that is served by the ring or by reading then lands as far off
as the source was in, and one that fails moves the source under the ring to the `pos` of the
new count, so that the ring holds bytes of two places (`places` = "mixed"). A slice
selected by time (`aviolpbuf.c:606`) leaves the ring: a seek to a byte of the new slice that
the ring can serve gets the byte of the old one. The marks of the cache are made and counted by rounding
(`player_cache_file.c:188`, `282`).

*Read-ahead.* `queue_bufdel` does not move `startpos` (`queue.c:99`): the position that
seeks start from is stale after a buffer was read to its end, and a seek among the
buffers may succeed at the wrong place. A seek back to the first byte of a buffer loses
the buffer (`streambufqueue.c:260`). A seek that failed has rewound the first buffer
(`streambufqueue.c:215`). A request made between the two stores at `thread_read.c:334` is
lost, and the reader waits until it is interrupted. `EAGAIN` is compared without its sign
(`thread_read.c:310`), so it is fatal, and a seek by reading then goes round until it is
interrupted. `source_read` adds an error code to `s_off` (`source.c:72`). A place beyond
2 GB is kept in an `int` (`thread_read.c:153`, `257`), which looks like a failed seek: the
buffers are not reset. `thread_read_release` never releases the source; `retrynum` of
`thread_read_read` is never counted down.

## 5. What is proved

`tlapm` on each of the eight `*Proofs` modules checks the theorems below for all
values of the constants, under the assumption each model names: `PoolAssumption`
(the ring has a slot, NULL is no cell and no command), `ThreadAssumption` (every thread
is made by another or from outside), `PlayerAssumption` (the stream and the queue are not
empty, the bounds are numbers; the stop is the stopper's to send), `ControlAssumption`
(there is a pid, NULL is no player, client or thread id), `HttpAssumption` (the constants
are numbers), `CacheAssumption` and `LoopAssumption` (a block fits the ring, the ring is
larger than its reserve, which is not larger than what is kept for seeking back, and
an int counts the ring), `StreamAssumption` (blocks and reads are not empty). What a
theorem needs beyond that is a hypothesis of its own, and stands in the table.

Every invariant, every action property and both refinements that the passing runs check
are among them.

| theorem | statement | from |
|---|---|---|
| `MessagePoolProofs!TypeCorrect`, `RingCorrect`, `Ownership` | `TypeOK`, `RingOK`, `OneOwner` always hold | `IInv` |
| `MessagePoolProofs!HeldStable` | no step rewrites a command that a thread holds | `IInv` |
| `MessagePoolProofs!SearchesDoNotPileUp` | `SearchesBounded` always holds if the clients are finitely many | `IInv`, `UpdatesSearch` |
| `MessagePoolProofs!Refinement` | the ring implements `CommandQueue` | `IInv`, `UpdatesSearch` |
| `ThreadPoolProofs!TypeCorrect`, `RunningThreadsFound`, `NothingDangles`, `AllSubthreadsReached`, `CancelIsKept` | `TypeOK`, `RunningIsFound`, `NoDanglingThread`, `SubthreadsReached`, `CancelSticks` always hold | `IInv` |
| `PlayerThreadProofs!TypeCorrect`, `MateStaysInside` | `TypeOK`, `MateOnlyInside` always hold | `IInv` |
| `PlayerThreadProofs!SeekToldRightly`, `StoppedWithoutError` | `SearchOkIsCurrent`, `NoErrorAfterStop` | `IInv` |
| `PlayerControlProofs!TypeCorrect`, `PidsStable`, `PidsReturn` | `TypeOK`, `PidStable`, `PidsComeBack` always hold | `PidInv` |
| `PlayerControlProofs!FreedIsUnused`, `StopsAreSynchronous` | `NoFreedAccess` and `StopIsSynchronous` always hold, with pthread ids used again, stops without memory and joins that fail | `ThreadInv` |
| `HttpInputProofs!TypeCorrect`, `LinksAreAccounted`, `OffIsNotAhead` | `TypeOK`, `LinksAccounted`, `OffNotAhead` always hold | `IInv` |
| `HttpInputProofs!SeekAnswersItsPlace` | `SeekGoesThere` | `IInv`, `AsksForTarget` |
| `LoopBufferProofs!TypeCorrect`, `EmptyRingIsFilled`, `SourceRingIsRight` | `TypeOK`, `EmptyRingFills`, `SourceRingHolds` always hold | `IInv` |
| `LoopBufferProofs!RingIsWindow` | the ring implements `InputWindow` | `IInv` |
| `StreamSourceProofs!SeekReadsOnFromItsPlace` | `SoughtPlace` always holds if places fit an int (`FileSize <= IntMax`) | `IInv` |
| `StreamQueueProofs!BuffersAreBounded` | `BuffersBounded` always holds, also of streams beyond an int | `QInv` |
| `StreamQueueProofs!OnlySeeksBackLose` | a buffer leaves all queues only in a seek backward among the buffers, one at a time | `QInv` |
| `StreamQueueProofs!TypeCorrect`, `OrderIsKept` | `TypeOK`, `OrderKept` always hold if places fit an int | `QInv`, `StretchOK`, `AnswersOK` |

**Message pool.** `IInv` is `TypeOK`, `RingOK` and `OneOwner` together; each needs
the others. That the cell a full ring drops is in nobody's hands is `OneOwner`;
that it is the cell under the in-index, which `send_message` overwrites, is
`RingOK`. A lemma for each operation says what it does to the window of queued
commands (`WindowAfter...`), one on top of it what it does to the owners
(`OwnersAfter...`), and the refinement reads the same window lemmas as `Append` and
`Tail` of the abstract queue. The only arithmetic is `RingArithmetic`.

`SearchesDoNotPileUp` counts: a scan that finds no search leaves at most the searches
that other clients have on their way, each client has one on its way at most, and an
append moves one from there into the ring. The count is of a finite set only if the
clients are finitely many, which is its hypothesis.

**Threads.** What a cancel reaches is a question about the chain of creators, and the
code has an answer of one step: the pool stored when a thread starts. `PoolOf` says that
the two agree for each thread, given its creator; `Founded` (in any set of threads that
were made, one was made from outside the set) is what makes it true of the whole chain,
so that `RootIsOwner` holds at any depth. Every part of a join is a step, so the lists
have to be told apart by how far the thread is in its life: `Known` is in the registry, `Listed`
in the list of its pool, `InPool` needs the pool, and `Seen` may have been looked up by a call
(`Registered`, `ListsOK`, `PoolsNamed`, `WalksOK`). A creator joins those it made before
it ends (`ParentsRun`), so the list of a pool that is freed is empty (`PoolEmpty`), and the thread that made a
pool is there as long as a member is (`OwnerThere`). `WalksOK` says what the lock of the list
keeps: what a walk has yet to call is in the list still, hence not freed unless the whole pool
is. `CancelSticks` needs the values under way: a cancel stores 3, `usleep` stores what it tested or
read again less one (`CountsDown`), so only a wake or an uncancel can store 0; and once
the request is 1, `usleep` does not count.

**Player and mate.** `MateOnlyInside` is not inductive: the mate's own steps depend on
four flags and a semaphore. `Handshake` says what they mean: the mark `mate_isrunng` is set
from where the mate wakes to where it sleeps; where the player thread is alone (outside of
the calls, and inside those that do not wake the mate) the mate is away (`MateAway`), that
is, not in a step that touches the flags and either told to sleep or without a post to wake
it; and the mate has been told to sleep before the player thread leaves the wait for
it. `SeekTold` follows a seek from where its time is read to where it is judged. `Current` says
of the flags that a search which is flagged has its own time in `time_point`, unless a
watchdog or a switch has moved it; it holds wherever the player thread is but inside a
seek with an end flagged, which is judged as an end. So the time a seek reads is the one asked for, and if another is
asked for in between an end was flagged with it; the seek that does nothing, at or beyond the end, is none
of a search that is current.
`Later` is the lemma both rest on: what a command or an update may make of the flags. An
end that is flagged stays flagged; another time comes with an end or a switch;
neither SEARCHOK nor EXIT is stored by them. The theorems hold with any commands, any length
of queue and stream, any `SEM_VALUE_MAX`, with and without START, with network and local media, and with a
decoder that hangs or does not.

**Calls.** `PidStable` is not inductive: that a `Release` takes no pid from under
a call depends on who may hold it. `PidInv` adds

* `CallsOK`: the steps of each kind of call, and in which of them it has a player;
* `PidsOwned`: a pid is handed out, or a start or exit has it for itself, which is
  where the rule that `player_exit` is the last call enters (`Begin`);
* `PlayersOwned`: each player is stored under one pid, is not freed while a call
  has it, and is not stored before `player_init_pid_data`.

`ThreadInv` adds `ThreadsOK` (a thread that lives is the bearer of its id, and, unless its id
is second hand, no other allocated player stores that id) and `JoinsOK` (every join that
waits is the only one for its id; after a join that succeeds, or a look at the state, the
thread is over; a player is freed after its thread). `JoinSucceeds` is why a stop is
synchronous whatever the id names by then: a join ends when the thread it found has ended,
and if that is of another player, then the player's own thread no longer bore the id, so
had been joined. `ExitJoinFails` is why exit may ignore its join: a join fails if
the id names no thread, or if another waits for it, which is then a call on a player that
stores the same id, and that is this player (no second hand), which exit has for
itself. Neither needs the stop to have sent its command.

**Connection.** `IInv` adds to `TypeOK` and the two invariants where there is a link (at
"request", never at "redo": `CallsOK`), that while bytes are dropped `off` is where the
dropping will end (`DropsToOff`), and how often `http_open_cnx` can have gone back to
`redo` (`RedoBounded`: the failures it may try again after, the redirects, and one demand
for authorization). The lemmas follow the ways out of `http_open_cnx`, `CnxFails` and
`CnxSucceeds`, which all calls share. `SeekAnswersItsPlace` needs `AsksForTarget`: while a seek has done nothing
again but redirects, `off` is still its target, however many links it has opened.

**Ring.** `IInv` has the bounds of the pointers and of the source (`RingOK`, `SourceOK`),
that without a cache the source is where the ring ends (`SourceFollows`), and `Filled`: the
j-th byte before `wp` is the stream's if it is still to be read or if the count of valid
data says that so many came. The last alternative is what survives the wrap of the
count: a count that has wrapped claims nothing, and one that has come round again
claims bytes that are there. The lemmas are by what an operation does to the ring:
`Store...` (a fill), `Move...` (a read or a seek inside), `Restart...`. Each proves the step of
`InputWindow` beside the invariant (`WindowStep`).

**Read-ahead.** `SoughtPlace` alone is not inductive: the thread sets the answer while the
reader waits. `IInv` follows the place of the source through the steps of the thread:
sought (`SoughtOK`), the queues empty, answered; from then on the thread may push
buffers, but serves no other seek (`Quiet`), since the reader, which waits, has asked
for none.

`StreamQueueProofs` is about what the buffers are, with an invariant of its own. `StoreOK` counts
them: the two queues, the free list and the thread's hand never exceed the limits, since a
buffer is made only where neither queue is beyond its own; and each buffer starts at its
first byte but the first of the new data (`Starts`). `StretchOK` says that, as long as as
many buffers exist as were made, each ends where the next begins and the last ends where
the thread reads on (`ThreadAt`). The two queues are treated as one, place by place (`Nth`): a seek among
the buffers only moves the border between them, or loses a buffer (`Moved`,
`ForwardMoves`, `BackwardMoves`), and nothing brings a lost buffer back, so a stretch that
was given up is never claimed again. How many buffers a seek
passes depends on `DataSize`, which the model defines by recursion on the queue:
`DataSizeBounds` is proved by the least place where it would fail (`LeastElement`).

Only model-checked are the liveness properties: `QueuedLeaves`, `CancelEndsThread`,
`SleepEnds`, `StopEndsThread`, `CallsEnd` and the three of the name `CallsReturn`. TLAPS
proves neither liveness under fairness nor ENABLED. What a recursive definition computes
is proved only where a least counterexample is enough, as for `DataSize`; no module that is
proved about, or that one extends, declares a RECURSIVE operator.

## 6. What is not modelled

* *Message pool*: `cmd2str` and the callbacks, which keep no state.
* *Thread pool*: failing creations; pthread ids used again; what a call that uses freed
  memory does beside returning or hanging, and the item of a list that a lookup reads
  after it released the lock (`amthreadpool.c:57`); the sleep on the monotonic clock, which counts
  the request down in the same way (on aarch64 it is a plain `usleep`); the dump.
* *Player thread*: fast forward and backward, live streams, buffering states,
  switching of audio and subtitle streams, and the hardware. They set more flags
  of `playctrl_info` in the same places; the protocol between the two threads is
  that of the commands modelled. Where a demuxer lands that was sought to a time. The end of a stream is an event, not a comparison
  of clocks.
* *Player control*: `player_list_pid`, which reads the pool without its lock; the
  `ffmpeg_uninterrupt` after a join (`player_ctrl.c:256`, `354`), which goes by the stored id
  and may meet the thread of another player; clients that call after `player_exit`;
  global settings; calls that a client makes from the state callback.
* *HTTP connection*: chunked and compressed bodies, posting, cookies, proxies, live
  mode, `ff_http_do_new_request`. Bytes that came with the headers are taken as read from
  the link.
* *TCP link pool*: the list of free links, which is not reachable.
* *Loop buffer*: a reset by a client thread while the player reads (`hls_select_stream`, which
  comes to `ffmpeg_hls_demuxer.c:800`; `url_lpreset` takes no lock); `url_lpopen` on a source that is
  open (`aviobuf.c:1071`: both callers of `ffio_fdopen_resetlpbuf` ask for no new ring);
  questions for times (`AVSEEK_FULLTIME`, `AVSEEK_BUFFERED_TIME`, `AVSEEK_ITEM_TIME`), which only
  ask the source; seek flags, which change only the
  longest seek by reading; allocation failures. *Cache file*: the directory of caches
  and its eviction, and failures of its files.
* *Stream source*: SEEK_CUR, SEEK_END and seeks by time, allocation failures, the size
  of blocks, which follows the average read; `ffmpegsource.c`, which after probing
  answers 7 bytes less than it hands out.
* *Components without a module*: see `PROJECT.json`; codec devices, subtitles,
  hardware settings and format modules are ioctl or parsing without interaction;
  FFmpeg proper, and what else is vendored, is not this project's code.

## 7. Plan

What is left, in the order of what it would tell:

1. `AudioDecoder` (`amadec/`): its message loop and the PCM ring; the pool of messages
   against `CommandQueue` with its own drop policy (`adec-message.c:99` waits for room
   outside the lock).
2. `Hls` (`libvhls`): download worker, seek and close; then a seek by time of
   `LoopBuffer` against it, where `priv_info` is now any distance in the ring.
3. `Buffering` (`player_update.c`): the buffering states beside the player states, with
   their thresholds, composed with `PlayerThread`.
4. The cache directory (`player_cache_mgt.c`): eviction beside an open cache.

Proofs, in this order:

1. The safety facts that the liveness properties rest on, which TLC sees only through them:
   in `PlayerThread`, that an interrupt of a stop is pending as long as the thread is inside
   a call, unless the mate's own has undone it; in `StreamSource`, that a reader which waits
   has a request that the thread has not yet served, or an answer, but for the window of
   `thread_read.c:334`.
2. `HttpInput`: that the bytes read after a seek are those of the place, as long as nothing
   is done again.
3. `LoopBuffer` with a cache: which of the marked pages hold the stream's bytes where no seek
   leaves the source at 0.
