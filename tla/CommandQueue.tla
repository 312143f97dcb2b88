---------------------------- MODULE CommandQueue ----------------------------
(***************************************************************************)
(* What the message pool of a player promises: a bounded queue of commands *)
(* that its clients post and its player takes in the order of posting.  A  *)
(* full queue makes room by dropping its oldest command, and a new search  *)
(* may take the place of the oldest search still queued.                   *)
(*                                                                         *)
(* MessagePool.tla is shown to implement this specification.               *)
(***************************************************************************)
EXTENDS Integers, Sequences

CONSTANTS
  QueueMax,     \* how many commands are kept (MESSAGE_MAX)
  Kinds,        \* the values of ctrl_cmd
  Args,         \* the parameters that tell two commands of a kind apart
  SEARCH        \* the kind that coalesces (CMD_SEARCH)

VARIABLE queue

Commands == [kind : Kinds, arg : Args]

TypeOK == queue \in Seq(Commands) /\ Len(queue) <= QueueMax

Init == queue = << >>

(* A command is queued behind all others; the oldest one goes if it must. *)
Post(c) == queue' = IF Len(queue) < QueueMax
                    THEN Append(queue, c)
                    ELSE Append(Tail(queue), c)

(* The oldest queued search is overwritten where it stands. *)
Coalesce(c) ==
  /\ c.kind = SEARCH
  /\ \E i \in 1..Len(queue) :
       /\ queue[i].kind = SEARCH
       /\ \A j \in 1..(i - 1) : queue[j].kind # SEARCH
       /\ queue' = [queue EXCEPT ![i] = c]

Take == queue # << >> /\ queue' = Tail(queue)

Next == Take \/ \E c \in Commands : Post(c) \/ Coalesce(c)

Spec == Init /\ [][Next]_queue
=============================================================================
