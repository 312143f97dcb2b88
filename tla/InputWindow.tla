----------------------------- MODULE InputWindow -----------------------------
(* What LoopBuffer is to its reader: a window on the stream, from the first byte
   that can still be sought to the last one fetched, with the next one to read
   in between.  Fetching never takes a byte not yet read out of the window nor
   moves the reader; the reader moves inside the window; else all starts anew. *)
EXTENDS Integers

VARIABLES first, next, last
window == <<first, next, last>>

Init == first = 0 /\ next = 0 /\ last = 0

Fetch ==
  /\ last' > last
  /\ next' = next
  /\ first' \in first .. next

Move ==
  /\ next' \in first .. last
  /\ first' \in first .. next'
  /\ last' = last

StartAnew ==
  /\ last' \in Nat
  /\ first' = last' /\ next' = last'

Next == Fetch \/ Move \/ StartAnew

Spec == Init /\ [][Next]_window
=============================================================================
