SPECIFICATION Spec
CONSTANTS
  player = player
  sub = sub
  subsub = subsub
  Outside = Outside
  NoCall = NoCall
  Threads <- Pair
  Parent <- ParentOf
  Controllers = {c1, c2}
  Calls <- PlayerCalls
INVARIANTS InterruptHolds
CHECK_DEADLOCK FALSE
