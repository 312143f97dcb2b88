SPECIFICATION FairSpec
CONSTANTS
  player = player
  sub = sub
  subsub = subsub
  Outside = Outside
  NoCall = NoCall
  Threads <- Chain
  Parent <- ParentOf
  Controllers = {c1}
  Calls <- RequestCalls
INVARIANTS TypeOK CancelSticks RunningIsFound NoDanglingThread SubthreadsReached
PROPERTIES CancelEndsThread
CHECK_DEADLOCK FALSE
