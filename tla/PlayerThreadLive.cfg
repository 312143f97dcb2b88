SPECIFICATION FairSpec
CONSTANTS
  QueueMax = 3
  FullTime = 1
  Sendable <- StartOrPause
  MaxSends = 2
  SEM_VALUE_MAX = 4
  Hangs = FALSE
  NeedStart = TRUE
  Network = TRUE
PROPERTIES SleepEnds StopEndsThread
CHECK_DEADLOCK FALSE
