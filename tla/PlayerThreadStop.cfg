SPECIFICATION FairSpec
CONSTANTS
  QueueMax = 2
  FullTime = 1
  Sendable <- Programs
  MaxSends = 1
  SEM_VALUE_MAX = 2
  Hangs = FALSE
  NeedStart = FALSE
  Network = TRUE
PROPERTIES StopEndsThread
CHECK_DEADLOCK FALSE
