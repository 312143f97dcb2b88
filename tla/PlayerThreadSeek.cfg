SPECIFICATION Spec
CONSTANTS
  QueueMax = 3
  FullTime = 2
  Sendable <- OnlySeeks
  MaxSends = 2
  SEM_VALUE_MAX = 2
  Hangs = FALSE
  NeedStart = FALSE
  Network = TRUE
PROPERTIES InterruptedSeekIgnored
CHECK_DEADLOCK FALSE
