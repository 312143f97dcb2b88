SPECIFICATION Spec
CONSTANTS
  QueueMax = 2
  FullTime = 2
  Sendable <- SeekOrLoop
  MaxSends = 2
  SEM_VALUE_MAX = 2
  Hangs = TRUE
  NeedStart = FALSE
  Network = TRUE
INVARIANTS TypeOK MateOnlyInside
PROPERTIES SearchOkIsCurrent NoErrorAfterStop
CHECK_DEADLOCK FALSE
