SPECIFICATION FairSpec
CONSTANTS
  MaxPids = 2
  Players = {p1, p2}
  Tids = {t1, t2}
  Clients = {c1, c2}
  Ops = {"async", "lrvolume", "info", "stop", "exit"}
  MaxCalls = 2
  NULL = NULL
INVARIANTS TypeOK PidStable PidsComeBack NoFreedAccess
PROPERTIES StopIsSynchronous CallsReturn
CHECK_DEADLOCK FALSE
