SPECIFICATION FairSpec
CONSTANTS
  PageSize = 2
  CacheSize = 2
  Caches = {FALSE, TRUE}
  Kinds = {"file", "stream", "timed", "sliced"}
  Size = 5
  Reserve = 1
  BackReserve = 2
  Block = 2
  Slack = 1
  BackMax = 2
  MaxReadSeek = 4
  FileSize = 7
  Times = {20}
  MaxRead = 2
  IntMax = 6
INVARIANTS TypeOK SourceRingHolds EmptyRingFills
PROPERTIES ImplementsWindow CallsEnd
