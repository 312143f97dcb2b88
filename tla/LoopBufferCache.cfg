SPECIFICATION Spec
CONSTANTS
  PageSize = 2
  CacheSize = 4
  Caches = {TRUE}
  Kinds = {"file"}
  Size = 5
  Reserve = 1
  BackReserve = 2
  Block = 2
  Slack = 1
  BackMax = 2
  MaxReadSeek = 4
  FileSize = 7
  Times = {20}
  MaxRead = 2
  IntMax = 7
INVARIANTS RingHoldsStream
