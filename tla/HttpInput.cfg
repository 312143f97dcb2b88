SPECIFICATION FairSpec
CONSTANTS
  FileSize = 4
  BodySize = 1
  MaxRead = 2
  OPEN_RETRY_MAX = 1
  MAX_REDIRECTS = 1
  READ_RETRY_MAX = 1
  READ_SEEK_TIMES = 2
  retry_times = 2
  Near = 1
  Tail = 1
  IntMax = 2
INVARIANTS TypeOK LinksAccounted OffNotAhead
PROPERTIES SeekGoesThere CallsReturn
