SPECIFICATION FairSpec
CONSTANTS
  FileSize = 3
  Block = 2
  ReadSize = 2
  NEWDATA_MAX = 1
  OLDDATA_MAX = 1
  Few = 0
  max_read_seek_len = 1
  IntMax = 8
  MaxSeeks = 2
INVARIANTS TypeOK OrderKept BuffersBounded SoughtPlace
PROPERTIES CallsReturn
CHECK_DEADLOCK FALSE
