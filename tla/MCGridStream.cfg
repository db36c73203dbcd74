SPECIFICATION FairSpec
CONSTANTS
  Size = 8
  chunkSize = 3
  Counts = {0, 1, 2, 4, 7}
  MaxSeeks = 3
PROPERTIES
  IsByteStream
  ReaderFinishes
CHECK_DEADLOCK FALSE
