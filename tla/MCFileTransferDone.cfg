SPECIFICATION FairSpec
CONSTANTS
  FileSizes <- Sizes
  CHUNK = 5
  RX = 2
  END_BYTES = 11
  Headers <- ClientHeader
  MAX_SIZE = 8
  MAX_OPEN = 2
  MaxRuns = 1
PROPERTY
  ServerClosesWhenDone
CHECK_DEADLOCK FALSE
