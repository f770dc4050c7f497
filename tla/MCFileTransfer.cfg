SPECIFICATION FairSpec
CONSTANTS
  FileSizes <- Sizes
  CHUNK = 5
  RX = 2
  END_BYTES = 11
  Headers <- SomeHeaders
  MAX_SIZE = 8
  MAX_OPEN = 2
  MaxRuns = 3
INVARIANTS
  EveryFrameExpected
  ContentAccounted
PROPERTY
  TransferCompletes
\* The last client may have exited or lost its connection.
CHECK_DEADLOCK FALSE
