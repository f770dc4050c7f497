SPECIFICATION FairSpec
CONSTANTS
  count_threads = 2
  Wsis = {w1, w2}
  close_testing = TRUE
  CLOSE_AT = 2
  MaxNumber = 2
  MaxConns = 4
INVARIANTS
  ListStableUnderWalk
  NothingUsedAfterFree
PROPERTY
  CleanExit
\* The process ends.
CHECK_DEADLOCK FALSE
