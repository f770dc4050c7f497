SPECIFICATION Spec
CONSTANTS
  Elem = {e1, e2, e3, e4, e5, e6}
  NULL = NULL
  JUNK = JUNK
  ListKeys = {1, 2}
  MaxNodes = 4
  MaxSecond = 2
  max = 3
  FIRST_ID = 1
  SECOND_ID = 4
  Ids = {1, 2, 3, 4, 5, 6}
  TypedIds = {1, 2, 3}
  Names = {1, 2}
  RandomRecords = 2
  INITIAL_NUM_BUCKETS = 2
  BKT_CAPACITY_THRESH = 3
  BLOOM_BITS = 2
  HashFunctions <- SomeHashFunctions
  FirstSlots = 1
  Strings = {1, 2}
  MaxItems = 3
  WORD = 1073741824
  InitReserve = 2
  Pieces <- ShortTexts
  Chars = {1, 2}
  MaxText = 5
  MaxNeedle = 3
INVARIANTS
  ListsFaithful
  ListBuildsAgree
  FindsExactly
  TableSound
  ChainsBounded
  ArrayFaithful
  RingFaithful
  TextTerminated
  SubstringFound
\* The menu is left, the benchmark ends.
CHECK_DEADLOCK FALSE
