SPECIFICATION ProgSpec
CONSTANTS
  Multi = {"m0", "m1"}
  Addrs = {a1, a2}
  NULL = NULL
  RATE = 2
  MaxPieces = 4
  FIB_UNTIL = 4
  NSIGNALS = 3
INVARIANTS
  SlotsExact
  EchoedInOrder
  SignalsCounted
PROPERTIES
  Reconnects
  EchoSettles
  LastProgressShown
\* The client, the tty client and the signal test end.
CHECK_DEADLOCK FALSE
