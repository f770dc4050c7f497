SPECIFICATION FairSpec
CONSTANTS
  Sessions = {s1, s2}
  MAX_MESSAGE_QUEUE = 8
  AllowGap = 5
  MaxPackets = 12
PROPERTIES
  ThrottleReleased
  EveryPacketArrives
\* After PROTOCOL_DESTROY nothing more happens.
CHECK_DEADLOCK FALSE
