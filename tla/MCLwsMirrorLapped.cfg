SPECIFICATION Spec
CONSTANTS
  Sessions = {s1, s2}
  MAX_MESSAGE_QUEUE = 4
  AllowGap = 3
  MaxPackets = 9
INVARIANT
  EveryPacketMirrored
CHECK_DEADLOCK FALSE
