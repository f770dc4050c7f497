SPECIFICATION Spec
CONSTANTS
  Sessions = {s1, s2, s3}
  MAX_MESSAGE_QUEUE = 4
  AllowGap = 3
  MaxPackets = 9
SYMMETRY Symmetry
INVARIANTS
  NoLostWakeup
  BacklogIsNewest
  PayloadOwnership
PROPERTY
  DeliveredInOrder
\* After PROTOCOL_DESTROY nothing more happens.
CHECK_DEADLOCK FALSE
