SPECIFICATION MCSpec
CONSTANTS
  max_poll_elements = 3
  Events = {1, 2}
INVARIANTS
  TableFaithful
  RoomForEveryFd
PROPERTIES
  ServicedOncePerPoll
  Implements
  NoneStarves
\* After lws_context_destroy() nothing more happens.
CHECK_DEADLOCK FALSE
