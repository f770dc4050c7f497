SPECIFICATION FairSpec
CONSTANTS
  Sessions = {s1, s2, s3}
  NULL = NULL
  MaxConns = 3
INVARIANTS
  UntouchedWalkExact
  RestingIsInformed
PROPERTY
  EventuallyInformed
\* The last of the connections may have closed.
CHECK_DEADLOCK FALSE
