SPECIFICATION Spec
CONSTANTS
  Sessions = {s1, s2, s3}
  NULL = NULL
  MaxConns = 4
INVARIANT
  ReportsParse
SYMMETRY Symmetry
CHECK_DEADLOCK FALSE
