SPECIFICATION Spec
CONSTANTS
  Sessions = {A, B}
  NULL = NULL
  MaxConv = 3
  OldConvs = 1
  MaxMoves = 1
  AutoCompact = FALSE
  StopHook = {TRUE, FALSE}
INVARIANT RequestIsComing
CHECK_DEADLOCK FALSE
