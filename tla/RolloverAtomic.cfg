SPECIFICATION Spec
CONSTANTS
  Sessions = {A, B}
  NULL = NULL
  MaxConv = 3
  OldConvs = 1
  MaxMoves = 0
  AutoCompact = FALSE
  StopHook = {TRUE, FALSE}
INVARIANT PredecessorResumable
CHECK_DEADLOCK FALSE
