SPECIFICATION FairSpec
CONSTANTS
  Sessions = {A, B}
  NULL = NULL
  MaxConv = 2
  OldConvs = 1
  MaxMoves = 0
  AutoCompact = TRUE
  StopHook = {TRUE}
PROPERTY RolloverEnds
CHECK_DEADLOCK FALSE
