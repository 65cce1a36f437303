SPECIFICATION Spec
CONSTANTS
  Sessions = {A, B}
  NULL = NULL
  MaxConv = 3
  OldConvs = 1
  MaxMoves = 1
  AutoCompact = FALSE
  StopHook = {TRUE, FALSE}
SYMMETRY AnySessions
INVARIANTS TypeOK OneStage RespawnHasItsRequest UnreadNoticeDefers NoRolloverLoop
PROPERTY RolloverIsOrderly
CHECK_DEADLOCK FALSE
