SPECIFICATION Spec
CONSTANTS
  Sessions = {A, B}
  NULL = NULL
  MaxConv = 4
  OldConvs = 2
  MaxMoves = 0
  AutoCompact = FALSE
  StopHook = {TRUE, FALSE}
SYMMETRY AnySessions
INVARIANT DeferralHolds
PROPERTIES FinalizedBySuccessor SuccessorIsLatest
CHECK_DEADLOCK FALSE
