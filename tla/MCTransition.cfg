SPECIFICATION Spec
CONSTANTS
  A = A
  B = B
  Sessions = {A, B}
  NULL = NULL
  MaxConv = 3
  MaxWire = 3
  MaxMoves = 4
SYMMETRY AnySession
INVARIANTS TypeOK MirrorIsPendingTarget BootFindsNoHandoff PointerAgreement
PROPERTY UndoConsumedByBackOnly
CHECK_DEADLOCK FALSE
