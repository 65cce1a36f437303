SPECIFICATION FairSpec
CONSTANTS
  A = A
  B = B
  Sessions = {A, B}
  NULL = NULL
  MaxConv = 5
  MaxWire = 3
  MaxMoves = 3
PROPERTY RegisteredIsSwapped
CHECK_DEADLOCK FALSE
