SPECIFICATION Spec
CONSTANTS
  a = a
  b = b
  A = A
  B = B
  NULL = NULL
  Wrappers = {w1}
  Sessions = {A, B}
  Convs = {a, b}
  MaxLog = 4
SYMMETRY Renamings
INVARIANTS TypeOK OneOpenProposal AnswersArePaired IgnoredStaysIgnored
CHECK_DEADLOCK FALSE
