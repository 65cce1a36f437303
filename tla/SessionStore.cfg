SPECIFICATION Spec
CONSTANTS
  Calls = {c1, c2, c3, c4}
  Sessions = {1}
  Names = {n1}
  STATIC = STATIC
  NULL = NULL
SYMMETRY AnyCall
INVARIANTS TypeOK UpdatesSurvive RaisesAfterDeletion LocksAreInUse
PROPERTY SavesAddOneChange
CHECK_DEADLOCK FALSE
