CONSTANTS
  Items <- MCItems
  Lengths <- MCLengths
CHECK_DEADLOCK FALSE
SPECIFICATION Spec
INVARIANTS
  TypeOK
  ResultIsMoved
  ErrorMovesUp
  InRange
