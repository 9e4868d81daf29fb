CONSTANTS
  c1 = c1
  c2 = c2
  t1 = t1
  t2 = t2
  w1 = w1
  w2 = w2
  NoTarget = NoTarget
  Creates <- MCCreates
  Taps <- MCTaps
  Shows <- MCShows
SYMMETRY MCSymmetry
CHECK_DEADLOCK FALSE
SPECIFICATION Spec
PROPERTY RemovedIsDeleted
