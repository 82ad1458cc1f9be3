CONSTANTS
  Node = {n1, n2, n3, n4}
  Limit = 2
  None = None

SYMMETRY MCSymmetry
SPECIFICATION Spec
CHECK_DEADLOCK FALSE
INVARIANT WidthCap
INVARIANT OpenMeansLive
PROPERTY Implements
