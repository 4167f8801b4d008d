SPECIFICATION Spec
CONSTANTS
  p1 = p1
  p2 = p2
  p3 = p3
  None = None
  Foreign = Foreign
  Vacant = Vacant
  Publishers <- MCPublishers
  Pieces = 2
  MaxOutside = 2
SYMMETRY MCSymmetry
INVARIANTS
  NothingTorn
  OkIsDurable
  FailureWithdraws
PROPERTIES
  BundlesKeepOthers
CHECK_DEADLOCK FALSE
