SPECIFICATION MeasurementSpec
CONSTANTS
  Layers = {l1, l2}
  NumCases = 2
  NumMeasured = 1
  MaxOutside = 2
  l1 = l1
  l2 = l2
INVARIANTS
  AcceptedComplete
  GivenBack
SYMMETRY Symmetry
CHECK_DEADLOCK FALSE
