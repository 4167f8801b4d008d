SPECIFICATION SessionSpec
CONSTANTS
  l1 = l1
  l2 = l2
  Layers <- MCLayers
  Warmups = 2
  Measured = 2
  MaxTokens = 3
  MaxStrays = 2
INVARIANTS
  AcceptedCoverage
  CheckerAgrees
  Released
