SPECIFICATION CallSpec
CONSTANTS
  Top = 8
  HandleValues = {1, 2}
  ZeroHandle = 0
  K = 1
  N = 2
  MaxManifestBytes = 1
  MaxPayloadBytes = 2
  MaxVectorBytes = 4
  MaxErrorBytes = 3
  MaxCount = 5
INVARIANTS
  WritesStayInside
  RunAllOrNothing
  AnswersWhole
