SPECIFICATION Spec
CONSTANTS
  p1 = p1
  p2 = p2
  t1 = t1
  a1 = a1
  a2 = a2
  None = None
  Profilers = {p1, p2}
  Foreign = {t1}
  Adapters = {a1, a2}
  Paths <- MCPaths
  MaxForwards = 1
  MaxCloses = 1
INVARIANTS
  PutBack
  OneProfile
  TraceIsWhole
CHECK_DEADLOCK FALSE
