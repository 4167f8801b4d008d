SPECIFICATION Spec
CONSTANTS
  Commits = {r1, r2}
  Tools = {t1, t2}
  MaxCaptures = 2
  MaxOutside = 3
  MaxLater = 1
  Unknown = Unknown
  Pids = {p1, p2, p3}
  MaxSessions = 3
INVARIANTS
  FailureLeavesNothing
  SessionStoodClean
  BundleCoherent
PROPERTIES
  ReceiptIsTrue
  VerifiedAsItStands
SYMMETRY Symmetry
CHECK_DEADLOCK FALSE
