SPECIFICATION Spec
CONSTANTS
  Limit = 1
  MaxPieces = 2
  Baseline = 2
  MaxCommits = 3
  MaxOutside = 2
  Nothing = Nothing
  Junk = Junk
  Played = {1}
INVARIANTS
  ResultWhole
  NothingLeft
  Evidence
  ChecksAsRecorded
  SnapshotWasThere
PROPERTIES
  CaptureEnds
CHECK_DEADLOCK FALSE
