SPECIFICATION Spec
CONSTANTS
  N = 4
  MaxCalls = 2
  MaxTouches = 1
  MaxOutside = 2
INVARIANTS
  RejectedIsClean
  AssetsArePinned
  ModesAgreeUnlessInterrupted
  RestoredForGood
CHECK_DEADLOCK FALSE
