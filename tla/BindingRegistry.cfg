SPECIFICATION FairSpec
CONSTANTS
  t1 = t1
  t2 = t2
  b1 = b1
  b2 = b2
  None = None
  Threads <- MCThreads2
  Bindings <- MCBindings2
  MaxCalls = 2
INVARIANTS
  OwnershipAgrees
PROPERTIES
  CloseConverges
  CallsReturn
