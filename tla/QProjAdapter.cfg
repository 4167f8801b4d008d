SPECIFICATION FairSpec
CONSTANTS
  t1 = t1
  t2 = t2
  t3 = t3
  None = None
  Threads <- MCThreads3
  MaxCalls <- MCCalls
  Interrupts = TRUE
INVARIANTS
  CountersHonest
PROPERTIES
  Implements
  CallsReturn
