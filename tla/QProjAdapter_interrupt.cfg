SPECIFICATION FairSpec
CONSTANTS
  t1 = t1
  t2 = t2
  t3 = t3
  None = None
  Threads <- MCThreads2
  MaxCalls <- MCCallsEach
  Interrupts = TRUE
PROPERTIES
  CloseReturns
