SPECIFICATION FairSpec
CONSTANTS
  t1 = t1
  t2 = t2
  t3 = t3
  h1 = h1
  h2 = h2
  p1 = p1
  p2 = p2
  p3 = p3
  p4 = p4
  none = none
  Threads <- MCThreads3
  Handles <- MCHandles2
  Packs <- MCPacks
  PackBytes <- MCPackBytes
  MaxLiveEntries = 2
  MaxAggregateBytes = 4
  NoThread = none
  NoPack = none
  NoHandle = none
INVARIANTS
  QuotaRespected
  AccountingExact
PROPERTIES
  Implements
  QuotaReturns
