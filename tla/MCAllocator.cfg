SPECIFICATION FairSpec
CONSTANTS
  Worker = {w1, w2}
  NoIndex = NoIndex
  Index = {nifty50, banknifty, sensex}
  Premium = {1, 3}
  Capital = 5
  MaxConcurrent = 2
INVARIANTS
  TypeOK
  CapsRespected
  LedgerMatchesHolders
  DeployedMatchesHolders
  WatchedReadsFresh
PROPERTIES
  ImplementsAllocatorSpec
  SomeCallReturns
