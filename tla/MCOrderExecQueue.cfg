SPECIFICATION FairSpec
CONSTANTS
  None = None
  Index = {nifty50}
  Side = {CE, PE}
  Premium = {2}
  Slippage = {1}
  Capital = 3
  MaxConcurrent = 1
  PoolSize = 1
  MaxSignals = 3
  MaxFaults = 0
PROPERTIES
  SignalsSettle
