SPECIFICATION Spec
CONSTANTS
  None = None
  Index = {nifty50}
  Side = {CE, PE}
  Premium = {2}
  Slippage = {1}
  Capital = 3
  MaxConcurrent = 1
  PoolSize = 2
  MaxSignals = 1
  MaxFaults = 1
INVARIANT RestartSkipsNoExit
