SPECIFICATION Spec
CONSTANTS
  None = None
  Index = {nifty50}
  Side = {CE, PE}
  Premium = {2}
  Slippage = {1}
  Capital = 3
  MaxConcurrent = 1
  PoolSize = 2
  MaxSignals = 2
  MaxFaults = 0
INVARIANT PositionSoldOnce
