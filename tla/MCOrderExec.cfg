SPECIFICATION Spec
CONSTANTS
  None = None
  Index = {nifty50, banknifty}
  Side = {CE, PE}
  Premium = {1, 2}
  Slippage = {1}
  Capital = 3
  MaxConcurrent = 2
  PoolSize = 2
  MaxSignals = 2
  MaxFaults = 1
SYMMETRY Symmetry
INVARIANTS
  TypeOK
  LedgerCountsHeld
  BookConsistent
  SettledMeansFlat
  OneUnsoldPerIndex
  ClosedOnlyAfterSale
PROPERTIES
  CurrentNotOverwritten
