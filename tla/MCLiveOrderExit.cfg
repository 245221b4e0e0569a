SPECIFICATION FairSpec
CONSTANTS
  Qty = 1
  MaxSells = 1
  MaxForeign = 0
  MaxFailures = 0
CHECK_DEADLOCK FALSE
PROPERTIES
  ExitCompletes
