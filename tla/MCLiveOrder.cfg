SPECIFICATION FairSpec
CONSTANTS
  Qty = 2
  MaxSells = 3
  MaxForeign = 2
  MaxFailures = 2
CHECK_DEADLOCK FALSE
INVARIANTS
  TypeOK
  NeverShort
  HeldQuantityTrue
PROPERTIES
  EntryDecided
