SPECIFICATION Spec
CONSTANTS
  strike_step = 2
  window = 1
  basket_range = 1
  Index = {"nifty50", "banknifty"}
  Triggers <- MCTriggers
  Spots <- MCSpots
  Listing <- MCListing
  MaxPending = 1
  Batch = 2
  MaxDay = 2
  MaxReports = 3
  Bounds <- MCBounds
INVARIANTS TypeOK FreshDay ReportsInOrder
PROPERTIES ReportsDelivered KillSwitchSeen
CHECK_DEADLOCK FALSE
