SPECIFICATION Spec
CONSTANTS
  Option = {"a", "b"}
  Spot = "spot"
  Unknown = "unknown"
  Vessel = {v1, v2}
  Basket <- MCBasket
  QueueSize = 1
  MaxFrames = 3
  MaxShifts = 4
  Bounds <- MCBounds
INVARIANTS TypeOK FramesInOrder RouterConverged
PROPERTY TickReachesVessel
CHECK_DEADLOCK FALSE
