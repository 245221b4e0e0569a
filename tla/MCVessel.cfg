SPECIFICATION Spec
CONSTANTS
  Cfg <- MCCfg
  Strike <- MCStrike
  Listed <- MCListed
  Book <- MCBook
  Moves <- MCMoves
  Spots <- MCSpots
  OpenSpot = 2
  FirstTs = 1
  StrikeStep = 2
  BasketSize = 0
  Hysteresis = 1
  Cooldown = 1
  Window = 1
  MaxNow = 3
  MaxPos = 2
  Bounds <- MCBounds
INVARIANTS TypeOK SignalsOnce LostSignalsBounded
PROPERTIES PositionAdopted CooldownEnds LosingLegExited
CHECK_DEADLOCK FALSE
