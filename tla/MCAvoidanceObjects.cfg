\* Hysteresis of the avoidance necessity and the stoppable judgement.
CONSTANTS
  a = a
  b = b
  Ids <- MCIds
  Positions = {0}
  Clearances <- MCClearances
  FilterResults = {"target", "ignored"}
  Speeds = {FALSE}
  StopFarValues = {FALSE, TRUE}
  SafetyMargin = 1
  ExpandedMargin = 2
  MovingTimeThreshold = 1
  LostThreshold = 1
  ReliablePolicy = FALSE
  LaneletValues = {TRUE, FALSE}
  MaxRegistered = 3
SPECIFICATION Spec
INVARIANTS
  TypeOK
PROPERTIES
  HysteresisKept
  StoppableLatch
