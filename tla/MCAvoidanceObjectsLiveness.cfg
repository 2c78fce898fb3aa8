\* A lost object eventually leaves the targets, under the planner timer.
CONSTANTS
  a = a
  b = b
  Ids <- MCIds
  Positions <- MCPositions
  Clearances = {0}
  FilterResults <- MCFilterResults
  Speeds = {FALSE}
  StopFarValues = {FALSE}
  SafetyMargin = 1
  ExpandedMargin = 2
  MovingTimeThreshold = 1
  LostThreshold = 2
  ReliablePolicy = FALSE
  LaneletValues = {TRUE, FALSE}
  MaxRegistered = 3
SPECIFICATION Spec
PROPERTIES
  LostTargetsDropped
