\* Registry refresh, detection-lost compensation and the moving-time check.
CONSTANTS
  a = a
  b = b
  Ids <- MCIds
  Positions <- MCPositions
  Clearances = {0}
  FilterResults <- MCFilterResults
  Speeds = {FALSE, TRUE}
  StopFarValues = {FALSE}
  SafetyMargin = 1
  ExpandedMargin = 2
  MovingTimeThreshold = 1
  LostThreshold = 1
  ReliablePolicy = FALSE
  LaneletValues = {TRUE, FALSE}
  MaxRegistered = 3
SPECIFICATION Spec
INVARIANTS
  MovingClassification
  GhostTargetsFresh
