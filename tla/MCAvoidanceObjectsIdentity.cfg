\* Two objects in the same cell, one of them flickering out of detection.
CONSTANTS
  a = a
  b = b
  Ids <- MCIds
  Positions = {0}
  Clearances = {0}
  FilterResults = {"target"}
  Speeds = {FALSE}
  StopFarValues = {FALSE}
  SafetyMargin = 1
  ExpandedMargin = 2
  MovingTimeThreshold = 1
  LostThreshold = 1
  ReliablePolicy = FALSE
  LaneletValues = {TRUE}
  MaxRegistered = 3
SPECIFICATION Spec
INVARIANTS
  RegistryKeyedByIdentity
