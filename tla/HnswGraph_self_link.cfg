SPECIFICATION HnswSpec
CONSTRAINT MCFewChanges
CONSTANTS
  Placements <- MCPlacements
  SparePoints = {11}
  Adders = {1, 2}
  BatchSizes = {2}
  Links = 2
  EfConstruction = 2
  TopLevel = 1
  MaxDeletes = 2
  MaxHnswUpdates = 1
  MaxReloads = 1
CHECK_DEADLOCK FALSE
INVARIANT NeverLinksItself
