SPECIFICATION Spec
CONSTANTS
  NB = 10
  MgmtStart = 2
  Spare = 2
  Values = {v}
  v = v
  FactoryBad <- SomeBad
  WearBlocks <- DataWear
  MaxFaults = 2
  MaxCrashes = 0
  MaxWc = 3
  Create = TRUE
INVARIANT
  MapsUnused
