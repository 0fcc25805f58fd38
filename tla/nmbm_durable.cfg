SPECIFICATION PSpec
CONSTANTS
  NB = 10
  MgmtStart = 2
  Spare = 2
  Values = {v}
  v = v
  FactoryBad <- NoneBad
  WearBlocks <- DataWear
  MaxFaults = 1
  MaxCrashes = 2
  MaxWc = 2
  Create = FALSE
INVARIANT
  SurvivesPanic
PROPERTY
  ImplementsDisk
