SPECIFICATION FairSpec
CONSTANTS
  NB = 8
  MgmtStart = 1
  Spare = 2
  Values = {v}
  v = v
  FactoryBad <- MaybeWorn
  WearBlocks <- AnyWear
  MaxFaults = 4
  MaxCrashes = 1
  MaxWc = 3
  Create = FALSE
INVARIANTS
  TablesInArea
  TablesAvoidData
  DurableWithTable
PROPERTIES
  Answered
  LostOnlyWithLastTable
