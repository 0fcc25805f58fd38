SPECIFICATION Spec
CONSTANTS
  NB = 10
  MgmtStart = 2
  Spare = 2
  Values = {v}
  v = v
  FactoryBad <- NoneBad
  WearBlocks <- AnyWear
  MaxFaults = 2
  MaxCrashes = 1
  MaxWc = 1
  Create = TRUE
INVARIANTS
  TypeOK
  LayoutOk
  AckedReadable
  NewestLoaded
  MappedOnce
  KeepsInv
