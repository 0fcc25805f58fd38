SPECIFICATION Spec
CONSTANTS
  Devices <- NandOnly
  Files <- AnyTar
  MaxUpgrades = 1
  MaxFails = 0
  MaxCuts = 0
INVARIANTS
  SaidIsDone
