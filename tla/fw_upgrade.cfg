SPECIFICATION Spec
CONSTANTS
  Devices <- AllDevices
  Files <- AnyFile
  MaxUpgrades = 3
  MaxFails = 2
  MaxCuts = 2
INVARIANTS
  TypeOK
  NeverBricked
  DataThere
  SelectedWhole
  ConfigKept
PROPERTY ImplementsAtomicUpgrade
\* a device without a second slot that lost its system stays off
CHECK_DEADLOCK FALSE
