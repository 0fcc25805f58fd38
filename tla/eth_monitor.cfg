SPECIFICATION FairSpec
CONSTANTS
  Tdmas = {0}
  Wdmas = {1}
  Macs = {1}
INVARIANTS CountsAreFresh NoFalseAlarm
PROPERTY HangsEnd
