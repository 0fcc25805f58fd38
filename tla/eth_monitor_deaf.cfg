SPECIFICATION FairSpec
CONSTANTS
  Tdmas = {0}
  Wdmas = {1}
  Macs = {1}

PROPERTY AllHangsEnd
