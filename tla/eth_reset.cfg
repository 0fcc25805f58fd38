SPECIFICATION FairSpec
CONSTANTS
  c1 = c1
  c2 = c2
  Chips = {c1, c2}
  NetsysV3 = TRUE
  Debugfs = TRUE
  MaxHangs = 1
  MaxRequests = 2
  MaxMoves = 1
  MaxOwed = 1
INVARIANTS
  TypeOK
  AllAnswered
  WdmaOnlyUnderReset
  ChipsReleased
PROPERTIES
  ResetEnds
  HangRepaired
  WdmaHangRepaired
CHECK_DEADLOCK FALSE
