SPECIFICATION FairSpec
CONSTANTS
  Controller = {c1, c2}
  MaxDepth = 3
  MaxAdjusts = 3
  CfgInitial = 3
  CfgMin = 0
  CfgMax = 5
  CfgStep = 2
  CfgTarget = 2
  CfgDeadband = 1
INVARIANTS
  NoLostMove
  PrevIsReal
PROPERTIES
  CallsReturn
CHECK_DEADLOCK FALSE
