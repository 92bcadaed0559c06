SPECIFICATION FairSpec
CONSTANTS
  v1 = v1
  v2 = v2
  Nodes = {v1, v2}
  Schedule <- TwoValidators
  FinalityMin = 3
  MaxSlot = 4
  MinReach = 1
  ReorgWindow = 2
CHECK_DEADLOCK FALSE
PROPERTY TipForkHeals
