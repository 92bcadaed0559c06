SPECIFICATION Spec
CONSTANTS
  v1 = v1
  v2 = v2
  Nodes = {v1, v2}
  Schedule <- TwoValidators
  FinalityMin = 2
  MaxSlot = 7
  MinReach = 1
  ReorgWindow = 1
CHECK_DEADLOCK FALSE
INVARIANTS NoDoubleSign OneBlockPerSlot ChainsSigned ForkShallow
PROPERTY ImplementsLongestChain
