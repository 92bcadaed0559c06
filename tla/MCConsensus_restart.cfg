SPECIFICATION CrashSpec
CONSTANTS
  v1 = v1
  v2 = v2
  Nodes = {v1, v2}
  Schedule <- OneValidator
  FinalityMin = 3
  MaxSlot = 5
  MinReach = 0
  ReorgWindow = 2
CHECK_DEADLOCK FALSE
INVARIANT NoDoubleSign
PROPERTY BehindCatchesUp
