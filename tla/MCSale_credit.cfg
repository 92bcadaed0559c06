SPECIFICATION Spec
CONSTANTS
  Modes = {"private", "public"}
  Buyer = {b1}
  Allocated = 3
  LpSeed = 1
  Buffer = 0
  Rails = {"evm"}
  PayAmounts = {p1, p2}
  Tiers <- MCTiers
  RemoteRelayer = FALSE
  LogIndex = 1
  MaxIntents = 2
  MaxFaults = 1
INVARIANT CreditedOnce
SYMMETRY AmountSymmetry
CHECK_DEADLOCK FALSE
