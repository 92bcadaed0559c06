SPECIFICATION Spec
CONSTANTS
  Branch = {a, b}
  Stray = stray
  Window = 3
  Interval = 2
  MaxHeight = 5
  MaxFaults = 2
SYMMETRY BranchSymmetry
CHECK_DEADLOCK FALSE
INVARIANTS MemoryIsDisk  AnchorIsPrefix SnapshotFollowsChain
