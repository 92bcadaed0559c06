SPECIFICATION Spec
CONSTANTS
  l1 = l1
  l2 = l2
  Line = {l1, l2}
  MaxLines = 5
CHECK_DEADLOCK FALSE
INVARIANTS IndexDescribesFile FileReadable
PROPERTY BootFindsLog
