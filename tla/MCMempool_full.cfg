SPECIFICATION Spec
CONSTANTS
  alice = alice
  bob = bob
  Account <- MCAccount
  Tx <- MCTx
  Funds <- MCFunds
  MaxTxs = 1
  MaxPool = 3
  MaxGap = 2
  TTL = 2
  MaxNow = 4
  MaxReorg = 2
PROPERTIES NothingLost
CHECK_DEADLOCK FALSE
