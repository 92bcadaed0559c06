SPECIFICATION FairSpec
CONSTANTS
  alice = alice
  bob = bob
  Account <- MCAccount
  Tx <- MCTx
  Funds <- MCFunds
  MaxTxs = 3
  MaxPool = 3
  MaxGap = 2
  TTL = 2
  MaxNow = 4
  MaxReorg = 3
INVARIANTS PoolUnspent SelectionValid SelectionExhausts
PROPERTIES NothingLost PoolDrains
CHECK_DEADLOCK FALSE
