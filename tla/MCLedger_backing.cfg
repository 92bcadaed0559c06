SPECIFICATION Spec
CONSTANTS
  Account = {1, 2, 3}
  Evm = {3}
  Funds <- MCFunds
  Stakes <- MCStakes
  Amounts = {1, 3}
  Percents = {50}
  Terms <- MCTerms
  Offences <- MCOffences
  Fee = 1
  Reward = 2
  TreasuryPct = 0
  DefaultCommission = 0
  MinStake = 2
  Scale = 10
  SlashPct = 60
  ReporterPct = 50
  Unbonding = 2
  MaxUnbonding = 1
  CommissionDelay = 1
  MaxTxs = 3
  MaxHeight = 4
INVARIANT StakeBacks
CHECK_DEADLOCK FALSE
