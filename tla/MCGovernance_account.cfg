SPECIFICATION Spec
CONSTANTS
  k1 = k1
  k2 = k2
  k3 = k3
  Key = {k1, k2, k3}
  MaxActives = 2
  Conta = 2
  Outras = {1}
  StakeInicial <- MCStake
  MinInicial = 1
  MaxInicial = 2
  TesouroInicial = 3
  Permissoes <- MCPermissoes
  Mudancas <- MCMudancas
  Valores <- MCValores
  Ttl = 1
  Timelock = 1
  VotingBlocks = 1
  MaxIds = 2
  MaxTx = 4
  MaxHeight = 4
INVARIANTS StartedAuthorised VetoesShort WeightsCurrent NeverLocked NothingOverdue ValidatorsRemain
PROPERTY OnlyTimelocked
CHECK_DEADLOCK FALSE
