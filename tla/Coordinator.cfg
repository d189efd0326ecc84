SPECIFICATION FairSpec
CONSTANTS
  a = a
  b = b
  c = c
  v = v
  Key = {a, b, c}
  Vault = {v}
  VaultOf <- VaultOfKey
  GlobalConcurrency = 1
  PerVaultConcurrency = 2
  QueueMax = 2
  MaxSubmits = 2
  Burst <- BurstOfMany
  MaxDemotions = 1
INVARIANTS TypeOK NothingForgotten FollowerQuiet WithinLimits
PROPERTIES Drains NewestWins
CHECK_DEADLOCK FALSE
