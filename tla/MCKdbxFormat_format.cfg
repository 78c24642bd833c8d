CHECK_DEADLOCK FALSE
CONSTANTS
  Content = {plain, secret, big}
  plain = plain
  secret = secret
  big = big
  Large = {big}
  Protected = {secret}
  Entry = {e1, e2}
  e1 = e1
  e2 = e2
  None = None
  Wrong = Wrong
  MaxBins = 2
  DiskThreshold = 1
  MaxLoads = 2
  MaxSaves = 1
  MaxEdits = 1
  MaxFaults = 1
SPECIFICATION Spec
INVARIANTS TypeOK DamageNoticed PoolHolds FailuresExplained
PROPERTIES LoadExact SavedExact
