CHECK_DEADLOCK FALSE
CONSTANTS
  Content = {plain, secret, big}
  plain = plain
  secret = secret
  big = big
  Large = {big}
  Protected = {secret}
  Entry = {e1, e2}
  e1 = e1
  e2 = e2
  None = None
  Wrong = Wrong
  MaxBins = 2
  DiskThreshold = 1
  MaxLoads = 1
  MaxSaves = 0
  MaxEdits = 0
  MaxFaults = 1
SPECIFICATION Spec
INVARIANT BlocksVerified
