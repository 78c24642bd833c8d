SPECIFICATION FairSpec
CONSTANTS
  Device = {d1, d2}
  Edit = {e1}
  FastPath = TRUE
  ReadInfoFirst = TRUE
  InfoFromResponse = TRUE
  FailOpenCheck = TRUE
  CacheFallback = TRUE
  MAX_CONFLICT_RETRY = 1
  MaxSaves = 2
  MaxLoads = 1
CHECK_DEADLOCK FALSE
PROPERTIES RemoteKeepsEdits LockReleased
