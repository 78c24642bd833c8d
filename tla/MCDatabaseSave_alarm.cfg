SPECIFICATION Spec
CONSTANTS
  Device = {d1, d2}
  Edit = {e1, e2}
  FastPath = TRUE
  ReadInfoFirst = TRUE
  InfoFromResponse = TRUE
  FailOpenCheck = TRUE
  CacheFallback = TRUE
  MAX_CONFLICT_RETRY = 1
  MaxSaves = 3
  MaxLoads = 1
SYMMETRY DeviceEditSymmetry
CHECK_DEADLOCK FALSE
INVARIANTS HashIsFinal
