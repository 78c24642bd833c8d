SPECIFICATION Spec
CONSTANTS
  Device = {d1, d2}
  Edit = {e1, e2}
  FastPath = TRUE
  ReadInfoFirst = FALSE
  InfoFromResponse = FALSE
  FailOpenCheck = FALSE
  CacheFallback = TRUE
  MAX_CONFLICT_RETRY = 3
  MaxSaves = 2
  MaxLoads = 1
SYMMETRY DeviceEditSymmetry
CHECK_DEADLOCK FALSE
PROPERTIES OnlyOverwriteDrops
