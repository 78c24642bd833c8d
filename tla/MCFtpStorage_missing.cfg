CHECK_DEADLOCK FALSE
CONSTANTS
  Kinds = {"info"}
  FileSize = 2
  MaxOps = 1
  Faults = {"slow"}
  MaxFaults = 1
  Patience = 1
SPECIFICATION Spec
INVARIANT MissingIsMissing
