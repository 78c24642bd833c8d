CHECK_DEADLOCK FALSE
CONSTANTS
  Kinds = {"load"}
  FileSize = 2
  MaxOps = 2
  Faults = {}
  MaxFaults = 0
  Patience = 1
SPECIFICATION Spec
INVARIANT LocalIsRemote
