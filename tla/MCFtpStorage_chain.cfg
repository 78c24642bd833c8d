CHECK_DEADLOCK FALSE
CONSTANTS
  Kinds = {"read"}
  FileSize = 2
  MaxOps = 2
  Faults = {"abort"}
  MaxFaults = 1
  Patience = 1
SPECIFICATION FairSpec
PROPERTY ChainGoesOn
