CHECK_DEADLOCK FALSE
CONSTANTS
  Kinds = {"load", "save", "info"}
  FileSize = 2
  MaxOps = 2
  Faults = {"refuse", "abort", "drop", "lose", "switch", "resize", "slow"}
  MaxFaults = 2
  Patience = 1
SPECIFICATION FairSpec
INVARIANTS TypeOK AnswersAwaited ReadComplete WriteConfirmed MissingIsLate
PROPERTIES Settles ImplementsQueue
