SPECIFICATION FairSpec
CONSTANTS
  main = main
  child = child
  other = other
  None = None
  Database <- Pair
  AutoOpen <- OneChild
  Direct = {main}
  Primary = {main}
  MaxAsks = 2
  MaxFaults = 1
CHECK_DEADLOCK FALSE
INVARIANTS TypeOK WorkerServesOne QueueSerial
PROPERTIES AutoOpenEnds
