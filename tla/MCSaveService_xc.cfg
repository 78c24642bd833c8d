SPECIFICATION FairSpec
CONSTANTS
  Key = {k1, x1}
  XCKey = {x1}
  MaxRequests = 2
  MaxFaults = 1
CHECK_DEADLOCK FALSE
INVARIANTS TypeOK SingleFlight HolderLives NoIntentLeft SeedKnown
PROPERTIES QueueDrains
