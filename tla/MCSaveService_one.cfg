SPECIFICATION Spec
CONSTANTS
  Key = {k1}
  XCKey = {}
  MaxRequests = 3
  MaxFaults = 1
CHECK_DEADLOCK FALSE
INVARIANTS TypeOK SingleFlight HolderLives NoIntentLeft
