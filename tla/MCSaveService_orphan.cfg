SPECIFICATION Spec
CONSTANTS
  Key = {k1}
  XCKey = {}
  MaxRequests = 2
  MaxFaults = 2
CHECK_DEADLOCK FALSE
INVARIANTS NoConcurrentSaves
