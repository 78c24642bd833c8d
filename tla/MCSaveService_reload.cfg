SPECIFICATION Spec
CONSTANTS
  Key = {k1}
  XCKey = {}
  MaxRequests = 2
  MaxFaults = 0
CHECK_DEADLOCK FALSE
INVARIANTS ReloadIsNoChange
