SPECIFICATION Spec
CONSTANTS
  Key = {x1}
  XCKey = {x1}
  MaxRequests = 2
  MaxFaults = 0
CHECK_DEADLOCK FALSE
INVARIANTS OpenMeansDialog
