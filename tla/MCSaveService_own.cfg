SPECIFICATION Spec
CONSTANTS
  Key = {k1}
  XCKey = {}
  MaxRequests = 3
  MaxFaults = 0
CHECK_DEADLOCK FALSE
INVARIANTS CredentialsOwn
