SPECIFICATION Spec
CONSTANTS
  main = main
  child = child
  other = other
  None = None
  Database <- Family
  AutoOpen <- TwoChildren
  Direct = {main, child, other}
  Primary = {main}
  MaxAsks = 1
  MaxFaults = 1
CHECK_DEADLOCK FALSE
INVARIANT DoneMeansDone
