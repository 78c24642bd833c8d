SPECIFICATION Spec
CONSTANTS
  FastPath = TRUE
  ReadInfoFirst = FALSE
  InfoFromResponse = FALSE
  MaxFile = 4
INVARIANTS TypeOK HitIsExact ReadYourWrites
