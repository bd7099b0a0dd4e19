SPECIFICATION Spec
CONSTANTS
  None = None
  x1 = x1
  x2 = x2
  x3 = x3
  Writers = {x1, x2, x3}
  Movements <- ThreeWriters
  Opening = 2
  Limit = 2
  MaxTime = 1
CHECK_DEADLOCK FALSE
INVARIANTS
  MismatchIsOvertaken
  PagesAscend
  NothingSkipped
