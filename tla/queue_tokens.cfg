SPECIFICATION Spec
CONSTANTS
  ThreadNum = 2
  Elems = {e1, e2, e3}
  MaxPoll = 2
  Quota = 2
  OffsetNum = 2
  None = None
INVARIANTS TypeOK ElementsConserved BatchFits
PROPERTIES EmptyIsTrue NothingStarves
CHECK_DEADLOCK FALSE
