CONSTANTS
  ThreadNum = 3
  MaxPoll   = 2
  EventNum  = 5
  LibThread = 1
  PollNum   = 2
SPECIFICATION Spec
INVARIANTS
  TypeOK
  OrderlyIsSafe
  FreedWhenQuiet
  CountMatches
  EventPoolLasts
  StopsOnce
PROPERTIES FiniCompletes AppEnds
CHECK_DEADLOCK FALSE
