SPECIFICATION Spec
CONSTANTS
  Conns = {c1}
  Mrs = {m1, m2}
  Vals = {v1}
  Ids = {i1, i2, i3}
  Slots = {s1}
  CThreads = {t1}
  SThreads = {u1}
  MaxQ = 2
  PollBatch = 4
  AckInOrder = TRUE
  None = None
  Word = 64
PROPERTIES EveryRequestCompletes EverySlotReturns ServiceSpec
CHECK_DEADLOCK FALSE
