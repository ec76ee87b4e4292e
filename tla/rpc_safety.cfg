SPECIFICATION Safety
CONSTANTS
  Conns = {c1}
  Mrs = {m1, m2}
  Vals = {v1, v2}
  Ids = {i1, i2}
  Slots = {s1, s2}
  CThreads = {t1, t2}
  SThreads = {u1, u2}
  MaxQ = 1
  PollBatch = 1
  AckInOrder = FALSE
  None = None
  Word = 64
SYMMETRY Symmetry
INVARIANTS TypeOK SlotConserved RequestConserved PoolNoLeak ResponseFindsRecv ResponseMatches
PROPERTY ServiceSafety
CHECK_DEADLOCK FALSE
