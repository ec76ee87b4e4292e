SPECIFICATION Safety
CONSTANTS
  Conns = {c1}
  Mrs = {m1, m2}
  Vals = {v1}
  Ids = {i1, i2, i3}
  Slots = {s1, s2, s3, s4}
  CThreads = {t1}
  SThreads = {u1}
  MaxQ = 2
  PollBatch = 1
  AckInOrder = TRUE
  None = None
  Word = 64
SYMMETRY Symmetry
INVARIANTS NoFault NoRnr
PROPERTY HandlerViewStable
