SPECIFICATION Safety
CONSTANTS
  Conns = {c1, c2}
  Slots = {s1, s2}
  QpNums = {q1, q2}
  CThreads = {t1}
  SThreads = {u1, u2}
  ClientCm = t1
  ServerCm = u1
  MaxReq = 1
  Quiet = FALSE
  Deferred = TRUE
  Purge = TRUE
  None = None
SYMMETRY Symmetry
INVARIANT SlotLostOnlyByDisconnect
CHECK_DEADLOCK FALSE
