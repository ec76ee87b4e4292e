SPECIFICATION Safety
CONSTANTS
  Conns = {c1, c2}
  Slots = {s1, s2, s3, s4}
  QpNums = {q1, q2}
  CThreads = {t1}
  SThreads = {u1}
  ClientCm = t1
  ServerCm = u1
  MaxReq = 1
  Quiet = TRUE
  Deferred = FALSE
  Purge = TRUE
  None = None
SYMMETRY Symmetry
INVARIANTS TypeOK NoFault RightConnection TableMatchesQps
CHECK_DEADLOCK FALSE
