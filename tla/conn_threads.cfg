SPECIFICATION Safety
CONSTANTS
  Conns = {c1}
  Slots = {s1, s2}
  QpNums = {q1}
  CThreads = {t1}
  SThreads = {u1, u2}
  ClientCm = t1
  ServerCm = u1
  MaxReq = 1
  Quiet = FALSE
  Deferred = FALSE
  Purge = TRUE
  None = None
INVARIANT AssertConn
CHECK_DEADLOCK FALSE
