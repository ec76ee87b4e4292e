SPECIFICATION Safety
CONSTANTS
  Conns = {c1}
  Slots = {s1, s2}
  QpNums = {q1}
  CThreads = {t1, t2}
  SThreads = {u1}
  ClientCm = t1
  ServerCm = u1
  MaxReq = 1
  Quiet = TRUE
  Deferred = FALSE
  Purge = TRUE
  None = None
INVARIANT CallbackMayDisconnect
CHECK_DEADLOCK FALSE
