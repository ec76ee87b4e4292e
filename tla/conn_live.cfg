SPECIFICATION Spec
CONSTANTS
  Conns = {c1, c2}
  Slots = {s1}
  QpNums = {q1, q2}
  CThreads = {t1}
  SThreads = {u1}
  ClientCm = t1
  ServerCm = u1
  MaxReq = 1
  Quiet = FALSE
  Deferred = FALSE
  Purge = TRUE
  None = None
PROPERTY ConnectionsSettle
CHECK_DEADLOCK FALSE
