SPECIFICATION MCSpec
CONSTANTS
  None = None
  Worker = {k1, k2, k3, k4}
  Task = {t1, t2, t3, t4, t5}
  c1 = c1  w1 = w1  w2 = w2  NoClient = NoClient
  Clients = {c1, c2, c3}
INVARIANTS PoolConsistent NoLostWakeup
PROPERTIES QueuedIsServed StopsWhenTold BothEnd NobodyIsLeftWaiting
CHECK_DEADLOCK FALSE
