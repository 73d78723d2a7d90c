SPECIFICATION PoliteSpec
CONSTANTS
  None = None
  Conn = {c1, c2, c3}
  Worker = {w1, w2}
  Fd = {d1}
  Budget = 1
  Steps = {0, 1}
  MaxSent = 0
INVARIANTS Accounted
PROPERTIES EveryClientServed ShutdownCompletes ImplementsPool
