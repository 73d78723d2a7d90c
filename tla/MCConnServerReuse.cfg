SPECIFICATION Spec
CONSTANTS
  None = None
  Conn = {c1, c2}
  Worker = {w1, w2}
  Fd = {d1}
  Budget = 1
  Steps = {0, 1}
  MaxSent = 1
INVARIANTS SessionOfOneClient
