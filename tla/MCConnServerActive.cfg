SPECIFICATION Spec
CONSTANTS
  None = None
  Conn = {c1, c2, c3}
  Worker = {w1, w2}
  Fd = {d1, d2}
  Budget = 1
  Steps = {0}
  MaxSent = 2
SYMMETRY Symmetry
INVARIANTS SessionOfOneClient OpenIsTracked
PROPERTIES ForgetsOwnClient
