SPECIFICATION FairSpec
CONSTANTS
  None = None
  Conn = {c1}
  Worker = {w1}
  Fd = {d1}
  Budget = 1
  Steps = {0, 1}
  MaxSent = 1
PROPERTIES DisconnectedIsLetGo
