SPECIFICATION MCSpec
CONSTANTS
  p1 = p1  p2 = p2  c1 = c1  c2 = c2  c3 = c3
  None = None
  Producers = {p1, p2}  Consumers = {c1, c2, c3}  Limit = 2  First = 1
  Values = {7, 8}  Addresses = {1, 2, 3}
  Keys = {c1, c2, c3}  Texts = {7, 8}  Default = 2  MaxCapacity = 4
  Lines <- TypedLines  Commands = {"cd", "ls"}  Size = 4
  Fd = {f1, f2}  Slots = 4  Interval = 2  MaxLag = 5
INVARIANTS
  TokensAreRight QueueConsistent TableIsMap PathsAreWords
  WheelConsistent
PROPERTIES
  EveryoneIsWoken
  NeverEarly IdleEnds ImplementsIdleTimer
CHECK_DEADLOCK FALSE
