SPECIFICATION MCSpec
CONSTANTS
  Commands <- SomeCommands
  MaxCommands = 4
  MaxSize = 2
  c1 = c1  Listener = Listener  NoClient = NoClient
  Clients = {c1, c2, c3}  Fds = {4, 5}
INVARIANTS InStep SidesAgree StandoffOnlyByFault TableConsistent
PROPERTIES RepliesMatch CommandsFinish HeardOnce LeaverIsLetGo
CHECK_DEADLOCK FALSE
