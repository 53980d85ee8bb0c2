SPECIFICATION Spec
CONSTANTS
  Threads = {t1}
  Main = t1
  Modes = {"Detach", "LeaveRunning"}
  Kinds = {"sync", "async"}
  ClientsExit = FALSE
  NArgs = 1
  MaxCalls = 2
  MaxCkpts = 3
CHECK_DEADLOCK FALSE
INVARIANTS

  ReplaysSnapshot
