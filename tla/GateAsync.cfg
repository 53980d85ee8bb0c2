SPECIFICATION Spec
CONSTANTS
  Threads = {t1}
  Main = t1
  Modes = {"LeaveRunning"}
  Kinds = {"sync", "async"}
  ClientsExit = FALSE
  NArgs = 1
  MaxCalls = 1
  MaxCkpts = 1
CHECK_DEADLOCK FALSE
INVARIANTS
  NoRemainingRequests
