SPECIFICATION FairSpec
CONSTANTS
  Threads = {t1, t2}
  Main = t1
  Modes = {"Kill", "LeaveRunning"}
  Kinds = {"sync", "async"}
  ClientsExit = FALSE
  NArgs = 1
  MaxCalls = 1
  MaxCkpts = 2
CHECK_DEADLOCK FALSE
INVARIANTS
  TypeOK
  QuiescentDump
  NoStrayLock
PROPERTIES
  RefinesStopTheWorld
  CheckpointCompletes
  HeldCallResumes
