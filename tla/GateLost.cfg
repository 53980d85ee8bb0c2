SPECIFICATION FairSpec
CONSTANTS
  Threads = {t1}
  Main = t1
  Modes = {"Detach"}
  Kinds = {"sync"}
  ClientsExit = FALSE
  NArgs = 1
  MaxCalls = 0
  MaxCkpts = 2
CHECK_DEADLOCK FALSE
PROPERTIES
  DetachCompletes
