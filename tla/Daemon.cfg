SPECIFICATION Spec
CONSTANTS
  Pids = {p1, p2}
  Workers = {w1, w2}
  Modules = {m1}
  MaxIds = 2
  Crashes = TRUE
  None = None
SYMMETRY Symmetry
CHECK_DEADLOCK FALSE
INVARIANTS
  TypeOK
  UniqueIds
  OneOwner
  StandbyAdvertised
  ParkedKept
