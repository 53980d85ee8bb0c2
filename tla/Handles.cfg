SPECIFICATION Spec
CONSTANTS
  Values = {1}
  MaxProxy = 3
  MaxCalls = 4
  MaxKept = 1
  MaxPair = 7
CHECK_DEADLOCK FALSE
INVARIANTS
  TypeOK
  HandlesMatch
  ReplayDefined
  NoLeakedHandles
