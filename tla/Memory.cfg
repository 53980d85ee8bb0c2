SPECIFICATION Spec
CONSTANTS
  Granularity = 2
  RangeLen = 6
  AllocSizes = {1, 4}
  HandleSizes = {2, 4}
  Values = {v1}
  NPhys = 2
  MaxProxy = 2
CHECK_DEADLOCK FALSE
INVARIANTS
  TypeOK
  RestoreFaithful
  ReservationsDisjoint
  BorrowedBacked
