SPECIFICATION FairSpec
CONSTANTS
  Capacity = 4
  MaxLen = 5
  MaxBytes = 8
INVARIANTS
  TypeOK
  InOrderDelivery
  NoDataRace
  SlicesNonEmpty
  RingInv
PROPERTIES
  RefinesByteChannel
  AllDelivered
  PutReturns
