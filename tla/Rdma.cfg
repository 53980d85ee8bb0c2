SPECIFICATION FairSpec
CONSTANTS
  Capacity = 4
  MaxSendWr = 4
  SignalInterval = 2
  MaxLen = 3
  MaxBytes = 6
INVARIANTS
  TypeOK
  SendQueueBound
  TailSwapSucceeds
PROPERTIES
  PendingBytesKept
  RefinesByteChannel
  FlushedDelivered
  PutReturns
