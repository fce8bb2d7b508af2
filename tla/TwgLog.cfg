\* Five rows through two slots: the ring fills, wraps and drops.
CONSTANTS
  Capacity = 2
  MaxRows = 5
SPECIFICATION FairSpec
INVARIANTS
  FileIsPrefix
  SuccessMeansWritten
PROPERTIES
  RowsReachFile
  StopReturns
CHECK_DEADLOCK FALSE
