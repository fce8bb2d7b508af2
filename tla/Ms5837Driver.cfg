\* Three accepted triggers and three incidents: a pair can fail at every
\* transaction, recover, fail again before and after a sample, and exhaust.
CONSTANTS
  PromWords = 2
  MaxAttempts = 3
  ConversionTicks = 2
  ResetTicks = 2
  RetryTicks = 2
  MaxTriggers = 3
  MaxIncidents = 3
SPECIFICATION FairSpec
INVARIANTS
  PairsAccounted
  IncidentsAccounted
  LatestIsOfThisSession
  OneHandle
PROPERTIES
  NeverReadsEarly
  DriverSettles
  ServesOwner
CHECK_DEADLOCK FALSE
