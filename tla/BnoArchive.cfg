CONSTANTS
  GateTicks = 2
  WindowTicks = 6
  Period = 2
  Lateness = {0, 5}
  Work = {0, 3}
  MaxEvents = 3
  QueueCapacity = 1
  BatchRows = 1
SPECIFICATION Spec
INVARIANTS
  CompleteIsWhole
  GatesAccounted
PROPERTIES
  FreshMeansNew
