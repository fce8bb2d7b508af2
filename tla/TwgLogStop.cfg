\* As TwgLog.cfg, for the one property a late stop request breaks.
CONSTANTS
  Capacity = 2
  MaxRows = 5
SPECIFICATION Spec
INVARIANTS
  NoDropsMeansComplete
CHECK_DEADLOCK FALSE
