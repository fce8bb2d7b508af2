CONSTANTS
  SettleTurns = 2
  ZeroTurns = 3
  MinSamples = 2
  MaxSamples = 3
SPECIFICATION FairSpec
INVARIANTS
  ModesAgree
  ReferenceOfOneCapture
PROPERTIES
  QGetsOut
