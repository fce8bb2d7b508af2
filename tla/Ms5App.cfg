\* Gates of two ticks and overruns of up to two: a gate may be skipped. One queue place, so that a slow worker fills it.
CONSTANTS
  StartupAttempts = 2
  ZeroGates = 1
  RunGates = 2
  GateTicks = 2
  MaxOverrun = 2
  MinZeroSamples = 1
  MaxZeroSamples = 1
  Capacity = 1
SPECIFICATION FairSpecCapture
INVARIANT
  ExitAgreesWithFile
PROPERTY
  CaptureEnds
CHECK_DEADLOCK FALSE
