CONSTANTS
  Window = 1
  GateTimeout = 2
  SustainedGood = 1
  ProbeTime = 2
  PoseCount = 2
  AccelRounds = 2
  MagRounds = 2
  SaveAttempts = 2
SPECIFICATION FairSpec
CHECK_DEADLOCK FALSE
INVARIANTS
  ResultPromised
  SuccessIsReal
  MutationReported
  EvidenceIsCurrent
PROPERTIES
  StageEnds
  RestoredOrUntouched
  VerdictStands
