CONSTANTS
  Plans <- MCPlans
  MaxLines = 2
  QueueCapacity = 1
SPECIFICATION FairSpec
INVARIANTS
  InputIsOfThisStage
  SettledInProduction
PROPERTIES
  StopEndsRun
