CONSTANTS
  Plans <- MCPlans
  MaxLines = 2
  QueueCapacity = 1
SPECIFICATION Spec
PROPERTIES
  LineNeverEndsRun
