CONSTANTS
  Plans <- MCPlans
SPECIFICATION FairSpec
INVARIANTS
  VetoEndsPlan
  WarningIsOfAResult
PROPERTIES
  AdoptionFaithful
  RunsPlan
  PlanSettled
