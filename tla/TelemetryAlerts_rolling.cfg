SPECIFICATION Spec
CONSTANTS
  Environments <- MCEnvironments
  Observed <- MCObserved
  Limit = 2
  MaxRuns = 3
CHECK_DEADLOCK FALSE
 
PROPERTY AlertsMatchRuns
 
PROPERTY JobEnds
