SPECIFICATION FairSpec
CONSTANTS
  r1 = r1
  r2 = r2
  NoOne = NoOne
  Replicas <- MCReplicas
  LeaseTtl = 2
  Patient = TRUE
  MaxInFlight = 2
  MaxCuts = 1
CHECK_DEADLOCK FALSE
PROPERTY CutOffLeaderStepsDown
