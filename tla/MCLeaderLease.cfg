SPECIFICATION FairSpec
CONSTANTS
  r1 = r1
  r2 = r2
  NoOne = NoOne
  Replicas <- MCReplicas
  LeaseTtl = 2
  Patient = FALSE
  MaxInFlight = 2
  MaxCuts = 2
CHECK_DEADLOCK FALSE
INVARIANTS TypeOK SplitBrainNeedsAnExpiredLease StoppedReplicaIsQuiet
PROPERTIES SomeoneLeads CutOffLeaderStepsDown
