SPECIFICATION FairSpec
CONSTANTS
  e1 = e1
  w1 = w1
  w2 = w2
  NoOne = NoOne
  Events <- OneEvent
  Workers <- TwoWorkers
  MaxAttempts = 3
  MaxStalls = 1
  MaxDeliveries = 3
  MaxFaults = 3
CHECK_DEADLOCK FALSE
INVARIANTS TypeOK CompletedMeansSent DuplicatesNeedMishaps
PROPERTY EveryMailSettles
