SPECIFICATION FairSpec
CONSTANTS
  c1 = c1
  c2 = c2
  b1 = b1
  b2 = b2
  w1 = w1
  w2 = w2
  None = None
  Confirms <- OneConfirm
  Batch <- Nothing
  Workloads <- TheConfirm
  Workers <- TwoWorkers
  Sweeps <- AllSweeps
  Contents <- ScannedContents
  MaxFaults = 1
CHECK_DEADLOCK FALSE
PROPERTIES PublishesAsPromised ReadyFileIsKept EveryFileSettles
