SPECIFICATION Spec
CONSTANTS
  c1 = c1
  c2 = c2
  b1 = b1
  b2 = b2
  w1 = w1
  w2 = w2
  None = None
  Confirms <- TwoConfirms
  Batch <- TwoFiles
  Workloads <- ConfirmsOrBatch
  Workers <- OneWorker
  Sweeps <- CleanupAndPurge
  Contents <- UploadedContents
  MaxFaults = 1
CHECK_DEADLOCK FALSE
SYMMETRY MCSymmetry
INVARIANTS TypeOK ServedFilesPassedTheChecks OrphansOnlyAfterLostCopy BatchIsAllOrNothing
PROPERTY StatusOnlyAdvances
