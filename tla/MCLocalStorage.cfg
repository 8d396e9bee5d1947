SPECIFICATION Spec
CONSTANTS
  u1 = u1
  u2 = u2
  u3 = u3
  f1 = f1
  f2 = f2
  a = a
  b = b
  Source = Source
  None = None
  Uploads <- MCUploads
  Finals <- MCFinals
  Contents <- MCContents
  MaxFaults = 1
SYMMETRY MCSymmetry
CHECK_DEADLOCK FALSE
INVARIANTS TypeOK DownloadMatchesItsHeaders LastUploadIsKept
PROPERTY FinalizesAsPromised
