SPECIFICATION Spec
CONSTANTS
  r1 = r1
  r2 = r2
  r3 = r3
  NoOne = NoOne
  Requests <- MCRequests
  Payload <- MCPayload
  RequestTimeout = 2
  LockTtl = 3
  RecordTtl = 2
  RedisDelay = 0
SYMMETRY MCSymmetry
CHECK_DEADLOCK FALSE
INVARIANT ReplayedMutationRan
