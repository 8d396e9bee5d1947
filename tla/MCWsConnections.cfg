SPECIFICATION Spec
SYMMETRY MCSymmetry
CONSTANTS
  s1 = s1
  s2 = s2
  s3 = s3
  n1 = n1
  n2 = n2
  x1 = x1
  Sockets <- MCSockets
  Nodes <- MCNodes
  Home <- MCHome
  Sessions <- MCSessions
  SessionOf <- MCSessionOf
  Limit = 2
  LeaseTtl = 4
  Interval = 1
  Concurrency = 1
  MaxFaults = 1
CHECK_DEADLOCK FALSE
INVARIANTS TypeOK CapHolds LiveSocketsKeepTheirLease RevocationIsPrompt WaitersFillTheSlots
