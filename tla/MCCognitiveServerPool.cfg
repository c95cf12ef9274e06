SPECIFICATION Spec
CONSTANTS
  alice = alice
  r1 = r1  r2 = r2  b1 = b1
  None = None
  PM <- MCPM
  Requests <- MCRequests
  Batches <- MCBatches
  BatchLimit = 2
  NIterations = 3
  MaxCrashes = 1
INVARIANT SinglePool
CHECK_DEADLOCK FALSE
