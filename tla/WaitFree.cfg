SPECIFICATION AllSpec
CONSTANTS
  MaxThreads = 2
  MAX_THREADS = 3
  MAX_COMBINEDS = 4
  MAX_READ_TRIES = 1
  MIN_SIZE = 2
  MAX_SIZE = 3
  x = x
  y = y
  Addrs = {x, y}
  READ = READ
  NONE = NONE
  Workloads <- CXWorkloads
INVARIANTS CXReplicasConsistent CXReplicaAvailable CXLeavesCommitted OneFileAppliedInOrder OneFileSnapshotHeld
PROPERTIES DurableTransactions WaitFree
