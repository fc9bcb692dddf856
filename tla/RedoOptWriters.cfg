SPECIFICATION FairSpec
CONSTANTS
  MaxThreads = 2
  RINGSIZE = 3
  STATESSIZE = 2
  MAX_COMBS = 2
  CopyTimes = {1}
  MAX_READ_TRIES = 0
  RedoLimit = 2
  CLLimit = 9
  UninitTickets = {NONE}
  Addrs = {a}
  READ = READ
  NONE = NONE
  Wrap = 100
  Writers = {0, 1}
  Readers = {1}
  Scheduled = {1}
  Budget <- ThreeOne
  MaxCrashes = 1
INVARIANTS ReplicasConsistent ReplicaLocks RingImpliesDurable CrashLeavesCommit TwoCopiesSuffice
PROPERTIES DurableLinearizability WaitFree
