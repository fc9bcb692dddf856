SPECIFICATION AllSpec
CONSTANTS
  MaxThreads = 3
  Blocks = 2
  READ = READ
  NONE = NONE
  Workloads <- LRWorkloads
INVARIANTS CopiesConsistent ClearedAreDone ReaderUndisturbed
PROPERTIES DurableTransactions AllAnswered
