SPECIFICATION Spec
CONSTANTS
  MaxThreads = 3
  RINGSIZE = 3
  STATESSIZE = 2
  MAX_COMBS = 2
  CopyTimes = {1}
  MAX_READ_TRIES = 1
  RedoLimit = 0
  CLLimit = 1
  UninitTickets = {NONE}
  Addrs = {a, b}
  READ = READ
  NONE = NONE
  Wrap = 100
  Writers = {0, 1}
  Readers = {2}
  Scheduled = {}
  Budget <- OneEach
  MaxCrashes = 0
INVARIANTS SnapshotHeld CrashLeavesCommit
PROPERTIES DurableLinearizability
