SPECIFICATION Spec
CONSTANTS
  MaxThreads = 1
  RINGSIZE = 3
  STATESSIZE = 2
  MAX_COMBS = 2
  CopyTimes = {1}
  MAX_READ_TRIES = 2
  RedoLimit = 2
  CLLimit = 9
  UninitTickets = {NONE}
  Addrs = {a, b}
  READ = READ
  NONE = NONE
  Wrap = 100
  Writers = {0}
  Readers = {}
  Scheduled = {}
  Budget <- TwoEach
  MaxCrashes = 1
PROPERTIES DurableLinearizability
