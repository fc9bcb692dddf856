SPECIFICATION Spec
CONSTANTS
  MaxThreads = 1
  MAX_READ_TRIES = 1
  x = x
  y = y
  Addrs = {x, y}
  READ = READ
  NONE = NONE
  Workloads <- TwoWords
PROPERTIES DurableLinearizability
