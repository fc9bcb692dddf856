SPECIFICATION Spec
CONSTANTS
  Threads = {t1, t2}
  Replicas = {0, 1, 2}
  Keys = {k}
  Values = {v, w}
  LogReach = 3
  MaxCommits = 3
  MaxCrashes = 0
  NONE = NONE
INVARIANTS GetReadsCommitted
