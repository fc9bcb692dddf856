SPECIFICATION AllSpec
CONSTANTS
  AllThreads = {a, b, c}
  REGISTRY_MAX_THREADS = 3
  MaxAlive = 3
  Fair = {}
  Objs = {1, 2, 3, 4}
  NONE = NONE
  DEQ = DEQ
  EMPTY = EMPTY
  OK = OK
  v1 = v1
  v2 = v2
INVARIANTS SafeReclamation PoolIntact AnswersSurvive SetsSound
PROPERTIES RegistrySound QueueSound AbstractStore Linearizability FatQueueKeepsOrder
