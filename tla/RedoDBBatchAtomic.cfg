SPECIFICATION Spec
CONSTANTS
  Threads = {t1, t2}
  Keys <- TwoLetters
  Values <- OneValue
  Batches <- TwoKeys
  Capacity = 2
  Hash <- HashOf
  MaxCrashes = 0
  NONE = NONE
PROPERTIES AbstractStore
