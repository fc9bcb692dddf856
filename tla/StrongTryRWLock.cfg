SPECIFICATION Spec
CONSTANTS
  MaxThreads = 3
  MaxSeq = 2
INVARIANTS
  TypeOK
  MutualExclusion
  ReaderYieldsOnlyToWriter
  NoCollectiveFailure
PROPERTIES
  AbstractSpec
