CONSTANTS
  NumWorkers = 2
  PoolSize = 2
  Null = Null
  Bytes = Bytes
SPECIFICATION Spec
INVARIANTS
  TypeOK
  OnePlace
  RetriesAtMostOnce
PROPERTIES
  PushEnds
  OwnershipSpec
