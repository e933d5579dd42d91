SPECIFICATION Spec
CONSTANTS
  Requests = {r1, r2}
  Readers = {}
  Creators = {r1}
  Serial = {}
  MayCrash = {}
  Faults = {}
  ExpiryRaces = FALSE
  ThrowOnError = FALSE
  InitialAge = 0
  ExecutionTimeout = 0
  AgeCap = 2
  MaxAge = 0
  NoDoc = NoDoc
  NoItems = NoItems
  NoId = NoId
CHECK_DEADLOCK FALSE
INVARIANT MutualExclusion
