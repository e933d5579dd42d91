SPECIFICATION Spec
CONSTANTS
  Requests = {r1, r2, r3}
  Readers = {}
  Creators = {}
  Serial = {r1, r2, r3}
  MayCrash = {}
  Faults = {}
  ExpiryRaces = FALSE
  ThrowOnError = FALSE
  InitialAge = 0
  ExecutionTimeout = 0
  AgeCap = 1
  MaxAge = 0
  NoDoc = NoDoc
  NoItems = NoItems
  NoId = NoId
CHECK_DEADLOCK FALSE
INVARIANT SessionsExpire
