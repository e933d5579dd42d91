SPECIFICATION Spec
CONSTANTS
  Requests = {r1, r2, r3}
  Readers = {r3}
  Creators = {r1}
  Serial = {}
  MayCrash = {r2}
  Faults = {}
  ExpiryRaces = TRUE
  ThrowOnError = FALSE
  InitialAge = 0
  ExecutionTimeout = 0
  AgeCap = 2
  MaxAge = 1
  NoDoc = NoDoc
  NoItems = NoItems
  NoId = NoId
CHECK_DEADLOCK FALSE
INVARIANTS TypeOK LockIdNeverDistinguishes NewOnlyWithoutData UninitializedExpires OnlyCommittedData LocksAccountedFor
