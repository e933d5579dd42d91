SPECIFICATION Spec
CONSTANTS
  Requests = {r1, r2, r3, r4}
  Readers = {r4}
  Creators = {r1, r2}
  Serial = {r1, r2, r3}
  Faults = {}
  MayExpire = "idle"
  ThrowOnError = TRUE
  NoDoc = NoDoc
  NoItems = NoItems
  NoId = NoId
CHECK_DEADLOCK FALSE
INVARIANT NoNullReference
PROPERTY GrowsOnceInitialized
