SPECIFICATION Spec
CONSTANTS
  Requests = {r1, r2, r3, r4}
  Readers = {r3}
  Creators = {r1}
  Serial = {}
  Faults = {"lost", "late"}
  MayExpire = "always"
  ThrowOnError = FALSE
  NoDoc = NoDoc
  NoItems = NoItems
  NoId = NoId
CHECK_DEADLOCK FALSE
INVARIANTS TypeOK OnlyCommittedData
