SPECIFICATION Spec
CONSTANTS
  Requests = {r1, r2, r3}
  Readers = {}
  Creators = {}
  Serial = {r1, r2, r3}
  Faults = {}
  MayExpire = "never"
  ThrowOnError = FALSE
  NoDoc = NoDoc
  NoItems = NoItems
  NoId = NoId
CHECK_DEADLOCK FALSE
PROPERTY StoredDataIsGiven
