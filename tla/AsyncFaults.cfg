SPECIFICATION Spec
CONSTANTS
  Requests = {r1, r2, r3, r4}
  Readers = {r3}
  Creators = {r1}
  Serial = {r1, r2, r4}
  MayCrash = {r2}
  Faults = {"lost", "late"}
  ExpiryRaces = TRUE
  ThrowOnError = FALSE
  InitialAge = 0
  ExecutionTimeout = 1
  AgeCap = 2
  MaxAge = 1
  NoDoc = NoDoc
  NoItems = NoItems
  NoId = NoId
CHECK_DEADLOCK FALSE
PROPERTIES NoLostUpdate DoneMeansSaved
