SPECIFICATION FairSpec
CONSTANTS
  Requests = {r1, r2, r3, r4}
  Readers = {r3}
  Creators = {r1}
  Serial = {r1, r2, r3, r4}
  MayCrash = {r1, r2, r4}
  Faults = {}
  ExpiryRaces = FALSE
  ThrowOnError = FALSE
  InitialAge <- MCInitialAge
  ExecutionTimeout = 0
  AgeCap = 2
  MaxAge = 1
  NoDoc = NoDoc
  NoItems = NoItems
  NoId = NoId
CHECK_DEADLOCK FALSE
PROPERTIES KeepsContract RequestsEnd
