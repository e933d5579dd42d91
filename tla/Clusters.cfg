SPECIFICATION FairSpec
CONSTANTS
  Threads = {t1, t2, t3}
  Names <- MCNames
  BucketNames <- MCBucketNames
  Requests <- MCRequests
  Faults = {"config", "connect", "ready", "bucket"}
  NoThread = NoThread
  NoBucket = NoBucket
CHECK_DEADLOCK FALSE
INVARIANTS TypeOK RegistryLive FitsTheKey StaleOnlyAfterCloseOne NoClusterIsLost BootstrapGivesBucket
PROPERTY CallsEnd
