SPECIFICATION FairSpec
CONSTANTS
  Requests = {r1, r2, r3, r4}
  Locking = {r1, r2}
  MaxRuns = 2
  MaxAwaits = 2
  MaxThreads = 5
  Nobody = Nobody
CHECK_DEADLOCK FALSE
INVARIANTS TypeOK NeverStarved
PROPERTY RequestsReturn
