SPECIFICATION Spec
CONSTANTS
  Users = {a1, a2, b1, b2}
  EventArgs = {a1, a2}
  Pools <- MCPools
  Half = 16
  MayReleaseTwice = TRUE
  MaxFree = 4
CHECK_DEADLOCK FALSE
INVARIANTS TypeOK InsideTheBlock NeverPartlyShared Disjoint NoneIsLost
PROPERTY NullOnlyIfExhausted
