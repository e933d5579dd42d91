SPECIFICATION Spec
CONSTANTS
  Calls = {c1, c2, c3}
  Operations = {"Get", "Add", "Set", "Remove"}
  Prefix <- MCPrefix
  Characters <- MCCharacters
  Ids <- MCIds
  Expiries = {1, 9}
  MaxValue = 9
  ReplacesMaxValue = TRUE
  DefaultLifetime = 1
  MaxTime = 2
  Faults = {"lost", "late"}
  MayEvict = TRUE
  ThrowOnError = FALSE
  NoEntry = NoEntry
  Never = Never
CHECK_DEADLOCK FALSE
SYMMETRY Symmetry
INVARIANTS TypeOK AddersAgree NoCrossTalk EntriesExpire
PROPERTIES AddNeverReplaces CallsAreAtomic
