SPECIFICATION Spec
CONSTANTS
  a = a
  b = b
  c = c
  bad = bad
  Indexes = {i1}
  Requests = {r1, r2}
  None = None
  Idle = Idle
  Ids = {a, b, c}
  Bad = bad
  Withins = {0, 1, 2}
  Batches <- MCBatches
CHECK_DEADLOCK FALSE
INVARIANT TypeOK
INVARIANT PrefixOfUnits
INVARIANT CsvTellsTheTruth
PROPERTY UnitsAreAtomic
PROPERTY LockComesFree
