SPECIFICATION Spec
CONSTANTS
  Indexes = {i1, i2}
  Requests = {r1, r2}
  None = None
  Crawls = {c1}
  MaxPages = 2
  Unit = 2
  MaxStarts = 1
  MaxAsks = 3
  Absent = Absent
  Unmarked = Unmarked
  Idle = Idle
INVARIANT TypeOK
INVARIANT IndexedMeansWhole
INVARIANT NoStrayDocuments
INVARIANT ThinOnlyIfMixed
CHECK_DEADLOCK FALSE
