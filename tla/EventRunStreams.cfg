SPECIFICATION Spec
CONSTANTS
  Events = {e1}
  Conns = {c1, c2}
  Workers = {w1, w2}
  MaxOut = 2
  Unused = unused
  Nobody = nobody
  Absent = absent
CHECK_DEADLOCK FALSE
SYMMETRY Symmetry
INVARIANT TypeOK
INVARIANT ReleasedIsConnected
INVARIANT OutputComplete
INVARIANT EndMeansStored
INVARIANT FailureOnRecord
