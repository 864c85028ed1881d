SPECIFICATION FairSpec
CONSTANTS
  Events = {e1}
  Conns = {c1}
  Workers = {w1, w2}
  MaxOut = 1
  Unused = unused
  Nobody = nobody
  Absent = absent
CHECK_DEADLOCK FALSE
PROPERTY RunEnds
PROPERTY PageIsTold
