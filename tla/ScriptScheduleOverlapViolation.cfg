SPECIFICATION Spec
CONSTANTS
  Sids = {s1}
  Sound = {sound}
  Throwing = {throwing}
  Uncompilable = {broken}
  NoContent = noContent
  always = always
  twice = twice
  never = never
  Times = {always}
  Malformed = malformed
  Limit <- MCLimit
  Workers = {w1, w2}
  Absent = absent
  NoJob = noJob
  Spent = spent
  Rejected = rejected
  Idle = idle
  Transactional = TRUE
SYMMETRY WorkerSymmetry
INVARIANT OneRunAtATime
