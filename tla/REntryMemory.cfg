SPECIFICATION Spec
CONSTANTS
  Iids = {i1}
  Sids = {s1}
  Fields = {f1}
  Good = {std}
  Bad = bad
  Standard = std
  Null = null
  Absent = absent
  Empty = empty
  Text = text
  Blank = blank
  First <- FirstOfSet
  Transactional = FALSE
  MaxControllers = 1
INVARIANT StoredIsRegistered
INVARIANT NoOrphanSchema
