SPECIFICATION Spec
CONSTANTS
  Iids = {i1, i2}
  Sids = {s1}
  Fields = {}
  Good = {std}
  Bad = bad
  Standard = std
  Null = null
  Absent = absent
  Empty = empty
  Text = text
  Blank = blank
  First <- FirstOfSet
  Transactional = TRUE
  MaxControllers = 3
INVARIANT SearcherFollowsTarget
INVARIANT StaleOnlyIfRemoved
