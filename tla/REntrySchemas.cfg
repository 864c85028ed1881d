SPECIFICATION Spec
CONSTANTS
  Iids = {i1}
  Sids = {s1}
  Fields = {f1}
  Good = {std}
  Bad = bad
  Standard = std
  Null = null
  Absent = absent
  Empty = empty
  Text = text
  Blank = blank
  First <- FirstOfSet
  Transactional = TRUE
  MaxControllers = 2
INVARIANT SearchSchemaInForce
INVARIANT StartBlockedByFew
PROPERTY Atomic
