SPECIFICATION Spec
CONSTANTS
  Iids = {i1}
  Sids = {}
  Fields = {f1}
  Good = {std, anal}
  Bad = bad
  Standard = std
  Null = null
  Absent = absent
  Empty = empty
  Text = text
  Blank = blank
  First <- FirstOfSet
  Transactional = TRUE
  MaxControllers = 2
INVARIANT TypeOK
INVARIANT OpenIffRegistered
INVARIANT ManualSchemaInForce
INVARIANT QueryAnalyzerInForce
INVARIANT CommittedNamesLoad
