SPECIFICATION FairSpec
CONSTANTS
  s1 = s1
  r1 = r1
  r2 = r2
  k1 = k1
  k2 = k2
  Sids = {s1}
  Requests = {r1, r2}
  Slots = {k1, k2}
  MaxEdits = 2
  Broken = {1}
  Blank = blank
  Failed = failed
INVARIANT TypeOK
INVARIANT WaitHasLoad
PROPERTY RendersAtOnce
PROPERTY LoadYieldsToTask
PROPERTY EveryViewAnswers
PROPERTY SettlesOnCurrent
