SPECIFICATION FairSpec
CONSTANTS
  p1 = p1
  p2 = p2
  s1 = s1
  s2 = s2
  proj = proj
  sub = sub
  c1 = c1
  c2 = c2
  NoContext = NoContext
  EventDigest = {c1}
  Global = Global
  None = None
  Producer = {p1, p2}
  Signal = {s1}
  Projection = {proj}
  Subscription = {}
  Context = {c1}
  FilterOf <- GlobalFilterOf
  MaxSequence = 3
  MaxTime = 1
  MaxAge = 0
  MaxMessages = 2
  BatchSize = 1
  PageLimit = 1
PROPERTIES EventuallyApplied ExpiredRowsLeave
