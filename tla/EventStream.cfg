SPECIFICATION FairSpec
CONSTANTS
  d1 = d1
  d2 = d2
  t1 = t1
  t2 = t2
  r1 = r1
  w1 = w1
  w2 = w2
  Terminals = {t1, t2}
  Explicit = {r1}
  Deltas = {d1, d2}
  Waiters = {w1, w2}
  Capacity = 1
INVARIANTS
  ResolvedBeforeSeen OneResult
PROPERTIES
  EndBeatsCancel ImplementsEventFeed EndReachesAll
CHECK_DEADLOCK FALSE
