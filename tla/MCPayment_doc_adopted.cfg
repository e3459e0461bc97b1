SPECIFICATION Spec
CONSTANTS
  c1 = c1
  s1 = s1
  s2 = s2
  s3 = s3
  k1 = k1
  r1 = r1
  r2 = r2
  NoOne = NoOne
  Collections = {c1}
  Sessions = {s1, s2, s3}
  Home <- OneHome
  Provider <- CardAndPage
  Amount = 2
  Causes = {k1}
  Ceiling = 2
  Drawn <- FromOne
  Refunders = {}
  Parts = {s1}
  Watched = {}
  MaxHolds = 1
  MaxPages = 1
  Losses <- NoLosses
INVARIANT BookedOnce
CHECK_DEADLOCK FALSE
