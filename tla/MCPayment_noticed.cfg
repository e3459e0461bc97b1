SPECIFICATION FairSpec
CONSTANTS
  c1 = c1
  s1 = s1
  s2 = s2
  s3 = s3
  k1 = k1
  r1 = r1
  r2 = r2
  NoOne = NoOne
  Collections = {c1}
  Sessions = {s1, s2, s3}
  Home <- OneHome
  Provider <- CardAndPages
  Amount = 1
  Causes = {k1}
  Ceiling = 1
  Drawn <- FromOne
  Refunders = {}
  Parts = {}
  Watched = {s1, s2, s3}
  MaxHolds = 1
  MaxPages = 1
  Losses <- FirstLost
CHECK_DEADLOCK FALSE
PROPERTY UnaccountedIsReported
