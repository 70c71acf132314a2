SPECIFICATION FairSpec
CONSTANTS
  r = r
  p = p
  q = q
  s = s
  x = x
  y = y
  t = t
  u = u
  Pages <- SomePages
  Root = r
  Titles <- SomeTitles
  Sites <- SomeSites
  Installed = {t}
  maxRequests = 5
  maxEntries = 3
  maxDepth = 3
  MaxGen = 3
  MaxQueue = 3
  None = None
INVARIANTS
  TypeOK
  CompleteUnlessTold
  CoverOfItsTitle
PROPERTIES
  LoadingEnds
