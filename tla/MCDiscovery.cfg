SPECIFICATION FairSpec
CONSTANTS
  Versions = {1, 2, 3}
  Ports = {p1}
  Communities = {c1, c2}
  Workers = {w1, w2}
  p1 = p1
  c1 = c1
  c2 = c2
  w1 = w1
  w2 = w2
INVARIANT BestVersion
INVARIANT ErrorIsHonest
INVARIANT CriticalKept
PROPERTY SearchEnds
CHECK_DEADLOCK FALSE
