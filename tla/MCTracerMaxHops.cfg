SPECIFICATION Spec
CONSTANTS
  d1 = d1
  d2 = d2
  Router = router
  router = router
  Dist <- MCDist
  Workers = {w1}
  Receivers = {r1, r2}
  Dests = {d1}
  MaxHops = 3
  Count = 1
  ChanCap = 3
  IdMod = 5
  QuotedTTLs = {2}
  ForeignIds = {2}
  WantedHops = {1}
  MaxTraces = 2
INVARIANT WantedHopsRespected
CHECK_DEADLOCK FALSE
SYMMETRY Symmetry
