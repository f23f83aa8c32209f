SPECIFICATION FairSpec
CONSTANTS
  d1 = d1
  d2 = d2
  Router = router
  router = router
  Dist <- MCDist
  Workers = {w1, w2}
  Receivers = {r1, r2}
  Dests = {d1}
  MaxHops = 1
  Count = 1
  ChanCap = 1
  IdMod = 5
  QuotedTTLs = {1}
  ForeignIds = {}
  WantedHops = {1}
  MaxTraces = 2
PROPERTY TraceReturns
INVARIANT SessionsOpen
INVARIANT ServedSessionsOpen
CHECK_DEADLOCK FALSE
