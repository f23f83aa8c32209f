SPECIFICATION FairSpec
CONSTANTS
  NumPoints = 2
  Own = {2}
  TTLs = {9}
  QueueCap = 1
  Tracers = {w1}
  w1 = w1
  MaxRounds = 4
  MaxFaults = 1
  NoTask = NoTask
INVARIANT RoundsInOrder
PROPERTY LogKept
PROPERTY LastRoundsStay
PROPERTY RoundsGoOn
 
CHECK_DEADLOCK FALSE
