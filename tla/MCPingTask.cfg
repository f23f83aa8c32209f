SPECIFICATION FairSpec
CONSTANTS
  PeriodNum = 2
  PeriodPacketNum = 2
  WaitMs = 1
  StraySeqs = {}
  MaxReads = 2
INVARIANT TypeOK
INVARIANT ReportedWasSent
INVARIANT NoPanic
PROPERTY FirstReplyKept
PROPERTY PingEnds
PROPERTY ReceiversEnd
CHECK_DEADLOCK FALSE
