SPECIFICATION StatsSpec
CONSTANTS
  Replies <- MCReplies
  Periods <- MCPeriods
INVARIANT CellsAreRanks
INVARIANT JitterSplitsVariance
INVARIANT EstimateCovers
CHECK_DEADLOCK FALSE
