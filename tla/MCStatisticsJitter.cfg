SPECIFICATION StatsSpec
CONSTANTS
  Replies <- MCReplies
  Periods <- JitterPeriods
INVARIANT JitterExtremes
CHECK_DEADLOCK FALSE
