SPECIFICATION FairSpec
CONSTANTS
  NumOther = 1
  MaxResults = 3
  MaxCrashes = 2
  MaxBreaks = 1
INVARIANT ResultKept
INVARIANT RestSent
PROPERTY StoreReturns
CHECK_DEADLOCK FALSE
