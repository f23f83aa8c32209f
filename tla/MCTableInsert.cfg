SPECIFICATION FairSpec
CONSTANTS
  NumTypes = 2
  MaxTables = 3
  MaxStores = 2
  MaxEngines = 2
  MaxLate = 1
  None = None
PROPERTY RowsOnce
PROPERTY LoadEnds
CHECK_DEADLOCK FALSE
