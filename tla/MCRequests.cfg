SPECIFICATION FairSpec
CONSTANTS
  Callers = {c1, c2}
  OIDs = {"o1", "o2", "o3"}
  Existing = {"o1", "o2"}
  Subtree = {"o2", "o3"}
  Gets <- MCGets
  MaxOids = 2
  Bulk = TRUE
  MaxCalls = 3
  Tree = Tree
  Path = Path
  c1 = c1
  c2 = c2
INVARIANT AnswersComplete
INVARIANT NotAskedAgain
PROPERTY CallsReturn
CHECK_DEADLOCK FALSE
