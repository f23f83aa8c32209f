SPECIFICATION Spec
CONSTANTS
  Addrs = {"dest", "r1", "r2"}
  Dest = "dest"
  MaxDist = 3
  MaxReplies = 4
INVARIANT TraceGroupsReplies
INVARIANT HopsOrdered
INVARIANT TableCoversHops
CHECK_DEADLOCK FALSE
