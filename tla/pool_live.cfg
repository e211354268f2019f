CONSTANTS
  Sessions = {s1}
  Conns = {c1, c2}
  Inbound = {i1}
  MaxStreams = 1
  IntMax = 3
  None = None
SPECIFICATION FairSpec
PROPERTIES
  ClosedLeavesPool
  ClosedDrains
  BrokenCloses
  RetiredCloses
  UserServed
