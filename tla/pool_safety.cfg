CONSTANTS
  Sessions = {s1, s2}
  Conns = {c1, c2, c3}
  Inbound = {}
  MaxStreams = 1
  IntMax = 1
  None = None
SPECIFICATION Spec
SYMMETRY Symmetry
CHECK_DEADLOCK FALSE
INVARIANTS
  TypeOK
  PoolOwned
  CountExact
  NoOrphanSession
  PoolInv
  PanicOnlyByOverflow
PROPERTIES
  FullOnlyIfAllClosed
  ImplementsLedger
