CONSTANTS
  Workers = {w1, w2}
  Users = {u1}
  Sessions = {s1, s2}
  NPaths = 2
  TlsPaths = {1}
  SlowPaths = {0}
  None = None
SPECIFICATION FairSpec
INVARIANTS
  TypeOK
  PoolOwned
  NoLeak
PROPERTIES
  LiveStaysPooled
  DeadSessionRedialed
  RefusedTriesAll
