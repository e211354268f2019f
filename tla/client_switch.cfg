CONSTANTS
  Workers = {w1}
  Users = {}
  Sessions = {s1}
  NPaths = 2
  TlsPaths = {}
  SlowPaths = {}
  None = None
SPECIFICATION FairSpec
PROPERTIES
  AutoSwitch
