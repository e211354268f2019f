CONSTANTS
  Addrs = {a1, a2}
  Flows = {f1, f2}
  None = None
SPECIFICATION FairSpec
INVARIANTS
  TypeOK
  MapSound
  LoadExact
PROPERTIES
  ReadersLeave
  IdleFlowsSwept
