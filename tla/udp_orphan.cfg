CONSTANTS
  Addrs = {a1}
  Flows = {f1, f2}
  None = None
SPECIFICATION Spec
INVARIANTS
  OpenFlowsMapped
