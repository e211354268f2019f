CONSTANTS
  Dialers = {d1, d2}
  Others = {o1, o2}
  NFds = 4
  None = None
SPECIFICATION Spec
SYMMETRY Symmetry
INVARIANTS
  TypeOK
  NoDescriptorLeak
PROPERTIES
  FirstTheft
