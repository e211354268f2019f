CONSTANTS
  Ends <- MCEnds
  Files <- MCFiles
  Ports <- MCPorts
  Key = Key
  Cuts <- MCCuts
  MaxEdits = 1
SPECIFICATION Spec
INVARIANTS
  TypeOK
  FirstLikeLater
  OwnSettings
  EndsAgree
