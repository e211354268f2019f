CONSTANTS
  Ends <- MCServer
  Files <- MCFiles
  Ports <- MCPorts
  Key = Key
  Cuts <- MCCuts
  MaxEdits = 1
SPECIFICATION Spec
INVARIANTS
  EditsApply
