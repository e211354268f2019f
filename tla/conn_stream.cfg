CONSTANTS
  Base = 3
  MinChunk = 5
  Modes <- AllModes
  Messages <- Clear
  ReadSizes = {2, 4}
  MaxSent = 14
SPECIFICATION FairSpec
CHECK_DEADLOCK FALSE
INVARIANTS
  TypeOK
PROPERTIES
  ImplementsStream
  EveryByteArrives
