CONSTANTS
  Base = 3
  MinChunk = 5
  Modes <- SplitStealth
  Messages <- Tailed
  ReadSizes = {4}
  MaxSent = 8
SPECIFICATION Spec
CHECK_DEADLOCK FALSE
INVARIANTS
  NothingLost
