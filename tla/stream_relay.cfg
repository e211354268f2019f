CONSTANTS
  Kinds = {"reverse", "legacy", "forward", "fake"}
  Target <- MCTarget
  MaxUp = 1
  MaxDown = 1
  Cap = 1
SPECIFICATION FairSpec
CHECK_DEADLOCK FALSE
INVARIANTS
  TypeOK
  DialsTarget
  StaysOpen
  CompleteAtEof
PROPERTIES
  ImplementsStreams
  EndsTearDown
