CONSTANTS
  a = a
  b = b
  Nodes <- TwoNodes
  RX_DEPTH = 2
  MAX_MSG = 4
  GRH = 1
  Sizes <- MixedSizes
  MAX_MSGS = 3
SPECIFICATION Spec
CHECK_DEADLOCK FALSE
INVARIANT TypeOK CqNeverOverruns
PROPERTY SendQueueDrains
