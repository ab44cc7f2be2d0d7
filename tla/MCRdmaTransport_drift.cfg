CONSTANTS
  a = a
  b = b
  Nodes <- OneNode
  RX_DEPTH = 2
  MAX_MSG = 4
  GRH = 1
  Sizes <- ImageSize
  MAX_MSGS = 5
SPECIFICATION Spec
CHECK_DEADLOCK FALSE
INVARIANT DeliveredIntact
