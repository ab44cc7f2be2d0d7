\* The control plane of two executors: init, exchanges, early shutdown.
CONSTANTS
  a = a
  b = b
  NoNode = NoNode
  ListHead = ListHead
  Nodes <- TwoNodes
SPECIFICATION Spec
INVARIANT TypeOK DstListIntact UbListCorrect
PROPERTY ExchangeEnds
\* A process whose executor runs vm_executor_run, or that has ended, takes
\* no further step here: such end states are not errors.
CHECK_DEADLOCK FALSE
