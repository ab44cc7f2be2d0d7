\* vm_executor_destroy after an early exit of main: does pthread_join return?
CONSTANTS
  a = a
  b = b
  NoNode = NoNode
  ListHead = ListHead
  Nodes <- TwoNodes
SPECIFICATION Spec
PROPERTY DestroyReturns
\* A process whose executor runs vm_executor_run, or that has ended, takes
\* no further step here: such end states are not errors.
CHECK_DEADLOCK FALSE
