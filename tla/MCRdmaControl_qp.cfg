\* Is every address a node learns that of a queue pair able to receive?
CONSTANTS
  a = a
  b = b
  NoNode = NoNode
  ListHead = ListHead
  Nodes <- TwoNodes
SPECIFICATION Spec
INVARIANT KnownDestsReady
\* A process whose executor runs vm_executor_run, or that has ended, takes
\* no further step here: such end states are not errors.
CHECK_DEADLOCK FALSE
