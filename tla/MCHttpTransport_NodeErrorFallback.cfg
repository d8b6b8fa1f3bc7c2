CONSTANTS
  t1 = t1
  t2 = t2
  None = None
  Tasks <- MCTasks
  Statuses <- MCStatuses
SPECIFICATION Spec
INVARIANTS
  NodeErrorFallback
CHECK_DEADLOCK FALSE
