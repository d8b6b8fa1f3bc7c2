CONSTANTS
  t1 = t1
  t2 = t2
  None = None
  Tasks <- MCTasks
  Statuses <- MCStatuses
SPECIFICATION Spec
INVARIANTS
  TypeOK
  NodeErrorFaithful
CHECK_DEADLOCK FALSE
