CONSTANTS
  p1 = p1
  p2 = p2
  None = None
  Procs <- MCProcs
SPECIFICATION Spec
INVARIANT NonceStrictlyIncreasing
CHECK_DEADLOCK FALSE
