CONSTANTS
  None = None
  Intervals <- MCIntervals
  Timeouts <- MCTimeouts
  MaxLatency = 2
  Async = TRUE
SPECIFICATION Spec
CONSTRAINT StateBound
INVARIANTS
  TypeOK
  TimeoutWindow
  PollBudget
