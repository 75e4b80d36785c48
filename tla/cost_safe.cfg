CONSTANTS
  Cap = 3
  PerRun = 2
  Interval = 1
  StepMax = 2
  ConfirmMax = 1
  MaxRuns = 2
  MaxTime = 8
  Faults <- MeasuredFaults
SPECIFICATION Spec
CHECK_DEADLOCK FALSE
INVARIANT LedgerWithinCap
INVARIANT OverrunIsBounded
INVARIANT CostIsMeasured
