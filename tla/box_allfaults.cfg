CONSTANTS
  b1 = b1
  b2 = b2
  b3 = b3
  Boxes <- MCBoxes
  FirstBox = b1
  MaxAttempts = 2
  MaxRuns = 2
  Faults <- FaultKinds
SPECIFICATION Spec
CHECK_DEADLOCK FALSE
INVARIANT DoneReportsItsBox
INVARIANT ConfirmedIsDown
