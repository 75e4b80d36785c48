CONSTANTS
  v1 = v1
  v2 = v2
  Videos <- OneVideo
  MaxJobs = 3
  Faults <- CancelAndRetry
SPECIFICATION Spec
CHECK_DEADLOCK FALSE
INVARIANT NotStuckProcessing
