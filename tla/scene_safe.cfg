CONSTANTS
  v1 = v1
  v2 = v2
  Videos <- TwoVideos
  MaxJobs = 3
  Faults <- NoFaults
SPECIFICATION Spec
CHECK_DEADLOCK FALSE
INVARIANT TypeOK
INVARIANT DoneIsFresh
