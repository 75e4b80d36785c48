CONSTANTS
  v1 = v1
  v2 = v2
  Videos <- OneVideo
  MaxJobs = 2
  Faults <- FaultKinds
SPECIFICATION Spec
CHECK_DEADLOCK FALSE
INVARIANT FilesMatchRows
PROPERTY RefinesLifecycle
