CONSTANTS
  v1 = v1
  v2 = v2
  Videos <- TwoVideos
  MaxJobs = 2
  Faults <- LiveFaults
SPECIFICATION FairSpec
CHECK_DEADLOCK FALSE
INVARIANT NoSceneStranded
PROPERTY SceneSettles
