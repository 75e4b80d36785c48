CONSTANTS
  v1 = v1
  v2 = v2
  Votes <- MCVotes
  JobFlags <- OwnFlags
  MaxRuns = 3
  Faults <- AllFaults
SPECIFICATION Spec
CHECK_DEADLOCK FALSE
INVARIANT VotedStack
INVARIANT OneFusion
INVARIANT ControlsKept
INVARIANT SceneIsOneFusion
