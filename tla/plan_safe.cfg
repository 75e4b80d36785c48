CONSTANTS
  W = 7
  H = 6
  Margin = 2
  Search = 5
  Snap = 2
  AnchorMargin = 6
  Isolated = 1
  Layouts <- Rooms
  Robots <- MCRobots
  Moves <- MCMoves
  Places <- MCPlaces
  Texts <- MCTexts
  MaxRequests = 2
  Faults <- SafeFaults
SPECIFICATION Spec
CHECK_DEADLOCK FALSE
INVARIANT RoutesAreClear
INVARIANT ReachableMeansRoutable
INVARIANT AnswerIsCurrent
INVARIANT CommandRecorded
INVARIANT AstarFindsCheapest
INVARIANT RectangleIsSound
