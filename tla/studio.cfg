CONSTANTS
  None = None
  PartsOf <- Pieces
  Surround <- FlowIn
  RoomW = 10
  RoomH = 8
  Scans <- AllScans
  MinWall = 3
  Overhead = 8
  FloorTouch = 2
  StackTouch = 1
  SmallArea = 2
  SmallHeight = 1
  Backfill = 1
  Pad = 1
  Closing = 1
  Opening = 1
  ClipMargin = 1
  Caps <- FewTables
  MaxBoots = 2
  Edited = {"bed", "sofa"}
  Size <- BedAndSofa
  BestFit <- BestOfBoth
  StartYaw = 2
  StartScale = 97
  StepsPerObject = 2
  MaxRotateStep = 3
  MaxRotateCumulative = 4
  ScaleStepMin = 95
  ScaleStepMax = 105
  MaxFootprintDelta = 5
  Verifiers = {"kimi"}
  MaxApplied = 2
  Exports <- BothExports
  Placings <- OnePlacing
  Answers <- OneAnswer
  Frames = {"view_0", "view_5"}
  MaxExports = 2
  Takes <- Attempts
  MaxKeyframes = 4
  MinSurviving = 2
  MaxDropped = 34
  MinPlane = 3
  CameraLow = 3
  CameraHigh = 6
  MinExtent = 5
  MinCell = 2
  MinCluster = 2
  MinViews = 2
  MinDetected = 1
  Fragment = 5
  BandLow = 2
  BandHigh = 5
  MaxAttempts = 2
  Rivals <- Survivor
  Projects = {1, 2}
  NameOf <- ProjectNames
  OnDisk <- AllOnDisk
  Errors <- AnyError
  Checks = {"room_dimensions", "height_prior_majority"}
  EnvFiles <- EmptyEnv
  Fetches <- AnyFetch
  MaxStarts = 2
  MaxVideos = 4
  Placeable <- Furniture
  Detections <- Sightings
  Proj <- Projections
  Generated <- OnlyTheDesk
  Assets <- Library
  Info <- Listing
  Aabb <- Extents
  ApiDims <- OnlyTheApi
  Synonyms <- DeskWords
  SmallSynonyms <- CupWords
  RoundClasses = {"cup"}
  MinPix = 200
  MaxDist = 100
  SmallMax = 60
  FloorLamp = 100
  MinTarget = 1
  MaxVersion = 2
  MaxReplaced = 1
  MaxDeaths = 1
  W = 3
  H = 3
  Runs <- BothScans
  Layers <- JustOneLayer
  Robots = {"default", "husky"}
  Radius <- RobotRadius
  Height <- RobotHeight
  Sanitized <- PrimNames
  MaxHull = 8
  MaxPoints = 6
  MaxInstances = 4
  High = 20
  Packs <- NvbloxPacks
  MsaFiles = {"objects.json"}
  MaxRows = 1
  MaxRequests = 2
  Files <- Stages
  Builds <- Installed
  Options <- CommandLines
  Steps = 4
  SettleHold = 2
INIT MCInit
NEXT Next
CONSTRAINT ToolsApart
CHECK_DEADLOCK FALSE
INVARIANT EveryObjectAccounted
INVARIANT GapsNameWalls
INVARIANT RefinementIsBounded
INVARIANT AdvisoryNeverGates
INVARIANT DoneIsWhole
INVARIANT ObstaclesAreWitnessed
INVARIANT OneJobPerNight
INVARIANT VisualsAreCurrent
INVARIANT ExportIsTheRequested
INVARIANT PassIsEarned
