------------------------------- MODULE Studio -------------------------------
(***************************************************************************)
(* The components around the two services, each on an instance of its own: *)
(* a behaviour picks one `part' and takes its steps, the others stay as    *)
(* they began.  They share no state while they run, only files one of them *)
(* has finished with before another opens them, so nothing is lost by      *)
(* looking at one at a time, and one run of TLC answers for all of them.   *)
(***************************************************************************)
EXTENDS Integers, Sequences, FiniteSets

CONSTANTS
  None,
  (* MsaBootstrap: the grid and the scenes, the thresholds, and two operations of ndimage *)
  RoomW, RoomH, Scans, MinWall, Overhead, FloorTouch, StackTouch, SmallArea, SmallHeight,
  Backfill, Pad, Closing, Opening, ClipMargin, Caps, MaxBoots, PartsOf(_), Surround(_, _),
  (* AgentLoop *)
  Edited, Size, BestFit, StartYaw, StartScale, StepsPerObject, MaxRotateStep,
  MaxRotateCumulative, ScaleStepMin, ScaleStepMax, MaxFootprintDelta, Verifiers, MaxApplied,
  (* Critic *)
  Exports, Placings, Answers, Frames, MaxExports,
  (* GpuJob *)
  Takes, MaxKeyframes, MinSurviving, MaxDropped, MinPlane, CameraLow, CameraHigh, MinExtent,
  MinCell, MinCluster, MinViews, MinDetected, Fragment, BandLow, BandHigh, MaxAttempts,
  Rivals,
  (* NightlyBatch *)
  Projects, NameOf, OnDisk, Errors, Checks, EnvFiles, Fetches, MaxStarts, MaxVideos,
  (* AssetPlacement *)
  Placeable, Detections, Proj, Generated, Assets, Info, Aabb, ApiDims, Synonyms, SmallSynonyms,
  RoundClasses, MinPix, MaxDist, SmallMax, FloorLamp, MinTarget, MaxVersion, MaxReplaced, MaxDeaths,
  (* SceneExport *)
  W, H, Runs, Layers, Robots, Radius, Height, Sanitized, MaxHull, MaxPoints, MaxInstances,
  High, Packs, MsaFiles, MaxRows, MaxRequests,
  (* IsaacValidate *)
  Files, Builds, Options, Steps, SettleHold

VARIABLES
  part,  \* the component this behaviour is about
  bootScan, bootPc, bootObjs, bootOut, bootWalls, bootRoom, bootGaps, bootFrame, bootFiles,
  bootRuns,
  agentState, agentLights, agentExposure, agentApplied, agentTodo, agentPc, agentCur,
  agentTrial, agentTally, agentResults, agentWritten,
  criticObjects, criticGlb, criticReport, criticPlaced, criticRules, criticVlm,
  criticCritic, criticAsking, criticExports, criticRaised,
  gpuTake, gpuRun, gpuPc, gpuPeers, gpuWiped, gpuDir, gpuKf, gpuViews, gpuArt, gpuEnv, gpuVocab,
  gpuXform, gpuCloud, gpuObjects, gpuGrid, gpuStatus, gpuSecond,
  nightVideos, nightScene, nightBatch, nightReport, nightStarts, nightFresh,
  assetsGlb, assetsListed, assetsIndex, assetsManifest, assetsMade, assetsResults,
  assetsTodo, assetsUsd, assetsSide, assetsLocal, assetsAged, assetsPc, assetsPlaced, assetsRefs,
  assetsLeft, assetsCheck, assetsReplaced, assetsDeaths,
  exportRow, exportDisk, exportReq, exportAnswer, exportDeleted, exportRuns, exportRequests,
  isaacArgs, isaacFile, isaacBuild, isaacPc, isaacChecks, isaacUnmet, isaacDrop, isaacSeen, isaacFatal,
  isaacCode

bootVars == <<bootScan, bootPc, bootObjs, bootOut, bootWalls, bootRoom, bootGaps, bootFrame,
  bootFiles, bootRuns>>
agentVars == <<agentState, agentLights, agentExposure, agentApplied, agentTodo, agentPc,
  agentCur, agentTrial, agentTally, agentResults, agentWritten>>
criticVars == <<criticObjects, criticGlb, criticReport, criticPlaced, criticRules,
  criticVlm, criticCritic, criticAsking, criticExports, criticRaised>>
gpuVars == <<gpuTake, gpuRun, gpuPeers, gpuWiped, gpuDir, gpuPc, gpuKf, gpuViews, gpuArt, gpuEnv,
  gpuVocab, gpuXform, gpuCloud, gpuObjects, gpuGrid, gpuStatus, gpuSecond>>
nightVars == <<nightVideos, nightScene, nightBatch, nightReport, nightStarts, nightFresh>>
assetsVars == <<assetsGlb, assetsListed, assetsIndex, assetsManifest, assetsMade,
  assetsResults, assetsTodo, assetsUsd, assetsSide, assetsLocal, assetsAged, assetsPc, assetsPlaced,
  assetsRefs, assetsLeft, assetsCheck, assetsReplaced, assetsDeaths>>
exportVars == <<exportRow, exportDisk, exportReq, exportAnswer, exportDeleted, exportRuns,
  exportRequests>>
isaacVars == <<isaacArgs, isaacFile, isaacBuild, isaacPc, isaacChecks, isaacUnmet, isaacDrop, isaacSeen,
  isaacFatal, isaacCode>>

Boot == INSTANCE MsaBootstrap WITH
  W <- RoomW, H <- RoomH, MaxRuns <- MaxBoots, Components <- PartsOf,
  scan <- bootScan, pc <- bootPc, objs <- bootObjs, out <- bootOut, walls <- bootWalls,
  room <- bootRoom, gaps <- bootGaps, frame <- bootFrame, files <- bootFiles, runs <- bootRuns

Agent == INSTANCE AgentLoop WITH
  Objects <- Edited, Best <- BestFit, state <- agentState, lights <- agentLights,
  exposure <- agentExposure, applied <- agentApplied, todo <- agentTodo, pc <- agentPc,
  cur <- agentCur, trial <- agentTrial, tally <- agentTally, results <- agentResults,
  written <- agentWritten

Review == INSTANCE Critic WITH
  Views <- Frames, NoFile <- None, objects <- criticObjects, glb <- criticGlb,
  report <- criticReport, placed <- criticPlaced, rules <- criticRules, vlm <- criticVlm,
  critic <- criticCritic, asking <- criticAsking, exports <- criticExports,
  raised <- criticRaised

Gpu == INSTANCE GpuJob WITH
  MaxRuns <- MaxAttempts, Extent <- MinExtent, take <- gpuTake,
  run <- gpuRun, pc <- gpuPc, peers <- gpuPeers, wiped <- gpuWiped, dir <- gpuDir,
  kf <- gpuKf, views <- gpuViews, art <- gpuArt,
  env <- gpuEnv, vocab <- gpuVocab, xform <- gpuXform, cloud <- gpuCloud,
  objects <- gpuObjects, grid <- gpuGrid, status <- gpuStatus, second <- gpuSecond

Night == INSTANCE NightlyBatch WITH
  videos <- nightVideos, scene <- nightScene, batch <- nightBatch, report <- nightReport,
  starts <- nightStarts, fresh <- nightFresh

Placement == INSTANCE AssetPlacement WITH
  Objects <- Placeable, glb <- assetsGlb, listed <- assetsListed, index <- assetsIndex,
  manifest <- assetsManifest, made <- assetsMade, results <- assetsResults,
  todo <- assetsTodo, usd <- assetsUsd, side <- assetsSide, local <- assetsLocal, aged <- assetsAged,
  pc <- assetsPc, placed <- assetsPlaced, refs <- assetsRefs, left <- assetsLeft,
  check <- assetsCheck, replaced <- assetsReplaced, deaths <- assetsDeaths

Usd == INSTANCE SceneExport WITH
  MaxRuns <- MaxRows, row <- exportRow, disk <- exportDisk, req <- exportReq,
  answer <- exportAnswer, deleted <- exportDeleted, runs <- exportRuns,
  requests <- exportRequests

Isaac == INSTANCE IsaacValidate WITH
  args <- isaacArgs, file <- isaacFile, build <- isaacBuild, pc <- isaacPc,
  checks <- isaacChecks, unmet <- isaacUnmet, drop <- isaacDrop, seen <- isaacSeen, fatal <- isaacFatal,
  code <- isaacCode

-----------------------------------------------------------------------------
(* None stands for a missing file, a call that failed, the null of a JSON value. *)
ASSUME NoneAssumption == None \notin Nat

(* A scene is a grid and finitely many detected objects, records with an id of their own. *)
ASSUME ScansAssumption ==
  /\ RoomW \in Nat /\ RoomH \in Nat /\ Overhead \in Int
  /\ \A s \in Scans :
       /\ s.obstacle \subseteq Boot!Cells /\ IsFiniteSet(s.objects)
       /\ \A o \in s.objects :
            /\ {"id", "points", "cells"} \subseteq DOMAIN o /\ o.id \in Nat /\ o.points \in Nat
            /\ o.bottom \in Int /\ o.cells \subseteq Int \X Int
       /\ \A a, b \in s.objects : a.id = b.id => a = b

(* What ndimage.label promises of a set of cells: it is cut into parts, none of them empty. *)
PiecesAreParts(S) ==
  /\ \A C \in PartsOf(S) : C # {} /\ C \subseteq S
  /\ \A C, D \in PartsOf(S) : C = D \/ C \cap D = {}
  /\ UNION PartsOf(S) = S

(* A job directory sees a number of pipelines. *)
ASSUME AttemptsAssumption == MaxAttempts \in Nat

(* The grid of an export.  Its cache knows a platform by its radius only, so platforms of one
   radius have one height: the radii of app/robots.py all differ. *)
ASSUME RobotsAssumption ==
  /\ W \in Nat /\ H \in Nat
  /\ \A r, q \in Robots : Radius[r] = Radius[q] => Height[r] = Height[q]

(* Extents are triples of numbers; files and objects have names of their own, and no object that
   of a stage of the assembly. *)
ASSUME LibraryAssumption ==
  /\ IsFiniteSet(Placeable) /\ IsFiniteSet(Assets) /\ MaxVersion \in Nat \ {0}
  /\ \A o \in Placeable : o.size \in [1 .. 3 -> Nat]
  /\ \A a \in Assets :
       /\ Aabb[a] \in [1 .. MaxVersion -> [1 .. 3 -> Nat]]
       /\ ApiDims[a] = None \/ ApiDims[a] \in [1 .. 3 -> Nat]
  /\ Assets \cap Placement!Ids = {}
  /\ Placement!Ids \cap {"idle", "export", "usd"} = {}

(* The limits of the agent loop are numbers, and an object starts within them. *)
ASSUME LoopAssumption ==
  /\ "none" \notin Edited
  /\ Size \in [Edited -> Nat] /\ BestFit \in [Edited -> [yaw : Int, scale : Int]]
  /\ StartYaw \in Int /\ StartScale \in Int /\ StepsPerObject \in Nat
  /\ MaxRotateStep \in Int /\ ScaleStepMin \in Int /\ ScaleStepMax \in Int
  /\ MaxRotateCumulative \in Nat /\ MaxFootprintDelta \in Nat

(* The projects are numbered in the order of their names. *)
ASSUME ProjectsAssumption ==
  /\ IsFiniteSet(Projects) /\ Projects = 1 .. Cardinality(Projects)
  /\ \A p \in Projects : OnDisk[p] \in BOOLEAN

(* What a call of the critic returns is a set of findings, each with a source and a tag. *)
ASSUME AnswersAssumption ==
  \A a \in Answers : \A f \in a :
    f = [k \in DOMAIN f |-> f[k]] /\ {"source", "unverified"} \subseteq DOMAIN f

-----------------------------------------------------------------------------
Init ==
  /\ part \in {"boot", "agent", "critic", "gpu", "night", "assets", "export", "isaac"}
  /\ Boot!Init
  /\ Agent!Init
  /\ Review!Init
  /\ Gpu!Init
  /\ Night!Init
  /\ Placement!Init
  /\ Usd!Init
  /\ Isaac!Init

Next ==
  \/ /\ part = "boot" /\ Boot!Next
     /\ UNCHANGED <<part, agentVars, criticVars, gpuVars, nightVars, assetsVars, exportVars,
                   isaacVars>>
  \/ /\ part = "agent" /\ Agent!Next
     /\ UNCHANGED <<part, bootVars, criticVars, gpuVars, nightVars, assetsVars, exportVars,
                   isaacVars>>
  \/ /\ part = "critic" /\ Review!Next
     /\ UNCHANGED <<part, bootVars, agentVars, gpuVars, nightVars, assetsVars, exportVars,
                   isaacVars>>
  \/ /\ part = "gpu" /\ Gpu!Next
     /\ UNCHANGED <<part, bootVars, agentVars, criticVars, nightVars, assetsVars,
                   exportVars, isaacVars>>
  \/ /\ part = "night" /\ Night!Next
     /\ UNCHANGED <<part, bootVars, agentVars, criticVars, gpuVars, assetsVars, exportVars,
                   isaacVars>>
  \/ /\ part = "assets" /\ Placement!Next
     /\ UNCHANGED <<part, bootVars, agentVars, criticVars, gpuVars, nightVars, exportVars,
                   isaacVars>>
  \/ /\ part = "export" /\ Usd!Next
     /\ UNCHANGED <<part, bootVars, agentVars, criticVars, gpuVars, nightVars, assetsVars,
                   isaacVars>>
  \/ /\ part = "isaac" /\ Isaac!Next
     /\ UNCHANGED <<part, bootVars, agentVars, criticVars, gpuVars, nightVars, assetsVars,
                   exportVars>>

vars == <<part, bootVars, agentVars, criticVars, gpuVars, nightVars, assetsVars, exportVars,
          isaacVars>>

Spec == Init /\ [][Next]_vars

-----------------------------------------------------------------------------
(* Every detected object is in the scene list or recorded by exactly one stage of run_bootstrap
   that took it out. *)
EveryObjectAccounted == Boot!EveryObjectAccounted

(* A measured gap names two exported walls, by the indices under which they are exported. *)
GapsNameWalls == Boot!GapsNameWalls

(* Whatever generator and verifier say, no object turns or grows beyond the limits of the loop. *)
RefinementIsBounded == Agent!RefinementIsBounded

(* What critic.json offers to a gate is what the rules measured. *)
AdvisoryNeverGates == Review!AdvisoryNeverGates

(* A job directory whose status says done holds nothing of an attempt that was over before. *)
DoneIsWhole == Gpu!DoneIsWhole

(* An obstacle of the grid was seen by as many views as the filter asks for. *)
ObstaclesAreWitnessed == Gpu!ObstaclesAreWitnessed

(* A project costs a second GPU job of the night only without an entry in the resume map. *)
OneJobPerNight == Night!OneJobPerNight

(* An assembly that ends ok shows the files its GLB shows, whole and in their versions, but for
   files that share a place and files replaced by older ones. *)
VisualsAreCurrent == Placement!VisualsAreCurrent

(* The USD a client gets is the one it asked for. *)
ExportIsTheRequested == Usd!ExportIsTheRequested

(* An exit code of 0 of the Isaac validation is earned. *)
PassIsEarned == Isaac!PassIsEarned
=============================================================================
