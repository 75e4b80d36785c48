---------------------------- MODULE SceneExport ----------------------------
(***************************************************************************)
(* What a finished scene serves: the USD that is built on demand and cached *)
(* under the scene's directory, and the files the read endpoints pick.      *)
(* Requests, the worker that runs the scene again, the scripts that publish *)
(* files into the directory, and deletion interleave at the awaits.         *)
(* An export is written whole or not at all.                                *)
(*                                                                         *)
(* An object's cloud is what scipy makes of it: [n, full, subs], its points,*)
(* the vertices of its hull (0: degenerate) and those of the hulls of the   *)
(* three subsamples.  The room's is None or [parses, n, voxels], voxels the *)
(* number of occupied voxels at each size tried.                            *)
(***************************************************************************)
EXTENDS Integers, Sequences, FiniteSets, FiniteSetsExt, SequencesExt, TLC

CONSTANTS
  W, H,            \* the grid
  Runs,            \* what a run produces: [id, objects, ceiling, cloud, grid]; objects in name order
  Layers,          \* navigation layers: [low, unseen]; low: lowest surface of a cell, 0 for none
  Robots, Radius, Height,
  Sanitized,       \* object name |-> the prim name it becomes
  MaxHull,         \* hull vertices a collider may have
  MaxPoints, MaxInstances,   \* points and cubes a stage may have
  High,            \* an object whose lowest point is this high is left out
  Packs,           \* published layer packs, in name order: [our, frontend, arrays]
  MsaFiles,        \* names the scripts publish under msa/
  None,
  MaxRuns, MaxRequests

VARIABLES
  row,       \* the scene's row: None or [status, run]
  disk,      \* its directory: None or [run, layer, usd, nvblox, msa]
  req,       \* the USD request that waits for the database, or None
  answer,    \* the last answer: [kind, code, ...]
  deleted,   \* delete_scene has removed the directory and not yet the row
  runs, requests

vars == <<row, disk, req, answer, deleted, runs, requests>>

Cells == (0 .. W - 1) \X (0 .. H - 1)
EmptyDir == [run |-> None, layer |-> None, usd |-> << >>, nvblox |-> FALSE, msa |-> {}]
Answer(kind, code) == [kind |-> kind, code |-> code]

-----------------------------------------------------------------------------
(* The stage: structure boxes and colliders. *)

(* What a robot this tall cannot drive under; unobserved ground is unknown, no obstacle. *)
CellsForHeight(layer, height) == {c \in Cells \ layer.unseen : layer.low[c] \in 1 .. height}

(* The rectangle an unclaimed obstacle cell starts: its run along x, extended while the
   whole next row of it is free to claim.  Upper bounds are exclusive. *)
Claim(c, open) ==
  LET x1 == Min({x \in c[1] .. W : <<x, c[2]>> \notin open})
      z1 == Min({z \in c[2] .. H : \E x \in c[1] .. x1 - 1 : <<x, z>> \notin open})
  IN <<c[1], c[2], x1, z1>>

Covered(box) == (box[1] .. box[3] - 1) \X (box[2] .. box[4] - 1)

(* The scan goes along x, row after row; at an open cell it claims a rectangle. *)
RowMajor(i) == <<(i - 1) % W, (i - 1) \div W>>

ClaimAt(c, scan) ==
  IF c \notin scan.open THEN scan
  ELSE LET box == Claim(c, scan.open)
       IN [open |-> scan.open \ Covered(box), boxes |-> Append(scan.boxes, box)]

MergeObstacleBoxes(obstacle) ==
  LET scan[i \in 0 .. W * H] ==
        IF i = 0 THEN [open |-> obstacle, boxes |-> <<>>] ELSE ClaimAt(RowMajor(i), scan[i - 1])
  IN scan[W * H].boxes

(* A hull that is small enough: the cloud's own, or that of the first subsample under the
   cap; none when the cloud is too small or flat, or no subsample does. *)
BuildConvexHull(cloud) ==
  LET fits == SelectSeq(cloud.subs, LAMBDA v : v \in 1 .. MaxHull)
  IN IF cloud.n < 4 \/ cloud.full = 0 THEN "bbox"
     ELSE IF cloud.full <= MaxHull THEN "convex_hull"
     ELSE IF fits # <<>> THEN "decimated" ELSE "bbox"

(* read_ply of the path the row names: the file of that name the directory has now. *)
ObjectPointCloud(o) ==
  LET files == IF disk = None \/ disk.run = None THEN {} ELSE ToSet(disk.run.objects)
      same == {p \in files : p.file = o.file}
  IN IF same = {} THEN None ELSE (CHOOSE p \in same : TRUE).mesh

Collider(o) == LET cloud == ObjectPointCloud(o) IN IF cloud = None THEN "bbox" ELSE BuildConvexHull(cloud)

Exported(objects, fragments) == SelectSeq(objects, LAMBDA o : (o.fragment => fragments) /\ o.low < High)

(* One prim for every object, numbered among those of the same base name. *)
AddObjects(objects, fragments) ==
  LET kept == Exported(objects, fragments)
      Before(i) == {j \in 1 .. i - 1 : Sanitized[kept[j].name] = Sanitized[kept[i].name]}
  IN [i \in 1 .. Len(kept) |->
        [parent |-> IF kept[i].fragment THEN "_fragments" ELSE "Objects",
         base |-> Sanitized[kept[i].name], idx |-> Cardinality(Before(i)),
         of |-> kept[i].file, source |-> Collider(kept[i])]]

AddStructure(r) == MergeObstacleBoxes(CellsForHeight(r.layer, Height[r.robot]))

(* The points of the guide layer, a sample of them when there are many. *)
AddPointcloud(cloud) == IF cloud = None THEN 0 ELSE Min({cloud.n, MaxPoints})

(* The cubes of the visible layer: the occupied voxels at the first size that has few enough. *)
VoxelDownsample(cloud) ==
  LET few == SelectSeq(cloud.voxels, LAMBDA v : v <= MaxInstances) IN IF few = <<>> THEN None ELSE few[1]

AddPointcloudInstancer(cloud) == IF cloud = None THEN 0 ELSE VoxelDownsample(cloud)

(* A cloud that does not parse, that is empty or that no voxel size thins enough raises. *)
CloudRaises(cloud) ==
  /\ cloud # None
  /\ ~cloud.parses \/ cloud.n = 0 \/ VoxelDownsample(cloud) = None

BuildStage(r, objects, cloud) ==
  [radius |-> Radius[r.robot], boxes |-> AddStructure(r), prims |-> AddObjects(objects, r.fragments),
   points |-> AddPointcloud(cloud), instances |-> AddPointcloudInstancer(cloud), run |-> r.run.id]

-----------------------------------------------------------------------------
(* GET /usd *)

(* mutant of CacheFilename: the platform is not part of the key. *)
CacheByOptions(cloud, fragments, robot) == <<cloud, fragments>>

CacheFilename(cloud, fragments, robot) == <<cloud, fragments, Radius[robot]>>

(* Up to its first await after the scene is loaded.  A file in the cache is served. *)
GetSceneUsd(robot, cloud, fragments) ==
  LET key == CacheFilename(cloud, fragments, robot)
  IN /\ req = None /\ requests < MaxRequests
     /\ requests' = requests + 1
     /\ IF row = None THEN answer' = Answer("error", 404) /\ req' = req
        ELSE IF row.status # "done" THEN answer' = Answer("error", 409) /\ req' = req
        ELSE IF disk # None /\ disk.nvblox THEN answer' = Answer("nvblox", 200) /\ req' = req
        ELSE IF row.run.ceiling = None \/ disk = None \/ disk.layer = None
        THEN answer' = Answer("error", 409) /\ req' = req
        ELSE IF key \in DOMAIN disk.usd
        THEN answer' = [kind |-> "usd", code |-> 200, robot |-> robot, file |-> disk.usd[key]] /\ req' = req
        ELSE /\ req' = [at |-> "objects", key |-> key, robot |-> robot, cloud |-> cloud, fragments |-> fragments,
                        run |-> row.run, layer |-> disk.layer]
             /\ answer' = answer
     /\ UNCHANGED <<row, disk, deleted, runs>>

(* The objects are there: the stage is built and written without another await, into a
   directory that is made when it is missing.  A cloud that cannot be read ends the request. *)
Export ==
  /\ req # None /\ req.at = "objects"
  /\ LET objects == IF row = None THEN <<>> ELSE row.run.objects
         cloud == IF req.cloud /\ disk # None /\ disk.run # None THEN disk.run.cloud ELSE None
         dir == IF disk = None THEN EmptyDir ELSE disk
     IN IF CloudRaises(cloud)
        THEN req' = None /\ answer' = Answer("error", 500) /\ disk' = disk
        ELSE /\ disk' = [dir EXCEPT !.usd = [key \in DOMAIN @ \union {req.key} |->
                              IF key = req.key THEN BuildStage(req, objects, cloud) ELSE @[key]]]
             /\ req' = [req EXCEPT !.at = "commit"]
             /\ answer' = answer
  /\ UNCHANGED <<row, deleted, runs, requests>>

(* set_usd_path, then the file: the row may be gone, or the directory. *)
SetUsdPath ==
  /\ req # None /\ req.at = "commit"
  /\ req' = None
  /\ answer' = IF row = None \/ disk = None \/ req.key \notin DOMAIN disk.usd THEN Answer("error", 500)
               ELSE [kind |-> "usd", code |-> 200, robot |-> req.robot, file |-> disk.usd[req.key]]
  /\ UNCHANGED <<row, disk, deleted, runs, requests>>

-----------------------------------------------------------------------------
(* The read endpoints: the first candidate there is, no repair of what is broken. *)

MsaGlbCandidates == <<"scene.glb", "scene_assets_textured.glb", "scene_textured.glb", "scene_assets.glb">>
MsaObjectsCandidates == <<"objects_audited.json", "objects.json">>

Present == IF disk = None THEN {} ELSE {m.name : m \in disk.msa}
WellFormed == {name \in Present : [name |-> name, whole |-> TRUE] \in disk.msa}
FirstOf(candidates, names) ==
  LET found == {i \in DOMAIN candidates : candidates[i] \in names}
  IN IF found = {} THEN None ELSE candidates[Min(found)]

ResolveMsaGlb == FirstOf(MsaGlbCandidates, Present)
ResolveMsaObjects == FirstOf(MsaObjectsCandidates, WellFormed)

Found(what) == IF what = None THEN Answer("error", 404) ELSE [kind |-> what, code |-> 200]

(* read_msa_meta reports a broken file, where resolve_msa_objects passes over it. *)
ReadMsaMeta ==
  IF "scene_meta.json" \notin Present THEN Answer("error", 404)
  ELSE IF "scene_meta.json" \in WellFormed THEN Found("scene_meta.json") ELSE Answer("error", 500)

FileOf(name) == Found(IF name \in Present THEN name ELSE None)

(* A pack is served only when it is sampled on exactly the scene's grid and its arrays are. *)
FindPackForGrid(grid) ==
  LET Fits(p, v) == p[v] = grid /\ p.arrays[v] = "whole"
      Of(p) == IF Fits(p, "our") THEN "our" ELSE IF Fits(p, "frontend") THEN "frontend" ELSE None
      found == SelectSeq(Packs, LAMBDA p : Of(p) # None)
  IN IF found = <<>> THEN None ELSE [pack |-> found[1], variant |-> Of(found[1])]

GetSceneLayers ==
  IF disk = None \/ disk.run = None THEN Answer("error", 500)
  ELSE LET found == FindPackForGrid(disk.run.grid)
       IN IF found = None THEN Answer("error", 404) ELSE [kind |-> "layers", code |-> 200, of |-> found]

GetSceneMap(format, robot) ==
  IF disk = None \/ disk.layer = None
  THEN IF format = "npy" THEN Answer("error", 409) ELSE [kind |-> "map", code |-> 200, cells |-> None]
  ELSE [kind |-> "map", code |-> 200,
        cells |-> CellsForHeight(disk.layer, Height[IF format = "npy" THEN "default" ELSE robot])]

(* The mesh, the preview and the clouds are files of the run the directory holds. *)
FileOfRun(what) == IF disk = None \/ disk.run = None THEN Answer("error", 404) ELSE Found(what)

Reads(robot) ==
  {Found(ResolveMsaGlb), Found(ResolveMsaObjects), ReadMsaMeta, FileOf("critic.json"), FileOf("fit_prob.json"),
   GetSceneLayers, GetSceneMap("json", robot), GetSceneMap("npy", robot), FileOfRun("mesh"), FileOfRun("map_preview")}

Read(robot) ==
  /\ requests < MaxRequests
  /\ requests' = requests + 1
  /\ IF row = None THEN answer' = Answer("error", 404)
     ELSE IF row.status # "done" THEN answer' = Answer("error", 409)
     ELSE answer' \in Reads(robot)
  /\ UNCHANGED <<row, disk, req, deleted, runs>>

-----------------------------------------------------------------------------
(* The worker, the scripts, and deletion.  An id is never used again. *)

StartRun ==
  /\ runs < MaxRuns /\ ~deleted
  /\ row = None => runs = 0
  /\ row # None => row.status # "processing"
  /\ runs' = runs + 1
  /\ row' = IF row = None THEN [status |-> "processing", run |-> None] ELSE [row EXCEPT !.status = "processing"]
  /\ UNCHANGED <<disk, req, answer, deleted, requests>>

(* The artifacts of a run replace those of the run before; the exports stay where they are. *)
FetchArtifacts(run) ==
  /\ row # None /\ row.status = "processing"
  /\ disk' = [(IF disk = None THEN EmptyDir ELSE disk) EXCEPT !.run = run]
  /\ UNCHANGED <<row, req, answer, deleted, runs, requests>>

(* apply_scene_artifacts and replace_scene_objects, committed with the status. *)
FinishRun ==
  /\ row # None /\ row.status = "processing"
  /\ disk # None /\ disk.run # None
  /\ row' = [status |-> "done", run |-> disk.run]
  /\ UNCHANGED <<disk, req, answer, deleted, runs, requests>>

FailRun ==
  /\ row # None /\ row.status = "processing"
  /\ row' = [row EXCEPT !.status = "failed"]
  /\ UNCHANGED <<disk, req, answer, deleted, runs, requests>>

PublishLayer(layer) ==
  /\ disk # None
  /\ disk' = [disk EXCEPT !.layer = layer]
  /\ UNCHANGED <<row, req, answer, deleted, runs, requests>>

PublishNvblox ==
  /\ disk # None /\ ~disk.nvblox
  /\ disk' = [disk EXCEPT !.nvblox = TRUE]
  /\ UNCHANGED <<row, req, answer, deleted, runs, requests>>

PublishMsa(name, whole) ==
  /\ disk # None
  /\ disk' = [disk EXCEPT !.msa = {m \in @ : m.name # name} \union {[name |-> name, whole |-> whole]}]
  /\ UNCHANGED <<row, req, answer, deleted, runs, requests>>

(* delete_scene and delete_project: the directory first, the row at the commit. *)
RemoveDirectory ==
  /\ row # None /\ ~deleted
  /\ disk' = None /\ deleted' = TRUE
  /\ UNCHANGED <<row, req, answer, runs, requests>>

DeleteRow ==
  /\ deleted
  /\ row' = None /\ deleted' = FALSE
  /\ UNCHANGED <<disk, req, answer, runs, requests>>

(* delete_video drops the row with the video's, and no directory. *)
DeleteVideo ==
  /\ row # None /\ ~deleted
  /\ row' = None
  /\ UNCHANGED <<disk, req, answer, deleted, runs, requests>>

Init ==
  /\ row = None /\ disk = None /\ req = None /\ deleted = FALSE
  /\ answer = Answer("none", 0)
  /\ runs = 0 /\ requests = 0

Next ==
  \/ \E robot \in Robots, cloud, fragments \in BOOLEAN : GetSceneUsd(robot, cloud, fragments)
  \/ Export \/ SetUsdPath
  \/ \E robot \in Robots : Read(robot)
  \/ StartRun \/ FinishRun \/ FailRun
  \/ \E run \in Runs : FetchArtifacts(run)
  \/ \E layer \in Layers : PublishLayer(layer)
  \/ PublishNvblox
  \/ \E name \in MsaFiles, whole \in BOOLEAN : PublishMsa(name, whole)
  \/ RemoveDirectory \/ DeleteRow \/ DeleteVideo

-----------------------------------------------------------------------------
(* Whatever came first and whatever was cached, the USD a client gets is the one it asked
   for: stamped with its platform's radius, its boxes an exact tiling of the cells that
   platform cannot drive under, and no two objects on one prim. *)
ExportIsTheRequested ==
  answer.kind = "usd" =>
    LET file == answer.file
        Tiles(obstacle) ==
          /\ UNION {Covered(file.boxes[i]) : i \in DOMAIN file.boxes} = obstacle
          /\ \A i, j \in DOMAIN file.boxes : i # j => Covered(file.boxes[i]) \cap Covered(file.boxes[j]) = {}
        Path(i) == <<file.prims[i].parent, file.prims[i].base, file.prims[i].idx>>
    IN /\ file.radius = Radius[answer.robot]
       /\ \E layer \in Layers : Tiles(CellsForHeight(layer, Height[answer.robot]))
       /\ \A i, j \in DOMAIN file.prims : i # j => Path(i) # Path(j)

-----------------------------------------------------------------------------
(* What the repository says of itself and the model contradicts: README, "Disagreements
   found".  No run is spent on it. *)

(* What the endpoint's docstring says of its cache, "never a stale one": an export that is
   served is of the run the scene's row describes. *)
ExportIsCurrent ==
  [][answer'.kind = "usd" /\ requests' # requests => answer'.file.run = row.run.id]_vars
=============================================================================
