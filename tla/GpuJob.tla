------------------------------- MODULE GpuJob -------------------------------
(***************************************************************************)
(* gpu/: one job directory on the rented box.  run_pipeline.sh runs seven  *)
(* stages over it, each a process of its own that reads files of the stages *)
(* before; job_io writes status.json and result.json; rerun_align repeats   *)
(* the alignment of a job that is over, beside the job's own.  The backend  *)
(* pushes a job into the directory, starts its pipeline over ssh, and       *)
(* removes the directory, when the removal gets through.  Nothing stops a   *)
(* pipeline whose task was cancelled or timed out, and a start whose answer *)
(* was lost is sent again: several pipelines may work in one directory.     *)
(*                                                                         *)
(* A point is [v, at, y, conf, label]: the view that saw it, its grid cell, *)
(* its height, its confidence and what the segmenter calls it.  Rotations   *)
(* are the identity or the half turn that puts a ceiling-side floor below.  *)
(***************************************************************************)
EXTENDS Integers, Sequences, FiniteSets, FiniteSetsExt, SequencesExt

CONSTANTS
  Takes,        \* what one attempt's models return, and its params
  MaxKeyframes, \* max_keyframes
  MinSurviving, \* min_surviving_views
  MaxDropped,   \* max_dropped_fraction, in percent
  MinPlane,     \* min_support of a plane candidate
  CameraLow, CameraHigh,  \* floor_camera_height_range
  Extent,       \* floor_extent_frac, in percent
  MinCell, MinCluster, MinViews, MinDetected, Fragment,
  BandLow, BandHigh, None,
  MaxRuns,      \* bound on the pipelines of one directory
  Rivals        \* bound: the takes pushed while another pipeline is at work

VARIABLES
  take,               \* input.mp4 and params.json: what the models make of them
  run, pc,            \* the pipelines pushed, and where each is
  peers, wiped,       \* history: who was at work beside whom, and whose files were removed
  dir,                \* logs/ is there, without which no stage can start
  kf,                 \* keyframes/kf_*.jpg: number |-> run that wrote it
  views,              \* per_view/view_*.npz: number |-> [run, cam, points]
  art,                \* the other artifacts: name |-> run that wrote it, 0 when absent
  env,                \* the job's .env is on the box
  vocab, xform, cloud, objects, grid,  \* contents of vocab.json, alignment, the .ply, objects, occupancy.npy
  status,             \* status.json
  second              \* aligned_v2, written by rerun_align

crew == <<run, peers, wiped, dir>>
vars == <<take, crew, pc, kf, views, art, env, vocab, xform, cloud, objects, grid, status, second>>

Artifacts == {"keyframes_json", "vocab_json", "report", "infer_meta", "alignment", "scene_objects",
              "occupancy", "glb", "result"}
StageOrder == <<"keyframes", "vocab", "infer", "align", "objects", "occupancy", "export_glb">>

Empty == [n \in {} |-> 0]
Abs(n) == IF n < 0 THEN -n ELSE n
Median(S) == CHOOSE m \in S : /\ 2 * Cardinality({x \in S : x < m}) <= Cardinality(S)
                              /\ 2 * Cardinality({x \in S : x > m}) < Cardinality(S)
Around(c) == (c[1] - 1 .. c[1] + 1) \X (c[2] - 1 .. c[2] + 1)
Spot(c, S) == CHOOSE comp \in SUBSET S :
  /\ c \in comp /\ \A d \in comp : Around(d) \intersect S \subseteq comp
  /\ \A part \in SUBSET comp : (c \in part /\ part # comp) => \E d \in part : ~(Around(d) \intersect comp \subseteq part)
Components(S) == {Spot(c, S) : c \in S}
Cells(points) == {p.at : p \in points}
BoxOf(cells) == (Min({c[1] : c \in cells}) .. Max({c[1] : c \in cells}))
                  \X (Min({c[2] : c \in cells}) .. Max({c[2] : c \in cells}))
Touch(name, r) == art' = [art EXCEPT ![name] = r]

-----------------------------------------------------------------------------
(* The camera convention of a view: camera_convention.py *)

CheckConvention(v) ==
  IF ~v.wellFormed \/ v.pixels = 0 \/ v.front < 95 \/ v.median >= 50 THEN "signature"
  ELSE IF v.median > 15 \/ v.p95 > 45 THEN "drop"
  ELSE IF v.median > 1 THEN "warn" ELSE "clean"

JobFails(results) ==
  LET n == Len(results)
      dropped == Cardinality({i \in 1 .. n : results[i] = "drop"})
  IN \/ \E i \in 1 .. n : results[i] = "signature"
     \/ 100 * dropped > MaxDropped * n
     \/ n - dropped < MinSurviving

-----------------------------------------------------------------------------
(* The vocabulary: stage_vocab.py *)

Entries(raw) == {[e EXCEPT !.size = IF @ \in {"small", "large"} THEN @ ELSE "medium"] :
                   e \in {e \in raw : e.name # "none"}}
Provider(p) == IF take[p] = None \/ Entries(take[p]) = {} THEN None ELSE Entries(take[p])
DispatchVocab ==
  IF take.override # {} THEN Entries(take.override)
  ELSE IF take.provider = "openrouter" THEN Provider("openrouter")
  ELSE IF Provider("vertex") # None THEN Provider("vertex") ELSE Provider("openrouter")

-----------------------------------------------------------------------------
(* Floor and ceiling: floor_ceiling.py *)

Pooled == UNION {views[i].points : i \in DOMAIN views}
Cameras == {views[i].cam : i \in DOMAIN views}

(* The largest cluster's box, walls of noise and far rooms left outside. *)
RoomOf(points) ==
  LET size(comp) == Cardinality({p \in points : p.at \in comp})
      comps == Components(Cells(points))
  IN BoxOf(CHOOSE c \in comps : \A d \in comps : size(d) <= size(c))

Band(points, low) ==
  LET ys == {p.y : p \in points}
      extent == Max(ys) - Min(ys)
  IN {p \in points : /\ extent > 0
                      /\ IF low THEN 10 * (p.y - Min(ys)) <= 4 * extent ELSE 10 * (Max(ys) - p.y) <= 4 * extent}
At(points, y) == {p \in points : p.y = y}
Candidates(points) == {y \in {p.y : p \in points} : Cardinality(At(points, y)) >= MinPlane}
Best(points, ys) == CHOOSE y \in ys : \A z \in ys : Cardinality(At(points, z)) <= Cardinality(At(points, y))

CameraOK(y) == LET h == Abs(Median(Cameras) - y) IN CameraLow <= h /\ h <= CameraHigh
ExtentOK(points, y, area) == 100 * Cardinality(Cells(At(points, y))) >= Extent * area
SelectFloor(points, low, area) ==
  LET ys == Candidates(points)
      most == Cardinality(At(points, Best(points, ys)))
      eligible == {y \in ys : 5 * Cardinality(At(points, y)) >= most}
      sane == {y \in eligible : CameraOK(y) /\ ExtentOK(points, y, area)}
  IN IF sane = {} THEN Best(points, eligible) ELSE IF low THEN Min(sane) ELSE Max(sane)

(* None: no horizontal plane on one side. *)
FindFloorAndCeiling(points, area) ==
  LET lo == Band(points, TRUE)  hi == Band(points, FALSE)
      los == Candidates(lo)     his == Candidates(hi)
      isLow == Cardinality(At(lo, Best(lo, los))) >= Cardinality(At(hi, Best(hi, his)))
  IN IF los = {} \/ his = {} THEN None
     ELSE IF isLow THEN [floor |-> SelectFloor(lo, TRUE, area), ceiling |-> Best(hi, his), up |-> TRUE]
     ELSE [floor |-> SelectFloor(hi, FALSE, area), ceiling |-> Best(lo, los), up |-> FALSE]

Aligned(p, x) == IF x.up THEN [p EXCEPT !.y = @ - x.floor]
                 ELSE [p EXCEPT !.y = x.floor - @, !.at = <<@[1], -@[2]>>]

(* The lowest tenth of the confidences is cut, where the model gives any. *)
Cutoff(points) ==
  LET confs == {p.conf : p \in points}
  IN CHOOSE c \in confs : /\ 10 * Cardinality({p \in points : p.conf < c}) <= Cardinality(points)
                          /\ \A d \in confs : 10 * Cardinality({p \in points : p.conf < d}) <= Cardinality(points) => d <= c

RunAlign ==
  LET room == RoomOf(Pooled)
      inRoom == {p \in Pooled : p.at \in room}
      fc == FindFloorAndCeiling(inRoom, Cardinality(room))
  IN IF Pooled = {} THEN None ELSE IF fc = None THEN None
     ELSE LET kept == {p \in {Aligned(p, fc) : p \in inRoom} : p.y >= 0}
              cut == Cutoff(kept)
              clear == {p \in kept : p.conf >= cut}
          IN [fc |-> fc, cutoff |-> cut, box |-> BoxOf(Cells(clear)), cloud |-> clear,
              wrong |-> 100 * Cardinality({p \in inRoom : Aligned(p, fc).y < 0}) > 9 * Cardinality(inRoom)]

-----------------------------------------------------------------------------
(* Objects: stage_objects.py.  One per cluster of a concept's points. *)

Detected(name) ==
  LET seen(i) == {p \in views[i].points : p.label = name /\ p.conf >= xform.cutoff}
  IN {p \in UNION {{Aligned(p, xform.fc) : p \in seen(i)} :
                     i \in {i \in DOMAIN views : Cardinality(seen(i)) >= MinDetected}} : p.at \in xform.box}
ObjectsOf(name) ==
  LET points == Detected(name)
      of(comp) == {p \in points : p.at \in comp}
  IN {[label |-> name, cells |-> BoxOf(comp),
       fragment |-> Cardinality(of(comp)) < Fragment \/ Cardinality({p.v : p \in of(comp)}) <= 1] :
        comp \in {comp \in Components(Cells(points)) : Cardinality(of(comp)) >= MinCluster}}

-----------------------------------------------------------------------------
(* Occupancy: stage_occupancy.py and occupancy_classify.py *)

InBand(points) == {p \in points : p.y \in BandLow .. BandHigh}
RawGrid(points) ==
  [c \in BoxOf(Cells(points)) |->
     IF Cardinality({p \in InBand(points) : p.at = c}) >= MinCell THEN "obstacle"
     ELSE IF c \in Cells(points) THEN "free" ELSE "unknown"]
ViewCount(c) ==
  Cardinality({i \in DOMAIN views : \E p \in views[i].points :
                 LET a == Aligned(p, xform.fc) IN a.at = c /\ a.y \in BandLow .. BandHigh})
Obstacles(g) == {c \in DOMAIN g : g[c] = "obstacle"}
Demote(g, cells) == [c \in DOMAIN g |-> IF c \in cells THEN "unknown" ELSE g[c]]

FilterByViewSupport(g) == Demote(g, {c \in Obstacles(g) : ViewCount(c) < MinViews})
(* From the cell of the lower corner to the one after the upper corner's, each taken to the
   nearest row and column of the grid. *)
ObjectFootprintMask(o, g) ==
  LET near(v, line) == Max({Min(line), Min({v, Max(line)})})
      span(i) == LET line == {c[i] : c \in DOMAIN g}  of == {c[i] : c \in o.cells}
                 IN near(Min(of), line) .. near(Max(of) + 1, line)
  IN span(1) \X span(2)
FilterSmallClusters(g) ==
  LET protected == UNION {ObjectFootprintMask(o, g) : o \in objects}
  IN Demote(g, UNION {comp \in Components(Obstacles(g)) :
                        Cardinality(comp) < MinCluster /\ comp \intersect protected = {}})

(* mutant of ClassifyPhantoms: the cluster rule runs first. *)
ClustersFirst(g) == FilterByViewSupport(FilterSmallClusters(g))
ClassifyPhantoms(g) == FilterSmallClusters(FilterByViewSupport(g))

-----------------------------------------------------------------------------
(* The driver *)

Stages == {StageOrder[i] : i \in 1 .. 7}
After(stage) == LET i == CHOOSE i \in 1 .. 7 : StageOrder[i] = stage
                IN IF i = 7 THEN "finalize" ELSE StageOrder[i + 1]
Live == {r \in 1 .. MaxRuns : pc[r] \notin {"none", "gone"}}
Goes(r, to) == pc' = [pc EXCEPT ![r] = to]

(* run_pipeline.sh looks at no exit code of job_io, whose one temporary file two pipelines share:
   the write may be lost. *)
WriteStatus(state, r) == status' \in {status, [state |-> state, run |-> r]}

(* mutant of StageFails: the driver goes on with the next stage, as a plain list of commands would. *)
StageSkipped(stage, r) == Goes(r, After(stage)) /\ WriteStatus("running", r)
StageFails(stage, r) == Goes(r, "gone") /\ WriteStatus("failed", r)
(* The next stage opens its log in logs/, which a removal takes away under a stage at work. *)
StageOK(stage, r) ==
  IF dir \/ stage = "export_glb" THEN Goes(r, After(stage)) /\ WriteStatus("running", r)
  ELSE StageFails(stage, r)

(* A stage may die at any time: a missing model, no memory, its time limit. *)
Dies(stage, r) ==
  /\ pc[r] = stage /\ StageFails(stage, r)
  /\ UNCHANGED <<take, crew, kf, views, art, env, vocab, xform, cloud, objects, grid, second>>

(* Pipeline run + 1 is there, beside those that are still at work. *)
Joins ==
  /\ run < MaxRuns /\ run' = run + 1 /\ pc' = [pc EXCEPT ![run + 1] = "start"]
  /\ peers' = [r \in 1 .. MaxRuns |-> IF r = run + 1 THEN Live \union {r}
                                       ELSE IF r \in Live THEN peers[r] \union {run + 1} ELSE peers[r]]
  /\ UNCHANGED <<wiped, dir>>

(* push_job makes the directory when it has to, and clears nothing.  The pipeline of a task that
   was cancelled, timed out or killed may still be at work there. *)
PushJob(t) ==
  /\ Live # {} => t \in Rivals
  /\ Joins /\ take' = t /\ env' = TRUE
  /\ UNCHANGED <<kf, views, art, vocab, xform, cloud, objects, grid, status, second>>

(* The answer to a start was lost, and the start is sent again. *)
StartAgain ==
  /\ Live # {} /\ take \in Rivals /\ Joins
  /\ UNCHANGED <<take, kf, views, art, env, vocab, xform, cloud, objects, grid, status, second>>

(* run_pipeline.sh makes logs/ and comes to its first status; or ssh never got to the host, or
   the directory is gone. *)
StartPipeline(r) ==
  /\ pc[r] = "start" /\ dir' = TRUE /\ Goes(r, "keyframes") /\ WriteStatus("running", r)
  /\ UNCHANGED <<take, run, peers, wiped, kf, views, art, env, vocab, xform, cloud, objects, grid, second>>
StartLost(r) ==
  /\ pc[r] = "start" /\ Goes(r, "gone")
  /\ UNCHANGED <<take, crew, kf, views, art, env, vocab, xform, cloud, objects, grid, status, second>>

(* vidmap numbers its frames from 1; what else the directory holds counts as kept too. *)
Kept(found) ==
  IF Cardinality(found) <= MaxKeyframes THEN found
  ELSE LET nth(i) == SetToSortSeq(found, LAMBDA a, b : a < b)[1 + (i * Cardinality(found)) \div MaxKeyframes]
       IN {nth(i) : i \in 0 .. MaxKeyframes - 1}
Keyframes(r) ==
  /\ pc[r] = "keyframes"
  /\ LET fresh == 1 .. Len(take.views)
         kept == Kept(fresh \union DOMAIN kf)
     IN /\ kf' = [n \in kept |-> IF n \in fresh THEN r ELSE kf[n]]
        /\ Touch("keyframes_json", r)
        /\ IF Cardinality(kept) < 3 THEN StageFails("keyframes", r) ELSE StageOK("keyframes", r)
  /\ UNCHANGED <<take, crew, views, env, vocab, xform, cloud, objects, grid, second>>

Vocab(r) ==
  /\ pc[r] = "vocab"
  /\ IF DispatchVocab = None THEN StageFails("vocab", r) /\ UNCHANGED <<vocab, art>>
     ELSE vocab' = DispatchVocab /\ Touch("vocab_json", r) /\ StageOK("vocab", r)
  /\ UNCHANGED <<take, crew, kf, views, env, xform, cloud, objects, grid, second>>

(* The views are numbered by the position of their keyframe.  A frame beyond this attempt's
   own is reconstructed like its last one. *)
Infer(r, written) ==
  /\ pc[r] = "infer"
  /\ LET n == Cardinality(DOMAIN kf)
         seen == [i \in 1 .. n |-> take.views[Min({i, Len(take.views)})]]
         results == [i \in 1 .. n |-> CheckConvention(seen[i])]
         good == {i \in 1 .. Min({n, written}) : results[i] # "drop"}
         file(i) == [run |-> r, cam |-> seen[i].cam,
                     points |-> {[p EXCEPT !.v = i] : p \in seen[i].points}]
     IN IF n = 0 \/ JobFails(results)
        THEN Touch("report", r) /\ StageFails("infer", r) /\ UNCHANGED views
        ELSE /\ views' = [i \in good \union DOMAIN views |-> IF i \in good THEN file(i) ELSE views[i]]
             /\ IF written >= n
                THEN art' = [art EXCEPT !["report"] = r, !["infer_meta"] = r] /\ StageOK("infer", r)
                ELSE Touch("report", r) /\ StageFails("infer", r)
  /\ UNCHANGED <<take, crew, kf, env, vocab, xform, cloud, objects, grid, second>>

Align(r) ==
  /\ pc[r] = "align"
  /\ LET a == RunAlign
     IN IF a = None THEN StageFails("align", r) /\ UNCHANGED <<xform, cloud, art>>
        ELSE /\ xform' = [fc |-> a.fc, cutoff |-> a.cutoff, box |-> a.box, wrong |-> a.wrong]
             /\ cloud' = a.cloud /\ Touch("alignment", r) /\ StageOK("align", r)
  /\ UNCHANGED <<take, crew, kf, views, env, vocab, objects, grid, second>>

Objects(r) ==
  /\ pc[r] = "objects"
  /\ IF xform = None \/ art["vocab_json"] = 0
     THEN StageFails("objects", r) /\ UNCHANGED <<objects, art>>
     ELSE /\ objects' = UNION {ObjectsOf(e.name) : e \in vocab}
          /\ Touch("scene_objects", r) /\ StageOK("objects", r)
  /\ UNCHANGED <<take, crew, kf, views, env, vocab, xform, cloud, grid, second>>

Occupancy(r) ==
  /\ pc[r] = "occupancy"
  /\ IF cloud = {} THEN StageFails("occupancy", r) /\ UNCHANGED <<grid, art>>
     ELSE /\ grid' = IF take.filter THEN ClassifyPhantoms(RawGrid(cloud)) ELSE RawGrid(cloud)
          /\ Touch("occupancy", r) /\ StageOK("occupancy", r)
  /\ UNCHANGED <<take, crew, kf, views, env, vocab, xform, cloud, objects, second>>

(* Downsampled to the point cap; an empty cloud is exported as it is. *)
ExportGlb(r) ==
  /\ pc[r] = "export_glb" /\ Touch("glb", r) /\ StageOK("export_glb", r)
  /\ UNCHANGED <<take, crew, kf, views, env, vocab, xform, cloud, objects, grid, second>>

(* finalize assembles whatever exists, or fails; "done" is written all the same; then the
   secret goes, whoever pushed it. *)
Finalize(r) ==
  /\ pc[r] = "finalize" /\ Goes(r, "done") /\ (Touch("result", r) \/ UNCHANGED art)
  /\ UNCHANGED <<take, crew, kf, views, env, vocab, xform, cloud, objects, grid, status, second>>
SaysDone(r) ==
  /\ pc[r] = "done" /\ Goes(r, "secret") /\ WriteStatus("done", r)
  /\ UNCHANGED <<take, crew, kf, views, art, env, vocab, xform, cloud, objects, grid, second>>
RemovesSecret(r) ==
  /\ pc[r] = "secret" /\ Goes(r, "gone") /\ env' = FALSE
  /\ UNCHANGED <<take, crew, kf, views, art, vocab, xform, cloud, objects, grid, status, second>>

(* The backend's cleanup, under a pipeline that is still at work as well; one that does not get
   through leaves all as it is. *)
Cleanup ==
  /\ run > 0 /\ status' = [state |-> "none", run |-> 0] /\ dir' = FALSE
  /\ wiped' = wiped \union Live
  /\ kf' = Empty /\ views' = Empty /\ art' = [a \in Artifacts |-> 0] /\ env' = FALSE
  /\ vocab' = {} /\ xform' = None /\ cloud' = {} /\ objects' = {} /\ grid' = None /\ second' = None
  /\ UNCHANGED <<take, run, pc, peers>>

(* On a completed job, beside its own files, which it must not overwrite. *)
RerunAlign ==
  /\ Live = {} /\ status.state = "done" /\ DOMAIN views # {} /\ second = None /\ second' = RunAlign
  /\ UNCHANGED <<take, crew, pc, kf, views, art, env, vocab, xform, cloud, objects, grid, status>>

Init ==
  /\ take = None /\ run = 0 /\ pc = [r \in 1 .. MaxRuns |-> "none"] /\ kf = Empty /\ views = Empty
  /\ peers = [r \in 1 .. MaxRuns |-> {}] /\ wiped = {} /\ dir = FALSE
  /\ art = [a \in Artifacts |-> 0] /\ env = FALSE /\ vocab = {} /\ xform = None /\ cloud = {}
  /\ objects = {} /\ grid = None /\ status = [state |-> "none", run |-> 0] /\ second = None

Pipeline(r) ==
  \/ StartPipeline(r) \/ StartLost(r) \/ Keyframes(r) \/ Vocab(r) \/ Align(r) \/ Objects(r)
  \/ Occupancy(r) \/ ExportGlb(r) \/ Finalize(r) \/ SaysDone(r) \/ RemovesSecret(r)
  \/ \E n \in 0 .. MaxKeyframes : Infer(r, n)
  \/ \E s \in Stages : Dies(s, r)

Next ==
  \/ \E t \in Takes : PushJob(t)
  \/ \E r \in 1 .. MaxRuns : Pipeline(r)
  \/ StartAgain \/ Cleanup \/ RerunAlign

Spec == Init /\ [][Next]_vars

-----------------------------------------------------------------------------
(* Properties *)

TypeOK ==
  /\ run \in 0 .. MaxRuns /\ DOMAIN pc = 1 .. MaxRuns
  /\ \A r \in 1 .. MaxRuns : pc[r] \in Stages \union {"none", "start", "finalize", "done", "secret", "gone"}
  /\ \A n \in DOMAIN kf : kf[n] \in 1 .. run
  /\ \A i \in DOMAIN views : views[i].run \in 1 .. run
  /\ \A a \in Artifacts : art[a] \in 0 .. run
  /\ status.state \in {"none", "running", "failed", "done"} /\ env \in BOOLEAN /\ dir \in BOOLEAN

(* However many pipelines died in the directory, and wherever they did, none of their files is
   left when one that came later says "done": each is its own, or of one that was at work beside
   it or later, and missing only where the directory was removed under it.  Alone, it shows its
   own.  Code: run_stage's exit on a failed stage, the unconditional writes of the stages. *)
DoneIsWhole ==
  status.state = "done" => LET r == status.run IN
    \A a \in Artifacts \ {"result"} :
      \/ art[a] \in peers[r] \/ art[a] > r
      \/ art[a] = 0 /\ r \in wiped

(* The pipeline nobody disturbed, and nobody followed. *)
Alone(r) == run = r /\ peers[r] = {r} /\ r \notin wiped

(* A cell is called an obstacle only if two views put points there and it belongs to a
   cluster that is large enough or touches the protected footprint of a detected object:
   thinning a cluster by view leaves no orphan.  Code: classify_phantom_obstacles after
   stage_objects and stage_align. *)
ObstaclesAreWitnessed ==
  (status.state = "done" /\ Alone(status.run) /\ take.filter) =>
    \A comp \in Components(Obstacles(grid)) :
      /\ ~\E c \in comp : ViewCount(c) < MinViews
      /\ Cardinality(comp) < MinCluster =>
           \E o \in objects : comp \intersect ObjectFootprintMask(o, grid) # {}

-----------------------------------------------------------------------------
(* What the repository says of itself and the model contradicts: README, "Disagreements
   found".  No run is spent on it. *)

(* The views that are pooled are "from one MapAnything inference run's `per_view/*.npz`
   files" (load_run). *)
ViewsOfOneRun ==
  \A r \in Live : pc[r] = "align" => \A i, j \in DOMAIN views : views[i].run = views[j].run

(* result.json is "the final artifact-summary the backend reads after fetching the job
   directory" (write_result): a job that is done has one, of its own. *)
ResultOfTheDone == status.state = "done" => art["result"] = status.run

(* The mask marks "every cell whose world-space extent overlaps" an object's box
   (object_footprint_mask; test_object_footprint_mask_marks_overlapping_cells_only). *)
MaskIsTheFootprint == grid # None => \A o \in objects : ObjectFootprintMask(o, grid) \subseteq o.cells
=============================================================================
