---------------------------- MODULE SceneIngest -----------------------------
(***************************************************************************)
(* What the backend makes of a finished GPU job, and what the screens see   *)
(* meanwhile: scene_ingest reads the artifacts, scene_validator turns a     *)
(* scene down or lets it pass, stage_timings times the stages from the      *)
(* worker's log, processing_status shows a run.  The worker and the API     *)
(* are processes of their own that share the scene's directory.             *)
(*                                                                         *)
(* Lengths are in centimetres.  An object is [kinds, y, extent, fragment,   *)
(* views, curtain], kinds being the classes one of whose keywords occurs in *)
(* its name.                                                               *)
(***************************************************************************)
EXTENDS Integers, Sequences, FiniteSets, FiniteSetsExt, SequencesExt

CONSTANTS
  Videos,      \* their scenes start in any order
  Artifacts,   \* what fetch_results can bring
  Docs,        \* contents status.json can have
  StageNames,
  Silent,      \* WORKER_SILENT_AFTER_SEC
  None,
  MaxLines, MaxClock  \* bounds on the run

VARIABLES
  scene,    \* video |-> None or the row: status, error, and what the artifacts gave
  log,      \* video |-> stage lines of logs/worker.log
  timings,  \* video |-> stage_timings.json, or None
  doc,      \* video |-> status.json, or None
  worker,   \* None, or [video, ended]: the job at hand, and whether its row is final
  reader,   \* None, or the poll that has read the log: [video, lines]
  view,     \* what a poll of the processing screen showed; one is kept (bound)
  now

vars == <<scene, log, timings, doc, worker, reader, view, now>>

-----------------------------------------------------------------------------
(* Reading what the GPU returned: scene_ingest.py *)

Parsed(a) == a.objects # None /\ a.alignment # None /\ a.grid # None /\ a.cameras # None

(* The seconds of a kept raw frame; frames are numbered from 1.  Keyframes picked again out of
   the kept ones no longer match the cameras one to one. *)
KeyframeTimes(a) ==
  LET kept == SelectSeq(a.manifest, LAMBDA e : e.kept)
  IN IF a.fps = 0 \/ (\E i \in DOMAIN kept : kept[i].frame = None) \/ Len(kept) # Len(a.cameras)
     THEN None ELSE [i \in DOMAIN kept |-> (kept[i].frame - 1) \div a.fps]

Near(g, c) == /\ g.x0 - 2 * g.cell <= c.x /\ c.x <= g.x0 + (g.w + 2) * g.cell
              /\ g.z0 - 2 * g.cell <= c.z /\ c.z <= g.z0 + (g.h + 2) * g.cell
ChooseRobotStart(cameras, g) ==
  LET near == {i \in DOMAIN cameras : Near(g, cameras[i])}
      at(i) == <<cameras[i].x, cameras[i].z>>
  IN IF cameras = <<>> THEN <<g.x0 + (g.w * g.cell) \div 2, g.z0 + (g.h * g.cell) \div 2>>
     ELSE IF near = {} THEN at(1) ELSE at(Min(near))

VocabOf(a) == IF a.vocab = None THEN [source |-> None, entries |-> None]
              ELSE LET named == {e \in a.vocab.entries : e.name # None}
                   IN [source |-> a.vocab.source, entries |-> IF named = {} THEN None ELSE named]

-----------------------------------------------------------------------------
(* Validation: scene_validator.py.  A check is [name, passed, fatal]. *)

Classes == <<"floor", "counter", "wall", "furniture">>
Prior == [floor |-> 0 .. 15, counter |-> 65 .. 100, wall |-> 110 .. 200, furniture |-> 25 .. 90]
ClassifyObject(o) == Classes[Min({i \in 1 .. 4 : Classes[i] \in o.kinds})]
Eligible(objects) == {o \in objects : ~o.fragment /\ o.views >= 2 /\ o.kinds # {}}
OffHeight(objects) == {o \in Eligible(objects) : o.y \notin Prior[ClassifyObject(o)]}
HeightsOf(objects, class) == {o \in Eligible(objects) : ClassifyObject(o) = class}
MedianY(S) ==
  LET ys == {o.y : o \in S}
      below(y) == Cardinality({o \in S : o.y < y})
      above(y) == Cardinality({o \in S : o.y > y})
      mid == {y \in ys : 2 * below(y) <= Cardinality(S) /\ 2 * above(y) <= Cardinality(S)}
  IN Min(mid) + Max(mid)

Check(name, passed) == [name |-> name, passed |-> passed, fatal |-> TRUE]
Note(name, passed) == [name |-> name, passed |-> passed, fatal |-> FALSE]

FloorBelowCameras(cams) ==
  IF cams = <<>> THEN Note("floor_below_cameras", TRUE)
  ELSE Check("floor_below_cameras", \A i \in DOMAIN cams : 0 < cams[i].y)
CeilingAboveCameras(al, cams) ==
  IF cams = <<>> THEN Note("ceiling_above_cameras", TRUE)
  ELSE Check("ceiling_above_cameras", \A i \in DOMAIN cams : al.ceiling > cams[i].y)
RoomDimensions(al, g) ==
  Check("room_dimensions", al.ceiling \in 200 .. 500 /\ {g.w * g.cell, g.h * g.cell} \subseteq 150 .. 3000)
ObjectHeights(objects) ==
  {Note("object_height", o \notin OffHeight(objects)) : o \in Eligible(objects)}
HeightPriorMajority(objects) ==
  IF Eligible(objects) = {} THEN Note("height_prior_majority", TRUE)
  ELSE Check("height_prior_majority",
             2 * Cardinality(OffHeight(objects)) <= Cardinality(Eligible(objects)))
RelativeOrder(objects) ==
  LET counters == HeightsOf(objects, "counter")  walls == HeightsOf(objects, "wall")
  IN IF counters = {} \/ walls = {} THEN Note("relative_order_counter_below_wall", TRUE)
     ELSE Check("relative_order_counter_below_wall", MedianY(counters) < MedianY(walls))
Oversized(objects) == {o \in objects : ~o.fragment /\ ~o.curtain /\ o.extent > 250}
MaxExtent(objects) == Note("object_max_extent", Oversized(objects) = {})
Reflection == Note("reflection_flag", TRUE)

ValidateScene(a) ==
  {FloorBelowCameras(a.cameras), CeilingAboveCameras(a.alignment, a.cameras),
   RoomDimensions(a.alignment, a.grid), HeightPriorMajority(a.objects), RelativeOrder(a.objects),
   MaxExtent(a.objects), Reflection} \union ObjectHeights(a.objects)
Failures(checks) == {c.name : c \in {c \in checks : c.fatal /\ ~c.passed}}

-----------------------------------------------------------------------------
(* Stage lines and their timings: stage_timings.py *)

ParseStageTimings(lines) ==
  [i \in DOMAIN lines |-> [stage |-> lines[i].stage, started |-> lines[i].at,
                           duration |-> IF i = Len(lines) THEN None ELSE lines[i + 1].at - lines[i].at]]

-----------------------------------------------------------------------------
(* The worker, as far as the batch and the screens see it *)

TakeVideo(v) ==
  /\ worker = None /\ scene[v] = None
  /\ worker' = [video |-> v, ended |-> FALSE]
  /\ scene' = [scene EXCEPT ![v] = [status |-> "processing", error |-> {}, ceiling |-> None, n |-> None,
                                    start |-> None, vocab |-> None, big |-> 0, track |-> None]]
  /\ UNCHANGED <<log, timings, doc, reader, view, now>>

(* _poll_until_terminal logs a stage when it differs from the last. *)
LogStage(stage) ==
  /\ worker # None
  /\ LET v == worker.video
     IN /\ ~worker.ended /\ Len(log[v]) < MaxLines
        /\ log[v] # <<>> => Last(log[v]).stage # stage
        /\ log' = [log EXCEPT ![v] = Append(@, [stage |-> stage, at |-> now])]
  /\ UNCHANGED <<scene, timings, doc, worker, reader, view, now>>

End(status, error, ceiling, n, start, vocab, big, track) ==
  /\ worker # None /\ ~worker.ended
  /\ worker' = [worker EXCEPT !.ended = TRUE]
  /\ scene' = [scene EXCEPT ![worker.video] =
       [status |-> status, error |-> error, ceiling |-> ceiling, n |-> n, start |-> start,
        vocab |-> vocab, big |-> big, track |-> track]]
  /\ UNCHANGED <<log, timings, doc, reader, view, now>>
Fail(error) == End("failed", error, None, None, None, None, 0, None)

(* The GPU job failed, ran out of time, or could not be started. *)
JobFailed == Fail({"pipeline"})
IngestScene(a) ==
  IF ~Parsed(a) THEN Fail({"artifact"})
  ELSE IF Failures(ValidateScene(a)) # {} THEN Fail(Failures(ValidateScene(a)))
  ELSE End("done", {}, a.alignment.ceiling, Cardinality(a.objects), ChooseRobotStart(a.cameras, a.grid),
           VocabOf(a), Cardinality(Oversized(a.objects)), KeyframeTimes(a))

(* The last line of run_pipeline_for_scene, after the row is final. *)
PersistTimings ==
  /\ worker # None /\ worker.ended /\ worker' = None
  /\ timings' = [timings EXCEPT ![worker.video] = ParseStageTimings(log[worker.video])]
  /\ UNCHANGED <<scene, log, doc, reader, view, now>>

(* The pipeline driver of the scene at hand. *)
WriteStatusJson(d) ==
  /\ worker # None /\ doc' = [doc EXCEPT ![worker.video] = d]
  /\ UNCHANGED <<scene, log, timings, worker, reader, view, now>>

-----------------------------------------------------------------------------
(* The screens: stage timings of a scene, and processing_status.py *)

(* A scene that still runs has its timings parsed anew and written back; the write is a
   rename, and comes after the read of the log. *)
PollScene(v) ==
  /\ reader = None /\ scene[v] # None /\ scene[v].status = "processing"
  /\ reader' = [video |-> v, lines |-> log[v]]
  /\ UNCHANGED <<scene, log, timings, doc, worker, view, now>>
WriteTimings ==
  /\ reader # None /\ reader' = None
  /\ timings' = [timings EXCEPT ![reader.video] = ParseStageTimings(reader.lines)]
  /\ UNCHANGED <<scene, log, doc, worker, view, now>>

RowsFromStatus(d) == d.steps
RowsFromLog(lines) ==
  LET ts == ParseStageTimings(lines)
  IN [i \in DOMAIN ts |-> [stage |-> ts[i].stage, state |-> IF ts[i].duration = None THEN "running" ELSE "ok",
                           started |-> ts[i].started, finished |-> None, substage |-> None]]
NeedsAttention(row) == row.substage \in {"refused", "waiting_manual"}
LatestRecordAt(rows, d) ==
  LET stamps == UNION {{rows[i].started, rows[i].finished} : i \in DOMAIN rows}
                  \union (IF d = None THEN {} ELSE {d.started, d.finished})
  IN IF stamps \subseteq {None} THEN None ELSE Max(stamps \ {None})
FallbackNotice(d, wanted) == d # None /\ d.used # None /\ wanted # None /\ d.used # wanted

(* A status.json that does not parse is read as none; then the log tells what it can. *)
ReadProcessingStatus(v, wanted) ==
  LET d == IF doc[v] = None THEN None ELSE IF doc[v].torn THEN None ELSE doc[v]
      rows == IF d # None THEN RowsFromStatus(d) ELSE RowsFromLog(log[v])
      last == LatestRecordAt(rows, d)
  IN [source |-> IF d # None THEN "status.json" ELSE IF rows # <<>> THEN "worker.log" ELSE "none",
      state |-> IF d # None THEN d.state ELSE IF rows = <<>> THEN None ELSE Last(rows).stage,
      rows |-> rows, attention |-> \E i \in DOMAIN rows : NeedsAttention(rows[i]),
      connected |-> last # None /\ now - (IF last = None THEN 0 ELSE last) < Silent,
      notice |-> FallbackNotice(d, wanted)]
PollProcessing(v, wanted) ==
  /\ view = None /\ scene[v] # None /\ view' = ReadProcessingStatus(v, wanted)
  /\ UNCHANGED <<scene, log, timings, doc, worker, reader, now>>

-----------------------------------------------------------------------------
Tick == /\ now < MaxClock /\ now' = now + 1
        /\ UNCHANGED <<scene, log, timings, doc, worker, reader, view>>

Init == /\ scene = [v \in Videos |-> None] /\ log = [v \in Videos |-> <<>>]
        /\ timings = [v \in Videos |-> None] /\ doc = [v \in Videos |-> None]
        /\ worker = None /\ reader = None /\ view = None /\ now = 0
Next ==
  \/ \E v \in Videos : TakeVideo(v) \/ PollScene(v)
  \/ \E stage \in StageNames : LogStage(stage)
  \/ JobFailed \/ PersistTimings \/ WriteTimings
  \/ \E a \in Artifacts : IngestScene(a)
  \/ \E d \in Docs : WriteStatusJson(d)
  \/ \E v \in Videos, wanted \in {None, "vertex"} : PollProcessing(v, wanted)
  \/ Tick

-----------------------------------------------------------------------------
(* What the repository says of itself, refuted by the run that names it *)

(* "Persist the final stage_timings.json (see app.services.stage_timings) now that worker.log is
   complete" (pipeline_orchestrator.py): once a scene is final and nobody is writing, the file
   holds the timings of the whole log, and apply_stage_timings reads nothing else. *)
TimingsAreFinal ==
  (worker = None /\ reader = None) =>
    \A v \in Videos : scene[v] # None => timings[v] = ParseStageTimings(log[v])
=============================================================================
