# Verification of CloudEye

CloudEye turns a walkthrough video of a room into one metric map. A user uploads a video,
a single worker pushes it to a rented GPU host, polls the pipeline that runs there, fetches
and validates its artifacts, and writes one scene; the API serves the scene, plans paths on
its occupancy grid and exports it. A second driver (`pipeline/`) rents the GPU boxes
themselves from vast.ai, which cost money for as long as they run. Offline scripts furnish a
scene, judge it, refine it, and run the whole system overnight.

The modules here model where a mistake is expensive or hard to test: **who holds a box that
bills, and what the bill may come to**, **what a scene says about the run that made it**,
**what a resumed pipeline takes over from the runs before it**, **whether an answer of the
planner is right and current**, and **what the offline tools keep, lose or take from an
earlier run**.

## 1. Inventory

| part | state | operations | what makes it correct |
|---|---|---|---|
| box driver (`pipeline/vast_client.py`, `box_ops.py`, acquire / take-down in `run_pipeline.py`) | the cached instance id, the retired one, sessions of the run, status.json `boxes`, the ARMED file | start_or_create, create, show, stop, `BoxSession.__enter__/stop`, acquire_box, take_down, the `finally` of `run` | no box bills that nobody holds; a replaced box stays down; status.json is true |
| cost supervisor (`run_pipeline.py` 420-510) and worker driver (`worker_driver.py`) | run cost, abort reason, status.json, the running subprocess; the daily ledger | poll_cost, kill_current, boundary polls; check_daily_cap, the clamp, run_job, add_spend | a run's overrun and a day's spend are bounded; a final record is not overwritten |
| step machine (`run_pipeline.py`, `steps/`) | artifacts on disk and on the box, the step at hand | step, check / produce of each state | a resumed run never takes another run's output for its own, and finishes on one fusion |
| API (`app/routers`, `video_service`, `project_service`) | videos, scenes, uploads/ | upload, rerun, delete scene / video / project | a change by a user never confuses the running task |
| queue and worker (`app/queue.py`, `app/worker.py`) | arq's queue, one task | enqueue_process_video, process_video, cancellation | one task; every scene it takes is settled |
| orchestrator and GPU client (`pipeline_orchestrator.py`, `gpu_client.py`) | the task's position, its DB session | push, start, poll, fetch, ingest, commit, mark, cleanup | rows appear only with `done`; failures are recorded |
| GPU pipeline (`gpu/`) | the job directory, status.json, a detached process | seven stages, finalize, rerun_align | its verdict is not said over the files of a dead attempt; an obstacle is something two views saw |
| ingest, validation, status, timings | the scene row, worker.log, stage_timings.json | parse, validate, log a stage, time the stages, poll | a scene that is done passed; its timings are of its whole log |
| path planner, nav layer, footprints | layer files, grid cache, reachability cache | load_grid, cells_for_height, inflate, A*, smooth, resolve goal and start, reachability | a route never crosses an obstacle and is found when there is one; a cache never answers for another layer, robot or scene |
| commands | the commands table | parse, resolve, plan, record | every command has an outcome |
| USD export and layers | the cached exports under the scene | build, serve, publish | a client gets the export it asked for |
| MSA bootstrap | the furnished model's artifacts | filter, cut, measure, rotate, write | what was detected is exported or accounted for |
| asset placement | library, index, generated meshes, converted USDs | generate, place, convert, assemble | the USD shows the files the GLB shows |
| agent loop, critic | the edits of a scene; findings | propose, verify, apply; check, ask, merge | edits stay bounded in total; only measurements gate |
| nightly batch, Isaac validation | a report | upload, poll, collect; check in sequence | a project is not paid for twice; exit code 0 is earned |
| frontend, rendering, migrations | files | display, render | out of scope |

The parts interact through: the database row of a scene (API and task), arq's queue (API to
task), `uploads/scenes/<id>` (task and scripts write, API reads and caches), the job directory
on the host (task and detached pipelines), the vast.ai account (driver, operator, vast
itself), status.json and the box cache (one driver run to the next), and the artifacts of a
scene (each offline tool reads what another finished). The hard behaviours are listed at
their lines in `PROJECT.json` under `hazards`, each with the properties that would catch it.

## 2. Modules

| module | content |
|---|---|
| `BoxLifecycle`, `BoxLifecycleProofs` | one driver, several runs in sequence, against vast.ai, the operator and the calendar; its theorems |
| `CostControl`, `CostControlProofs` | the money of a run: worker, driver's main thread, supervisor thread, box, clock and calendar |
| `SceneJobs`, `SceneJobsProofs` | API, queue, worker, orchestrator, GPU host and scene rows together; its theorems |
| `SceneLifecycle` | the abstract promise: the status a reader sees and the rows under it |
| `SceneIngest` | what the backend makes of a finished job, and what the screens see meanwhile |
| `PipelineResume`, `PipelineResumeProofs` | the step machine of `run_pipeline.py`, run again and again over one scene directory; its theorems |
| `NavCells` | the planner's grid: coordinates, obstacles, inflation, costs |
| `NavSearch` | its searches on a grid: A*, smoothing, lines of sight, components; what has to hold of them |
| `NavGrid` | goal and start rules, plans and reachability of a round robot, over the searches |
| `Footprint` | the rectangular robot: poses and both of its searches |
| `PlanService`, `PlanServiceProofs` | reachability and commands over these, with caches, backfills, reruns and deletions; its theorems, and those about the searches |
| `SceneExport` | the USD export, its cache, and the files the read endpoints pick |
| `GpuJob` | one job directory on the GPU box, through several pipelines and two at a time |
| `MsaBootstrap`, `MsaRegions` | from grid and detections to the furnished model; the labelling it takes from ndimage |
| `AssetPlacement` | from the furnished model to placed assets, GLB and USD |
| `AgentLoop`, `Critic` | the refinement of a scene by models; the judgement of it |
| `NightlyBatch`, `IsaacValidate` | the overnight run over the backend; the validation of an export |
| `Studio` | the eight offline components, each on an instance of its own, with the assumptions on their constants |
| `MsaProofs` | theorems of bootstrap, agent loop, critic and asset placement |
| `GpuProofs` | theorems of GPU job and nightly batch |
| `ExportProofs` | theorems of USD export and Isaac validation |
| `MCBoxLifecycle`, `MCCostControl`, `MCSceneJobs`, `MCSceneIngest`, `MCPipelineResume`, `MCPlanService`, `MCStudio` | constants for TLC; `MCStudio` also what needs the recursive labelling |

### BoxLifecycle

The account: `box`, what vast.ai makes of each instance (`absent`, `exited`, `queued` for a
start it has put off, `running`, `stopping`, `destroyed`). The driver: `pc`, with one position
between any two calls whose outcome can differ; the session in hand; the records a run
writes. What survives a run is what is on disk: the cached box id and the ARMED file. Each
vast call is an action that picks the answer and the effect separately:
`StartReplies`/`StartEffect` are what `start` may say and do, and a call's answer need not
match its effect when the corresponding fault is enabled. The operator (arms the driver,
destroys or stops a box) and midnight are actions of their own. What is said of a box has three
places: `info`, the session's own record; `recorded`, its entry in status.json, which the main
thread writes from `info` and the supervisor's tick from a copy it took earlier
(`SupervisorCopies`, `SupervisorWrites`); and `downArt`, what take_down returned to GPU_DOWN_NV,
which no tick reaches but a budget abort drops. The poll at a step's boundary (`BoundaryPoll`)
runs in the main thread and repairs an entry that was overwritten.

Faults (`FaultKinds`) are a constant: each run enables those its question needs.

### CostControl

One unit of time is one dollar while the box is up. Two threads of the driver share the
session, `status.json` and `abort_reason`: the main thread (`pc`) stands at a boundary, in a
step, or in a stop; the supervisor ticks every `Interval`. A poll of the cost, by either, is
three steps, `Show` (measure and copy the session's record), `WriteBox` (write the copy),
`Total` (write the cost, set the alarm, kill), since the other thread can act between them.
`MayPass` is the only assumption on time: ticks are not late, steps have their time-outs,
bookkeeping takes no time. `ledger`, per day, is what the worker books; `bill`, per day, is a
history of what vast charges, and `stale` of what was booked for drivers that had refused to
start, whose status.json is an earlier run's. The worker starts a run (`StartJob`), books whatever status.json
says when the driver is gone (`BookCost`), or kills it (`KillDriver`).

### SceneJobs

The scene row is kept by column (`id`, `status`, `rows`, `run`), `rows` being the run whose
artifacts and objects the row holds; `run` is a history of the last run marked on it and is
read by properties only. A job's number names the run, and the scene if the job creates one
(the code draws a UUID). `local` is `uploads/scenes/<id>`; `dir`/`art` the job directory on
the host by its status.json and by the run whose artifacts it holds; `procs` the detached
pipelines. `pc` has one position per await of `process_video` / `run_pipeline_for_scene` /
`_run` at which a user, another process or a cancellation may come in between. A row's
UPDATE touches no row when the row is gone: `Mine`. `dead` is the SQLAlchemy session after a
flush that failed.

A deletion is two steps, as in the code: `RemoveFiles` (the directory of a scene, the file of a
video, both with a project) and, behind the awaits, `DeleteRow`; readers, the worker and further
requests come in between, and with `delete_fails` the row stays (`DeleteFails`: the commit fails
or the API dies). `del` is the deletion under way, `gone` the scenes whose directory was removed,
`torn` those of them whose row a failed deletion left; what is fetched into the directory takes its scene
out of both (`Store`). Deletions are taken one at a time, and an `rmtree` removes the directory
whole: what its `ignore_errors` may leave is not told apart from a removal.

The job directory's status.json is written by whichever pipeline is alive in it, by its
absolute path; a directory that was removed makes the next write fail, but a stage's own
`mkdir(parents=True)` may bring it back first (`ProcessStarved`).

### SceneLifecycle

A reader of the API sees `none -> queued -> processing -> done | failed -> processing ...`,
and object rows change only with the step to `done` or with the row's removal. `SceneJobs`
implements it under every fault (`RefinesLifecycle`, `Promise` being the instance).

### SceneIngest

The worker takes a video, logs a stage when it differs from the last, and ends the scene:
`IngestScene` parses, runs every check of `validate_scene` (a `Check` turns the scene down, a
`Note` does not) and fills the row. `PersistTimings` is the worker's last step, after the row
is final. A poll of the API, in another process, reads the log (`PollScene`) and later writes
the same file (`WriteTimings`). `ReadProcessingStatus` is the processing screen: status.json
when it parses, otherwise the log.

### PipelineResume

Every step of the driver runs a check, is skipped when the check accepts what is on disk, and
otherwise runs its producer and checks again; so a run that failed is simply started again,
possibly with other flags (`asked`, one command line per run). What survives a run is on
disk or on the box, and each artifact is modelled by its provenance, the number of the run
that fused what it shows: `local[d][f]`, the five pulled files of each fusion directory;
`box[d][f]`, their originals; `layers`, `reach`, `export`, `tables`. A depth stack is named
after its place (the primary one, or its own vote's) and remembers the vote that made it
(`depth`) and the vote its json names (`meta`): the check compares the second.

| definition | code |
|---|---|
| `StackAccepted`, `MvfilterOk` | `check_mvfilter` |
| `FilterArm`, `FilterCut` | `steps/mvfilter.py`: stack, then json |
| `FusionArms` | the order of `arms` in `produce_nvblox` |
| `Verdict` | `check_nvblox`: existence of four files, and a stats.json that must have a slice or the check itself raises |
| `Fuse`, `FuseCut`, `Pull`, `PullCut` | `produce_nvblox.fuse`: ssh, then `rsync --partial` in name order |
| `Gated`, `NvbloxRehearsed` | the dry run of a live command line |
| `Layers` .. `Ingest` | check or produce, from what the producer opens |
| `RunFails` | any exception, any abort of the supervisor at a boundary, a killed driver |

`used` is a history of what each fusion was given. The published scene of
`--nvblox-source precomputed` is a fusion of its own number. Two drivers at once over one
directory are not modelled (one worker, one operator; nothing in the code excludes it).

### NavCells, NavSearch, NavGrid, Footprint and PlanService

Lengths are in half cells, so centres and edges of cells are integers; costs are in tenths,
14 for the square root of two. The modules have the code's own order wherever it breaks a tie:
numpy's argmin, the heap's tuples, the scans of the grid (`ScanRank`). `Inflate`, `CostGrid`,
`Astar`, `SmoothPath`, `SegmentCells`, `Component`, `Largest`, `StartIn`, `ResolveGoal`,
`PlanToObject`, `ComputeReachability` and the rectangle's `FootprintReachability` bear the
code's names. `NoCell` and the empty path stand for its exceptions, `why` for which one.

A loop of the code is a state, a turn of its body (`SearchTurn`, `LineTurn`, `SmoothTurn`,
`Spread`, `ScanTurn`) and the function of its states round by round (`Rounds`), as long as the
loop can run: A* visits no cell twice, a line is as long as its offsets, a layer of a flood has a
cell of its own. A turn past the end changes nothing. That the bound is enough is part of what is
proved. The state of A* is the heap, the dictionaries `came` and `g` and the visited cells; the
code's stale heap entries, which a pop skips, leave with the visit of their cell.

`PlanService` adds the two caches with their keys (`cellsMem`, `reachMem`), the layer's files
by version (`disk`), the object rows by version and the commands table. A reachability
request reads the layer in one step and answers in another; a command commits its row, waits
for the chat model, then plans with the cells and objects it read before. A backfill writes
the layer's files one by one.

### SceneExport

A request checks the row, picks a published export or looks for its cache file, builds it,
and later commits its path (`SetUsdPath`); the worker, the scripts that publish layers and
`msa/` files, and a deletion come in between. The stage is built as the code does it: boxes by
greedy runs over the cells of the platform's height, one prim per object with its sanitized
name, hulls by the decimation ladder, the room's cloud at the first voxel size that fits. The greedy scan
is a recursive function over the cells in row-major order, `MergeObstacleBoxes`, each step
(`ClaimAt`) the boxes claimed so far.

### GpuJob

Each artifact is the number of the pipeline that wrote it, except those whose contents matter:
views, the alignment, the aligned cloud, the objects and the grid, which are small sets of
points with a height, a confidence and a label. A `take` is what input.mp4 and params.json make
the networks return; it is the directory's, and a push replaces it under whoever is at work.
`RunAlign` votes on the camera convention, finds floor and ceiling planes and rotates;
`ClassifyPhantoms` filters by views and then by clusters, the second sparing what touches an
`ObjectFootprintMask`, which reaches a row and a column beyond an object as the code's does.

`pc[r]` is where pipeline `r` is. `PushJob` may come while another is at work, whose task was
cancelled or timed out, and `StartAgain` is a start that was sent twice; `peers` remembers who was
at work beside whom. A push beside another is of a take in `Rivals` (a bound). `Dies` ends a stage
anywhere. `Cleanup` may not get through before the next push, and may come under a live pipeline
(`wiped`): its next stage finds no logs/ to write to (`dir`). run_pipeline.sh ignores what job_io
returns: a status may be lost (`WriteStatus`), the result may not be written (`Finalize`), and
"done" (`SaysDone`) follows all the same. A stage's reads and writes are one step, so two
pipelines interleave stage by stage; `RerunAlign` runs on a completed job, as its text says.

### MsaBootstrap, AssetPlacement, AgentLoop, Critic, NightlyBatch, IsaacValidate

`MsaBootstrap` is `run_bootstrap`: each filter is an action that records in `out` what it took
out; walls are cut and numbered anew; gaps are measured over a second labelling of the
grid; one artifact is written after another, over those of an earlier run.

`AssetPlacement`: a library file has a version; an asset is placed by the index's bounds of
it; `ConvertGlbToUsd` creates the USD, empty and with the time of now, `SaveUsd` fills it,
`WriteSidecar` writes its sidecar, `AddAssetVisual` reuses both when they look newer than the
source (`newer`: which files the conversion is newer than) and copies them beside the scene when
the copy is older. An assembly may die between any two of these, while it writes a sidecar, and
in the middle of a copy, which then is torn and looks newer than what was copied. A library file
may be replaced by a newer one or by one older than the conversion (`aged` remembers which).

`AgentLoop` is `SceneState.apply` and `run_object_combo`: the answers of generator and
verifier are any proposal within or outside the bounds. `Critic` has the rule checks as sets
of findings, the model's findings with whatever tags it invents, and the merge. `NightlyBatch`
runs beside a backend that goes on without it. `IsaacValidate` takes the checks in order;
every early exit is an action, so is the audit's fall back to the schema, and PhysX is any
sequence of positions. `unmet` is a history variable: the checks ever entered as required and
failed or skipped, which a later entry of the same name hides from the report; `PassIsEarned` is
about it and not about what the report is left with.

### Studio and MCStudio

These six, `GpuJob` and `SceneExport` are instances in one module. A behaviour picks a `part` and
takes its steps, the others stay at their initial state: they share nothing while they run, only
files that one has finished with before another opens them, so the reachable states are the sum
and not the product of the parts. A property of the model is the part's own. `MCStudio` has the
values of the run and checks, on them, what the theorems ask of the constants. Its one `CONSTRAINT`,
`ToolsApart`, takes the calls of `SceneState.apply` before the bake-off loop's first step: the two
share no variable and no code calls one from the other, so every state of each is reached.

## 3. Runs

All passing runs exhaust their state space.

| run | asks | instance |
|---|---|---|
| `box_safe` | `TypeOK`, every box that is up is owned, `done` means no box is up, one box at a time, no contract forgotten, a retired box stays down, boxes come down, runs end | three ids, two attempts, two runs; no faults, fair driver |
| `box_allfaults` | no registered box is reported down that is up; a run that ends DONE says what it left up | the same, every fault, a late tick of the supervisor among them |
| `cost_safe` | a day's ledger against the cap, a running overrun, what is booked against what the box took | cap 3, two runs of up to 2, steps of 2, tick 1, exit 1, eight units of time; every fault but a failed `show` |
| `scene_safe` | `TypeOK`, a done scene shows its latest run | two videos, three jobs, no faults |
| `scene_live` | nothing is stranded, everything settles | two videos, two jobs; dead polls, failed cleanups, doubled starts |
| `scene_cancel` | cancellation leaves no scene processing | one video, three jobs; cancellations, dead polls, a queue that is down |
| `scene_allfaults` | files and rows agree; the refinement | one video, two jobs, every fault, a deletion cut between files and row among them |
| `resume_safe` | a fusion gets the vote it was asked with, files of one fusion, controls kept, a finished run shows one fusion | three runs, two votes, every fault, a rehearsal among them |
| `plan_safe` | routes are clear, A* finds a cheapest path, reachable means routable, answers are of the current layer and robot, every command is recorded, the rectangle's verdict is sound | three rooms of 7 x 6 cells: a fin with a way round it, a dividing wall, a camera outside the grid; two robots, two requests; a backfill, a deletion, a rerun; and every grid of 3 x 2 cells |
| `studio` | ten properties of the eight offline parts | per part, below |
| `box_queue`, `timings` | a statement of the repository that the code does not keep | the fault concerned; one video, two log lines |

`studio`, per part: MSA bootstrap, a 10 x 8 grid with ten objects, two runs over one
directory; agent loop, two objects of which one
begins outside the bounds, two steps, one verifier, two calls of `SceneState.apply`; critic, two exports and two views;
GPU job, four keyframes, six takes, two pipelines, one after the other or, with the first take, side by side; nightly batch, two projects, two starts;
asset placement, three objects, three library assets, one replaced file, one assembly that dies; export, a 3 x 3 grid,
two requests, one rerun; Isaac validation, six stages, six builds, four command lines, a drop of
four steps.

Why these bounds are enough. Three instance ids, two attempts per acquisition and two driver
runs let a box be retired, its replacement be retired in turn or fail, and a following run
find whatever was cached. Two runs of up to two dollars and a cap of three let a run start on a
partly spent day; with eight units of time a run reaches its overshoot and a second one follows
it, on either side of midnight. Two videos and three jobs are an upload, a rerun of it and a
job of another video between them; one video and two jobs a rerun that meets what the first
run left. Two votes and three pipeline runs let one run leave a stack or a box directory of its
own, a second be cut while it overwrites or pulls it, and a third take over what is left. On a
7 x 6 grid a robot of two cells is blocked where one of one cell passes, a route has a corner
to smooth and a goal has cells it can be resolved to on both sides of a wall; two requests are
one that fills a cache and one that meets it after a change. In the offline parts a second
attempt, export, start or replacement is what meets the leftovers of the first.

`AstarFindsCheapest` evaluates the search in the states before the first request: on the cost grids
of the three rooms and on every way a grid of 3 x 2 cells can be open and dear to enter. It contains
`RouteIsSound` and `RegionsAreSound`, which the theorems about the planner need of every grid; the
theorem `SearchRight` gives them. A robot start may lie up to a metre outside the grid
(`AnchorMargin`); a client sends no place or one far off it, and the model a number for a name or
an answer that cannot be read, so that rows are left pending in the run. The constants of `studio`
are in its .cfg, the sets they name in `MCStudio`, with a check, `PiecesAssumption`: the labelling of `MsaRegions` cuts
every set of a small grid into parts. The files of the instance have places of their own, so
`VisualsAreCurrent` excuses none of them but the aged.

A property sits in the run whose faults it survives, and its theorem assumes the same. That
is itself information: `DoneIsFresh` holds without zombies and failed cleanups, and fails
after one failed cleanup; `NotStuckProcessing` survives cancellations and fails after one
failed commit; `LedgerWithinCap` fails as soon as a `show` does, since a boundary then passes
on an old cost; the plan's `AnswerIsCurrent` fails under the fault `rewrite`, a backfill run
again over a layer that is served, since its files are replaced one by one.

`CHECK_DEADLOCK FALSE` everywhere: each system stops when the bounded runs, jobs, videos and
requests are used up and nothing is left to do.

### Fairness

`BoxLifecycle!FairSpec` is weakly fair in the driver's own steps: it is one thread, each of
its calls has a time-out (`CALL_TIMEOUT_S`, `step_timeout_s`), and in vast carrying out a
stop it accepted (`StopCompletes`) and a start it queued (`QueuedStartFires`). Nothing is
assumed of the operator or of midnight. `SceneJobs!FairSpec` is weakly fair in the worker's
steps: every await of the task is bounded (the `timeout` of `_run`, the deadline of
`_poll_until_terminal`, arq's own `job_timeout`). Nothing is assumed of users or of the host:
a pipeline may hang for ever, and the poll's deadline ends it.

### Disagreements found

Two have a run, and `PROJECT.json` lists them under `findings` with the sentence each
contradicts: a queued start that is never cancelled (`box_queue`), and stage timings that a
poll writes over the worker's final ones (`timings`).

The others are kept as definitions at the end of their modules, each under the sentence it
states, and no run is spent on them:

| definition | what the repository says, and what happens |
|---|---|
| `BoxLifecycle!RegisteredBoxReported` | "`why is this box costing money' must be answerable from status.json alone" (`run_pipeline.py` 1221-1222): a tick of the supervisor that copied the record before the finally block's take_down writes it after (487-491, 1671), and the entry of a box that was kept up, or whose stop failed, reads like a box in use |
| `BoxLifecycle!EveryBoxIsStopped` | a run loses the right to stop its box at midnight |
| `SceneJobs!FailedHasNoRows`, `OnePipeline` | a failed scene keeps an earlier run's rows; a pipeline outlives its cancelled job |
| `PipelineResume!LiveReadsItsOwn` | a live run finishes on outputs of the published scene |
| `CostControl!CapCoversBill` | the ceiling is "checked against the same ledger": bring-ups that fail before registration and the tail after the last poll are billed and not booked |
| `CostControl!LedgerCountsOnce` | after a driver that refuses to start, the run before is booked again |
| `PlanService!GotoAgrees` | "never reports an object reachable that a real `goto` would then fail to reach, or vice versa" (`pathfinding.py` 1133-1134); objects that are fragments are left out of one and not of the other |
| `PlanService!StartIsRoutable` | the same sentence, of a `goto` from the start that is reported: it may be a camera pose up to a metre outside the grid, and beyond two cells `plan_to_object` raises and the command's row stays pending |
| `PlanService!NeverDiscarded` | "persist the result on the `Command` row - success or failure, never discarded" (`command_service.py` 180): an answer of the model that is no JSON or whose content is null (`vlm_client.py` 166-174), a target that is no string and a `from` off the grid raise what no `except` clause names (262), and the row stays pending |
| `Critic!CriticDegrades` | "degrades gracefully rather than raising" (`critic_rules.py` 20); a `room_polygon` of null raises |
| `GpuJob!ViewsOfOneRun` | the pooled views are "from one inference run" (`floor_ceiling.py`); a directory that was not cleaned keeps views of the attempt before |
| `GpuJob!ResultOfTheDone` | result.json is "the final artifact-summary the backend reads", "written once, at the very end, after `state=done`" (`job_io.py` 115-117): it is written before, its failure goes unnoticed (`run_pipeline.sh` 80-82), so a job that is done may have none, or an earlier attempt's; the backend never reads it |
| `GpuJob!MaskIsTheFootprint` | the mask marks "every cell whose world-space extent overlaps" an object's box (`occupancy_classify.py` 103, and a test's name): it takes a row and a column more on the high side, and an object off the grid marks cells of the border |
| `NightlyBatch!TurnedDownIsFailed` | a scene's validator status is "passed", "failed" or "pipeline_error" (`nightly_batch.py` 132); one that validation turned down is not always reported as failed |
| `AssetPlacement!VisualFitsItsBox` | "Same placement as the GLB": a converted USD is reused when its file looks newer (`usd_assets.py` 167-171), so the file shown may have other bounds than those that placed it |
| `SceneExport!ExportIsCurrent` | "a param change is a different cache file, never a stale one" (`routers/scenes.py` 472); an export that was being built across a rerun is served as the new run's |
| `IsaacValidate!MissingCallExits3` | "if a call is missing ... this exits 3" (`isaac_validate.py` 14-16); without overlap_box the audit goes on with the schema only, and its entry overwrites the one that said so |
| `IsaacValidate!RequiredCheckRuns` | "the general 'required check must actually run' rule" (`tests/test_isaac_validate.py` 38); the skipped required `collider_coverage` of `isaac_validate.py` 714-721 is replaced by the schema audit's entry at 757, and the exit code is 0 |

The models show more, in the same places.

*Boxes.* The refusal check is also applied to `create`, and an answer mistaken for a refusal
leads to a second box (`vast_client.py` 320, 354, against its comment at 90-93); a bring-up that
fails and whose stop is refused leaves a box that bills in no status.json (`run_pipeline.py`
1211, against 1220).

*Scenes.* A failed commit makes `mark_failed` raise out of the catch-all
(`pipeline_orchestrator.py` 108); after a failed cleanup a rerun publishes what the previous run
left on the host (`gpu_client.py` 371); a start whose ssh timed out is issued again, and two
pipelines write one directory (`gpu_client.py` 212, against 172). A deletion that dies or fails
to commit behind its `rmtree` leaves a scene that is done without its files, until it is deleted again or
rerun (`scene_service.py` 329-334, `project_service.py` 144-155): the case `FilesMatchRows` excuses by
name, `torn`.

*Resume.* A filter killed over the stack of an earlier vote leaves a mixture that the earlier
vote's next run accepts (`mvfilter.py` 173, against `run_pipeline.py` 751; this is the exception
in `VotedStack`); flags that change what NVBLOX fuses (`--mvfilter`, `--no-color`) have no effect
once a scene is there, although `depth_file` is called the place where "the flag cannot
half-apply" (`run_pipeline.py` 536); a fusion without a floor, or a pull cut inside the slice,
leaves a directory on which every later run fails (`run_pipeline.py` 844).

*Planner.* A rerun replaces the object rows without `invalidate_grid`; a start or `from` more
than two cells outside the grid raises a ValueError nobody catches, and the command's row stays
pending; the goal's component is 8-connected while A* does not cut corners; a smoothed route may
pass between two cells that touch at a corner; the distance transform needs an obstacle.

*GPU job.* `.env` stays after a failure until a cleanup gets through; the parameter
`regularize_planes` is sent and no stage reads it.

*Bootstrap.* Two thin floating objects that overlap support each other (`support_rule.py` 1);
the class caps run after the support rule and can drop a supporter; a run that ends early leaves
scene.usd and cameras_aligned.json of the run before; class_caps.py calls itself "not wired into
run_bootstrap" (24), and it is.

*Agent loop and critic.* A known action without its number raises out of the whole evaluation
(`bakeoff.py` 158, 233), whose results are written only at the end (358); the verifier is
promised an image before and one after and is given the first (276). The merge takes labels from
the newest objects.json, the findings from a critic_rules.json that may be older.

*Nightly batch.* A project reported as timed out may still be running; nothing is on disk before
the report; the docstring's fallback for timings is not in the code.

*Assets and exports.* Sanitized asset ids can collide (`usd_assets.py` 334), and then the place
shows the file converted last; a library file replaced by one with an older mtime (`cp -p`,
`rsync -a`) is not converted again (167); these are the two cases `VisualsAreCurrent` does not
claim. An assembly that dies between the creation of a converted file (180) and its saving (241),
with the sidecar of an earlier conversion beside it, leaves an empty file that is taken from the
cache from then on, and one that dies in `_sync_dir` a torn copy that is never copied again (325):
neither is repaired, the check at the end reports `differs` every time. The index cache looks at INVENTORY's mtime only. A
deletion while an export is built brings the scene's directory back (`usd_export.py` 1013);
objects are read after layer and row, so an export built across an ingest mixes two runs and is
cached; an unreadable room cloud is an error while an unreadable object cloud becomes its box; a
decimated hull can be smaller than what it covers. The radius of a platform "only affects the
stamped" attribute, "not any collision geometry" (`usd_export.py` 312), while the boxes are those of the
platform's height, which the cache's key does not hold: right only because no two platforms of
`app/robots.py` have one radius (`RobotsAssumption`).

*Isaac validation.* The sphere's summary reports the steps that were asked for, also when it
settled earlier.

## 4. Proofs

TLC checks the instances above; the theorems hold for every value of the constants (any
number of boxes, videos, jobs, attempts, runs, steps; any answers of the models), from the named
assumptions of the modules and those a theorem states itself. Each is `Spec => []P` from an
inductive invariant, or an action property under one.

`BoxLifecycleProofs`
- `TypeCorrect`.
- `ReportsAreTrue` (every fault): `ConfirmedIsDown` and `DoneReportsItsBox`. They are not
  inductive: a start still queued for a registered box would bring it up behind its record.
  `ReportInv` adds that no start is queued for the box in hand or a registered one, that a run
  has registered nothing before its box is provisioned, and that "confirmed" is true wherever it is
  held, in `info`, in the supervisor's copy and in the entry; `DoneInv` follows the box of the run
  from its bring-up to its take-down.
- `EntriesAreTrue` (every fault but `late_record`): `RegisteredBoxReported`. `RecordInv`: an entry
  is what the session's own record says.
- `OneBoxNoneLost` (with `NoLostContract`), `RetiredStaysRetired` (assuming `HonestStarts`: no
  queued, misread or lost answer, no kill). `ContractInv`: `iid` is the cached id; cached and
  retired ids are rented; nothing is queued; only `Current` runs, which is `cur` between a create
  and its caching and the cached id at every other position; a replacement is not the box it
  replaces.
- `DoneWithoutABox` (every fault). `HoldInv`: the only session is `iid`'s, and there is none
  before provisioning is done or after the take-down.
- `EveryBoxOwned` (assuming `Faults = {}`). `OwnedInv` is `HoldInv`, `ContractInv`, `RecordInv`,
  armed for as long as the run lasts, and the property.

`CostControlProofs`, for every cap, time-out and tick, under every fault but a failed `show`
- `DayWithinCap`, `OverrunBounded`, `TypeCorrect`. The properties speak of the ledger and of a
  box that is up; what makes them true is where the main thread is. `CostInv`: once a boundary
  has polled, an overrun is known (`Polled`), so a step is entered with the cost within the
  budget; inside a step the cost has grown by no more than the time since (`Spent`), and that is
  bounded by the step's time-out (`InTime`); the clock of a box is running until its exit is
  confirmed and never restarted (`Session`); what is booked is never more than what was measured
  (`Booked`); and the day a run is booked on had room for its budget, or is a new one
  (`Budgeted`). The supervisor's ticks are not needed for the bound: the boundaries are.
- `CostMeasured`: what a run whose stop was confirmed has booked is the time its box was up, short of at
  most one tick. Here the ticks matter: the next one is never more than an interval away
  (`Ticking`), and what is booked is never older than that, through every order of the two
  threads' polls, except between a bring-up and the first boundary behind it (`Metered`).

`SceneJobsProofs`
- `TypeCorrect`.
- `FilesAndRowsAgree` (every fault). `FilesMatchRows` alone is not inductive: a task could
  overwrite the directory of a scene that is done. `RowInv` adds `IdsInv` (a row has an id
  exactly when it exists, ids belong to one video and to an issued job), `QueueInv` (queued
  jobs come in the order of their numbers, later than every scene's id) and `TaskInv` (the
  task's scene is no other video's and is `processing` while the task is inside its try) and
  `ServedInv` (the rows of a done scene are those of the files last put in its directory).
  `GoneInv` is about the files a deletion removed: they are those of the row it is about to drop,
  of a row a failed deletion left, or of no row, and ids to come are greater.
- `ImplementsLifecycle` (every fault): initial states map to initial states, and
  `StepLifecycle` maps each step to a step of `SceneLifecycle` or a stutter, under `RowInv`.
- `ProcessingIsOwned` (no crash, no database error; cancellations allowed) and
  `NothingStranded` (no cancellation either), from `SettleInv`.
- `DoneShowsLatestRun` (no pipeline outlives its task, no cleanup fails). `FreshInv` says
  that a live pipeline is the current task's own, and that the job directory of a scene with
  no task is gone.

`PipelineResumeProofs`
- `TypeCorrect`.
- `VotesRespected` (every fault). `StackInv`: a sealed stack has the vote its json names, past
  MVFILTER the run's arms are accepted, and so are the arms it has still to fuse; the lemmas
  on arms say that each fused arm is one that MVFILTER checked, or the raw stack.
- `OneFusionOnly`, `ControlsFirst` (every fault). `OneFusion` is not inductive: it says nothing
  of a directory that is not accepted yet. `FusionInv` adds that the slice is the last file to
  arrive, on the box after the distance field and locally after all others (`BoxOrder`,
  `Coherent`), that what is about to be pulled is this run's, and that while arms are left the
  scene has no slice and the controls done so far are this run's (`ArmsLeft`).
- `SceneOfOneFusion`, assuming `OwnScenes` (no command line reads the published scene): without
  it `LiveReadsItsOwn` shows the counterexample. `PostInv`: whatever was made shows the accepted
  scene, and each step past NVBLOX has what its predecessors make, or is a gated rehearsal.

`PlanServiceProofs`, for every room, robot and series of requests; what is said of the searches
holds on every cost grid and with no hypothesis
- `SearchRight`, `AstarIsRight`. `Measures` gives each cell of the start's component the least
  cost from the start, as a function that no move improves and that a move into every other cell
  attains; it is the least of the costs in the smallest set of cells with costs that has the start
  and is closed under moves (`MeasureExists`). The invariant of A* (`Searching`) is then: visited cells have their measure in `g`, and with `came` a
  chain of settled cells to the start; every neighbour of a visited cell is visited or in the
  heap at no more than the cost through that cell; heap entries are `g` plus `Octile`. `Octile`
  never exceeds the cost to the goal and falls by no more than the cost of a move, so that what
  is popped has its measure (`PopIsShortest`) and `Expand` keeps the invariant (`ExpandKeeps`). An
  empty heap leaves the visited cells closed under neighbours, which is the component
  (`SearchEnds`); the chain of `came` is as cheap as the measure (`WalkEnds`, `PathCostFollows`).
  Floods are closures of the neighbour function (`FloodIsClosure`), so the components are parts
  (`RegionsPart`); the relaxation that `SearchIsRight` compares with settles on the measure
  (`DistancesSettle`).
- A move of a path is a line of its own two cells (`NeighborLine`): `SmoothPath` keeps a
  neighbour or a corner in sight, so no line of a smoothed route leaves the open cells
  (`SmoothRoutes`).
- `RectangleErrsSafely`. A flood of the cells that fit with one heading is, cell by cell, a part of
  the flood over poses with that heading (`FixedHeadingInSe2`), and start and goal are found among
  poses that fit (`RectangleReached`).
- `AnswersAreCurrent`, assuming `NoRewrite` (no backfill over a scene that has a layer). `Fresh`: a
  cached height is what the layer's files give, a cached answer is what `ComputeReachability` gives
  now for the robot it is kept under, and a request that waits holds cells and objects of the
  present layer.
- `ShapeKept`, `CommandsRecorded`. `Settled`: what is kept has its shape, a row has a route exactly if
  it is done, and a pending row is the command at hand or one whose answer or start
  `execute_command` has no clause for; from a start on the grid neither leg can raise
  (`StepsBuilt`), from one off it there is no step (`StepsOffGrid`).
- `ReachableIsRoutable`, `RoutesKeepClear`, assuming `NoRewrite`: an object is listed
  as reachable exactly when `PlanToObject` from the reported start succeeds, and the corners and
  straight lines of every route lie in cells the robot fits in. The lemmas on `Inflate`,
  `CostGrid`, snapping and the largest region are about the operators alone.

Loops are functions defined by recursion over rounds. That such a function exists and that its
states keep an invariant is proved from the well-foundedness of the naturals, by the first round
for which it would fail (`RoundsExist`, `RoundByRound`).

`GpuProofs`, over `Studio`
- `DoneByOneAttempt`, for any takes, dirty directories, shared directories and lost statuses included,
  from `AttemptsAssumption` (`MaxAttempts` is a number). What a pipeline has written by the stage it
  is at (`Before`) is overwritten only by one that is at work, which is beside it or came later
  (`CrewInv`), or removed under it (`Fresh`, `JobInv`).
- `NoPhantomLeft`. `GridInv` says that nothing the grid of a pipeline alone in its directory was
  judged by changes until it says "done", nor after; the lemmas are about the two filters: what the first leaves was seen often enough, and the pieces
  the second keeps are pieces of what is left.
- `OneJobOnly`, from `NoneAssumption` and `ProjectsAssumption` (projects are numbered by name). `NightInv`:
  a project's jobs of the night, and one more if its turn to be uploaded is still to come (`Owed`),
  are no more than the starts without an entry for it in the resume map.

`MsaProofs`, over `Studio`
- `RefinementStaysBounded`, from `LoopAssumption`, which asks for numbers only: the start perturbation
  is any, as `bakeoff.py` 194-195 takes it (the longer side of an object decides whether its three
  percent are within the limit). A proposal is judged before it is a trial, and only a trial that
  fits better is taken over (`LoopInv`).
- `ModelNeverGates`, from `AnswersAssumption`: an answer is a set of findings with a source and a tag,
  whatever these are.
- `ObjectsAccounted`, from `ScansAssumption`. `BootInv`: the stages ahead have taken nothing out, and
  from the merge on an object is in the list or out at exactly one stage (`Account`). The merge,
  which keeps the better of two duplicates as long as there are any, needs its order to be one.
- `GapsNameTheirWalls`, assuming `LabelsParts`: ndimage.label cuts a set of cells into non-empty parts
  (`PiecesAssumption` checks it of the model's labelling). The second labelling numbers the parts as
  the first did, and clipping and dropping walls leave the indices that are exported (`GapsInv`).
- `ShownIsPlaced`, from `LibraryAssumption`, and of every library: that a file is alone in its place,
  which the code's sanitized ids do not ensure, is asked of each shown file by the property, not of
  the library by the theorem. `PlacementInv`: a place holds the conversion of a file of its own, and
  one that is newer than the file and not aged is of its version of now, even while it is empty; a
  copy in step, whole or torn, is of the conversion (`CacheInv`); while an assembly runs, what it
  placed is as it was loaded (`PlacedInv`); what it has referenced and is alone in its place is
  converted and copied, and no such file lies where a conversion is under way (`AuthoredInv`). The
  last conjunct is what an assembly that converts
  one asset for several objects needs. That what is placed is a file of the library at all takes the
  order in which candidates are compared: it is total, so the best of finitely many exists.

`ExportProofs`, over `Studio`
- `RequestedExport`, from `RobotsAssumption` (platforms of one radius have one height; no two of
  `app/robots.py` share a radius). `ExportInv`: every file in the cache, in a request and in an answer
  was made for a platform of the radius in its key (`MadeFor`). That the boxes tile the obstacle is
  an invariant of the greedy scan: after each cell, in row-major order, the claimed cells are the
  disjoint union of the boxes, contain every obstacle cell passed, and no other. The scan is a
  recursive function; that it exists, and the invariant along it, are proved from the
  well-foundedness of the naturals, by the first cell for which they would fail.
- `ExitZeroIsEarned`, assuming only that "not ended yet" is no exit code (`NoneAssumption`). `Established`
  says what the checks passed so far have shown, `SphereJudged` that the report holds the verdict on
  the sphere, `Entered` which entries each place has behind it, `UnmetShown` that a required check
  that did not pass still says so in the report, but for the overlap a build does not have; then only
  two steps can end with 0.

`LoopAssumption`, `ScansAssumption`, `ProjectsAssumption`, `AnswersAssumption`, `RobotsAssumption`,
`LibraryAssumption` and `NoneAssumption` are assumptions of `Studio`, evaluated by TLC on the run's values.

Every safety property of a passing run is a theorem. Left to TLC:

- `BoxComesDown`, `DriverEnds` and `SceneSettles`: liveness, which needs fairness and ENABLED.
- `TimingsAreFinal` and `QueuedStartIsCancelled` are false, which is what their runs show; the rest of
  `SceneIngest` has no property of its own worth a theorem.

## 5. Abstractions

- Artifacts, object rows and files are the number of the run that made them, except where a
  property is about what they hold. In the backend, parsing is one choice, valid or not, and
  the checks of the validation are a set of names.
- ssh and rsync: one outcome per call, with the retries inside it; where a retry is visible
  (a start issued twice) it is a fault of its own.
- Time is counted in `CostControl` only, in units that cost one dollar; elsewhere a time-out is
  an action that may happen, and midnight is an action. A cost of the box is not modelled in
  `BoxLifecycle`, nor a replaced box in `CostControl`.
- Numbers are small integers in the unit a module's header names (half cells, dm, units of five
  degrees, percent); the square root of two is 1.4. Rotations of a room are the identity and the
  half turn; planes have no tilt; outlier removal, percentile trims and voxel caps are left out.
- What a network, a model or PhysX returns is any member of a set given as a constant.
- The bounds `MaxJobs`, `MaxAttempts` (the code's own limit), `MaxRuns`, `MaxTime`, `MaxApplied`,
  `MaxExports`, `MaxStarts`, `MaxVideos`, `MaxReplaced`, `MaxDeaths`, `MaxVersion` and `MaxRequests` are in the
  guards of the actions that count.
- The flags of a pipeline run are fixed beforehand; those that do not choose an input (band,
  export, reach, floor seed) are left out.
- Generation, changes of the library and an assembly are assumed not to overlap, as the
  operator runs them one after another; so are two drivers over one scene directory.
- `worker_connected` on the processing screen uses the start and finish stamps of steps only.

## 6. Plan

`PipelineResume` beside `BoxLifecycle`: one machine whose GPU_UP and GPU_DOWN steps are the
driver's, and an abstract specification, a full run with the flags given, that it implements
where the flags do not change.

### Not modelled

- Rendering, textures, presentation, recording (`scripts/msa/textures.py`,
  `export_presentation.py`, `record_isaac.py`, `export_usd.py`, `render_perspective.py`,
  `visibility.py`, `validate_msa.py`): they compute pictures and meshes from finished files, keep
  no state across calls, and what could be wrong with them is numeric or visual.
- `scripts/audit/fit_prob.py` and the other audits: statistics over finished files.
- The frontend: it displays what the API returns and polls; the polling is in `SceneIngest`.
- Networks (reconstruction, segmentation, chat and image models), vast.ai, Redis, Postgres,
  rsync and Isaac itself: modelled from how the code uses them.
- Migrations and deployment: they hold no behaviour.
