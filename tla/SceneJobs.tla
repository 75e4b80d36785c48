------------------------------ MODULE SceneJobs ------------------------------
(***************************************************************************)
(* From an upload to a scene: the API (app/routers), the arq queue and its *)
(* single worker (app/worker.py), the orchestrator that pushes a job to    *)
(* the GPU host, polls it and ingests its results                          *)
(* (app/services/pipeline_orchestrator.py, gpu_client.py), the pipeline    *)
(* detached on that host (gpu/run_pipeline.sh) and the scene row.          *)
(*                                                                         *)
(* A job is numbered when it is enqueued; its number names the run, and    *)
(* the scene if the job creates one.  Artifacts and object rows are        *)
(* abstracted to the run that produced them.                               *)
(***************************************************************************)
EXTENDS Naturals, Sequences, FiniteSets

CONSTANTS
  Videos,    \* videos that may be uploaded, each into a project of its own
  MaxJobs,   \* bound: jobs ever enqueued, uploads and reruns
  Faults     \* what may go wrong, a subset of FaultKinds

FaultKinds == {
  "cancel",        \* arq cancels the task: job_timeout, SIGTERM of the worker
  "kill",          \* the worker dies: SIGKILL, crash, power
  "db_fails",      \* a flush or commit of the scene row fails
  "enqueue_fails", \* Redis refuses the enqueue after the video row was committed
  "poll_ends",     \* the deadline passes, or the host stops answering, under a live pipeline
  "start_repeats", \* the ssh that starts the pipeline times out and is tried again
  "cleanup_fails", \* the remote rm -rf fails, and is swallowed
  "delete_fails"   \* the API dies, or its commit fails, between a deletion's files and its row
}

ASSUME MaxJobsAssumption == MaxJobs \in Nat
ASSUME FaultsAssumption == Faults \subseteq FaultKinds

VARIABLES
  video,  \* per video: "new", "present", "fileless" (its row without its file), "deleted"
  id,     \* per video, the columns of its scene row: its id, 0 without a row,
  status, \* its status, "none" without a row,
  rows,   \* the run its artifact columns and object rows come from, 0: none yet,
  run,    \* the last run that was marked on it
  local,  \* per scene id: the run whose artifacts were last put in uploads/scenes/<id>, 0: none
  gone,   \* the scene ids whose directory a deletion removed since
  torn,   \* those of them whose deletion failed before it dropped the row
  del,    \* the deletion under way: [kind, video, sid: the scene id it read]
  queue,  \* arq's queue
  jobs,   \* jobs ever enqueued
  pc,     \* the worker's one task
  job,    \* the job it runs
  sid,    \* scene.id of the row it loaded
  dead,   \* its session holds a failed flush: every later use of it raises
  dir,    \* per scene id: <workspace>/data/jobs/<id> on the GPU host, by its status.json
  art,    \* per scene id: the run whose artifacts are in that directory, 0: none
  procs   \* run_pipeline.sh processes alive on the GPU host

scene == <<id, status, rows, run>>
files == <<local, gone, torn>>
data  == <<video, scene, files, del>>
task  == <<pc, job, sid, dead>>
host  == <<dir, art, procs>>
vars  == <<data, queue, jobs, task, host>>

Ids      == 1..MaxJobs
Statuses == {"none", "queued", "processing", "done", "failed"}
Jobs     == [n : Ids, video : Videos, rerun : BOOLEAN]
PCs      == {"idle", "create", "mark", "push", "start", "poll", "fetch", "ingest",
             "commit", "fail", "cleanup", "cancel_cleanup", "cancel_mark"}
DirStates == {"gone", "unknown", "running", "done", "failed"}
Procs    == [run : Ids, copy : {1, 2}, sid : Ids]
InTry    == {"push", "start", "poll", "fetch", "ingest", "commit", "fail"}

NoDeletion == [kind |-> "none"]
Deletions  == [kind : {"scene", "video", "project"}, video : Videos, sid : 0..MaxJobs]

HasScene(v) == id[v] # 0
HasVideo(v) == video[v] \in {"present", "fileless"}

Init ==
  /\ video = [v \in Videos |-> "new"]
  /\ id = [v \in Videos |-> 0]
  /\ status = [v \in Videos |-> "none"]
  /\ rows = [v \in Videos |-> 0]
  /\ run = [v \in Videos |-> 0]
  /\ local = [i \in Ids |-> 0] /\ gone = {} /\ torn = {}
  /\ del = NoDeletion
  /\ queue = <<>>
  /\ jobs = 0
  /\ pc = "idle"
  /\ job \in Jobs /\ sid \in Ids /\ dead = FALSE
  /\ dir = [i \in Ids |-> "gone"]
  /\ art = [i \in Ids |-> 0]
  /\ procs = {}

-----------------------------------------------------------------------------
(* The API *)

PutRow(v, i, st, r, n) ==
  /\ id' = [id EXCEPT ![v] = i]
  /\ status' = [status EXCEPT ![v] = st]
  /\ rows' = [rows EXCEPT ![v] = r]
  /\ run' = [run EXCEPT ![v] = n]

DropRow(v) == PutRow(v, 0, "none", 0, 0)

Enqueue(v, rerun) ==
  /\ jobs < MaxJobs
  /\ jobs' = jobs + 1
  /\ queue' = Append(queue, [n |-> jobs + 1, video |-> v, rerun |-> rerun])

\* The row is committed first, then the job is enqueued.
Upload(v) ==
  /\ video[v] = "new"
  /\ video' = [video EXCEPT ![v] = "present"]
  /\ \/ Enqueue(v, FALSE)
     \/ "enqueue_fails" \in Faults /\ UNCHANGED <<queue, jobs>>
  /\ UNCHANGED <<scene, files, del, task, host>>

\* A rerun has a fresh job id, so arq never refuses it; it needs a scene of any status.
Rerun(v) ==
  /\ HasVideo(v) /\ HasScene(v)
  /\ Enqueue(v, TRUE)
  /\ UNCHANGED <<data, task, host>>

\* What goes first: the scene's directory with a scene or a project, the video's file with a
\* video or a project.  One deletion is under way at a time.
RemoveFiles(v, kind) ==
  /\ del = NoDeletion
  /\ IF kind = "scene" THEN HasScene(v) /\ video' = video
                       ELSE HasVideo(v) /\ video' = [video EXCEPT ![v] = "fileless"]
  /\ gone' = IF kind = "video" THEN gone ELSE gone \cup {i \in Ids : i = id[v] /\ local[i] # 0}
  /\ del' = [kind |-> kind, video |-> v, sid |-> id[v]]
  /\ UNCHANGED <<scene, local, torn, queue, jobs, task, host>>

\* The awaited delete and commit: the scene row by the id that was read, or what the video's
\* row has by cascade, whose directory stays.
DeleteRow ==
  /\ del # NoDeletion
  /\ IF del.kind = "scene"
       THEN /\ video' = video
            /\ IF id[del.video] = del.sid THEN DropRow(del.video) ELSE UNCHANGED scene
       ELSE video' = [video EXCEPT ![del.video] = "deleted"] /\ DropRow(del.video)
  /\ del' = NoDeletion
  /\ UNCHANGED <<files, queue, jobs, task, host>>

DeleteFails ==
  /\ "delete_fails" \in Faults
  /\ del # NoDeletion /\ del' = NoDeletion
  /\ torn' = torn \cup (gone \cap {del.sid})
  /\ UNCHANGED <<video, scene, local, gone, queue, jobs, task, host>>

-----------------------------------------------------------------------------
(* The worker: process_video, run_pipeline_for_scene, _run *)

V == job.video

\* The row this task loaded still exists: an UPDATE of it touches one row.
Mine == id[V] = sid

\* max_jobs = 1: one task at a time.  A video that is gone ends the job.
TakeJob ==
  /\ pc = "idle" /\ queue # <<>>
  /\ job' = Head(queue) /\ queue' = Tail(queue)
  /\ pc' = IF HasVideo(Head(queue).video) THEN "create" ELSE "idle"
  /\ dead' = FALSE
  /\ UNCHANGED <<data, jobs, sid, host>>

\* get_or_create_scene, and the short cut of a plain job for a scene that is done.  With
\* the video deleted in between, the INSERT violates its foreign key and the job dies.
CreateScene ==
  /\ pc = "create"
  /\ IF ~HasVideo(V)
       THEN pc' = "idle" /\ UNCHANGED <<scene, sid>>
     ELSE IF ~HasScene(V)
       THEN /\ PutRow(V, job.n, "queued", 0, 0)
            /\ sid' = job.n
            /\ pc' = "mark"
       ELSE /\ UNCHANGED scene
            /\ sid' = id[V]
            /\ pc' = IF ~job.rerun /\ status[V] = "done" THEN "idle" ELSE "mark"
  /\ UNCHANGED <<video, files, del, queue, jobs, job, dead, host>>

\* Mutant: a rerun leaves the scene readable while it runs.
MarkKeepsDone ==
  /\ pc = "mark"
  /\ IF Mine
       THEN /\ PutRow(V, sid, IF status[V] = "done" THEN "done" ELSE "processing",
                      rows[V], job.n)
            /\ pc' = "push"
       ELSE UNCHANGED scene /\ pc' = "idle"
  /\ UNCHANGED <<video, files, del, queue, jobs, job, sid, dead, host>>

\* mark_processing is outside the try: an UPDATE of no row ends the job.
MarkProcessing ==
  /\ pc = "mark"
  /\ IF Mine
       THEN /\ PutRow(V, sid, "processing", rows[V], job.n)
            /\ pc' = "push"
       ELSE UNCHANGED scene /\ pc' = "idle"
  /\ UNCHANGED <<video, files, del, queue, jobs, job, sid, dead, host>>

MakeDir == dir' = [dir EXCEPT ![sid] = IF @ = "gone" THEN "unknown" ELSE @]

\* mkdir -p, then input.mp4 and params.json: what a previous run left stays beside them.
PushJob ==
  /\ pc = "push"
  /\ \/ video[V] = "present" /\ MakeDir /\ pc' = "start"
     \/ (MakeDir \/ dir' = dir) /\ pc' = "fail"
  /\ UNCHANGED <<data, queue, jobs, job, sid, dead, art, procs>>

Process(copy) == [run |-> job.n, copy |-> copy, sid |-> sid]

\* One detached process; two when the ssh that started the first timed out.
StartPipeline ==
  /\ pc = "start"
  /\ \/ procs' = procs \cup {Process(1)} /\ pc' = "poll"
     \/ procs' = procs /\ pc' = "fail"
     \/ /\ "start_repeats" \in Faults
        /\ procs' = procs \cup {Process(1), Process(2)}
        /\ pc' \in {"poll", "fail"}
  /\ UNCHANGED <<data, queue, jobs, job, sid, dead, dir, art>>

PollTerminal ==
  /\ pc = "poll"
  /\ \/ dir[sid] = "done" /\ pc' = "fetch"
     \/ dir[sid] = "failed" /\ pc' = "fail"
  /\ UNCHANGED <<data, queue, jobs, job, sid, dead, host>>

\* Mutant: no deadline.
PollForever ==
  /\ pc = "poll" /\ pc' = "poll"
  /\ UNCHANGED <<data, queue, jobs, job, sid, dead, host>>

\* The deadline, or a host that does not answer any more.
PollGivesUp ==
  /\ "poll_ends" \in Faults
  /\ pc = "poll"
  /\ pc' = "fail"
  /\ UNCHANGED <<data, queue, jobs, job, sid, dead, host>>

\* The scene's directory is made if it is not there.
Store(n) ==
  local' = [local EXCEPT ![sid] = n] /\ gone' = gone \ {sid} /\ torn' = torn \ {sid}

\* rsync of whatever the job directory holds over the scene's local directory.
FetchResults ==
  /\ pc = "fetch"
  /\ \/ dir[sid] # "gone" /\ Store(art[sid]) /\ pc' \in {"ingest", "fail"}
     \/ UNCHANGED files /\ pc' = "fail"
  /\ UNCHANGED <<video, scene, del, queue, jobs, job, sid, dead, host>>

Fetched == local[sid] # 0 /\ sid \notin gone

\* Mutant: no catch-all clause, so an unexpected exception only reaches the finally.
IngestUncaught ==
  /\ pc = "ingest"
  /\ \/ Fetched /\ pc' \in {"commit", "cleanup"}
     \/ ~Fetched /\ pc' = "fail"
  /\ UNCHANGED <<data, queue, jobs, job, sid, dead, host>>

\* Parse and validate; a missing or malformed artifact fails like a failed check.
Ingest ==
  /\ pc = "ingest"
  /\ \/ Fetched /\ pc' = "commit"
     \/ pc' = "fail"
  /\ UNCHANGED <<data, queue, jobs, job, sid, dead, host>>

PublishFinished ==  \* mutant: a status no reader knows
  PutRow(V, sid, "finished", local[sid], run[V])

\* What was parsed, the directory removed since or not.
Publish == PutRow(V, sid, "done", local[sid], run[V])

\* apply_scene_artifacts, replace_scene_objects, mark_done: one transaction.
CommitScene ==
  /\ pc = "commit"
  /\ \/ Mine /\ Publish /\ dead' = dead /\ pc' = "cleanup"
     \/ (~Mine \/ "db_fails" \in Faults) /\ UNCHANGED scene /\ dead' = TRUE /\ pc' = "fail"
  /\ UNCHANGED <<video, files, del, queue, jobs, job, sid, host>>

MarkFailed == status' = [status EXCEPT ![V] = "failed"] /\ UNCHANGED <<id, rows, run>>

\* Mutant: mark_failed by video, not by the row that was loaded.
FailRunByVideo ==
  /\ pc = "fail"
  /\ MarkFailed
  /\ pc' = "cleanup"
  /\ UNCHANGED <<video, files, del, queue, jobs, job, sid, dead, host>>

\* The except clauses: logs and per-view data are fetched over the local directory on a
\* best-effort basis, then mark_failed, which raises when its session cannot commit.
FailRun ==
  /\ pc = "fail"
  /\ \/ UNCHANGED files
     \/ dir[sid] # "gone" /\ Store(job.n)
  /\ \/ Mine /\ ~dead /\ MarkFailed
     \/ (~Mine \/ dead \/ "db_fails" \in Faults) /\ UNCHANGED scene
  /\ pc' = "cleanup"
  /\ UNCHANGED <<video, del, queue, jobs, job, sid, dead, host>>

KeepDir == UNCHANGED <<dir, art>>  \* mutant: the finally clause does not clean up

RemoveDir ==
  \/ dir' = [dir EXCEPT ![sid] = "gone"] /\ art' = [art EXCEPT ![sid] = 0]
  \/ "cleanup_fails" \in Faults /\ UNCHANGED <<dir, art>>

\* The finally clause: rm -rf of the job directory; no process is stopped.
Cleanup ==
  /\ pc = "cleanup"
  /\ RemoveDir
  /\ pc' = "idle"
  /\ UNCHANGED <<data, queue, jobs, job, sid, dead, procs>>

\* CancelledError.  Before the try it skips the finally clause, in it the clause runs
\* first, in the clause itself the rm goes on unattended.  A commit under way may land.
Cancel ==
  /\ "cancel" \in Faults
  /\ \/ pc = "create" /\ pc' = "idle" /\ UNCHANGED <<scene, dir, art>>
     \/ pc = "mark" /\ pc' = "cancel_mark" /\ UNCHANGED <<scene, dir, art>>
     \/ /\ pc = "cleanup" /\ pc' = "cancel_mark"
        /\ RemoveDir \/ UNCHANGED <<dir, art>>
        /\ UNCHANGED scene
     \/ /\ pc \in InTry /\ pc' = "cancel_cleanup"
        /\ UNCHANGED scene \/ (pc = "commit" /\ Mine /\ Publish)
        /\ UNCHANGED <<dir, art>>
  /\ UNCHANGED <<video, files, del, queue, jobs, job, sid, dead, procs>>

CancelCleanup ==
  /\ pc = "cancel_cleanup"
  /\ RemoveDir
  /\ pc' = "cancel_mark"
  /\ UNCHANGED <<data, queue, jobs, job, sid, dead, procs>>

\* Mutant: a cancellation that is no time-out is not recorded.
CancelUnrecorded ==
  /\ pc = "cancel_mark"
  /\ pc' = "idle"
  /\ UNCHANGED <<data, queue, jobs, job, sid, dead, host>>

\* process_video's own handler, in a session of its own.
CancelMark ==
  /\ pc = "cancel_mark"
  /\ \/ /\ Mine /\ status[V] = "processing"
        /\ MarkFailed
     \/ /\ ~Mine \/ status[V] # "processing" \/ "db_fails" \in Faults
        /\ UNCHANGED scene
  /\ pc' = "idle"
  /\ UNCHANGED <<video, files, del, queue, jobs, job, sid, dead, host>>

\* max_tries = 1: the job is not run again.
Kill ==
  /\ "kill" \in Faults
  /\ pc # "idle" /\ pc' = "idle"
  /\ UNCHANGED <<data, queue, jobs, job, sid, dead, host>>

-----------------------------------------------------------------------------
(* The GPU host: every write goes to the job directory by its absolute path *)

ProcessStage(p) ==
  /\ dir[p.sid] \notin {"gone", "running"}
  /\ dir' = [dir EXCEPT ![p.sid] = "running"]
  /\ UNCHANGED <<data, queue, jobs, task, art, procs>>

ProcessDone(p) ==
  /\ dir[p.sid] # "gone"
  /\ dir' = [dir EXCEPT ![p.sid] = "done"]
  /\ art' = [art EXCEPT ![p.sid] = p.run]
  /\ procs' = procs \ {p}
  /\ UNCHANGED <<data, queue, jobs, task>>

ProcessFails(p) ==
  /\ dir[p.sid] # "gone"
  /\ dir' = [dir EXCEPT ![p.sid] = "failed"]
  /\ procs' = procs \ {p}
  /\ UNCHANGED <<data, queue, jobs, task, art>>

\* The directory was removed under it: the next log redirection fails, after a stage's
\* own mkdir may have brought the directory back for that verdict.
ProcessStarved(p) ==
  /\ dir[p.sid] = "gone"
  /\ dir' \in {dir, [dir EXCEPT ![p.sid] = "failed"]}
  /\ procs' = procs \ {p}
  /\ UNCHANGED <<data, queue, jobs, task, art>>

-----------------------------------------------------------------------------
Api ==
  \/ \E v \in Videos : Upload(v) \/ Rerun(v)
  \/ \E v \in Videos, kind \in {"scene", "video", "project"} : RemoveFiles(v, kind)
  \/ DeleteRow \/ DeleteFails

Worker ==
  \/ TakeJob \/ CreateScene \/ MarkProcessing \/ PushJob \/ StartPipeline
  \/ PollTerminal \/ PollGivesUp \/ FetchResults \/ Ingest \/ CommitScene
  \/ FailRun \/ Cleanup \/ CancelCleanup \/ CancelMark

Remote == \E p \in procs :
  ProcessStage(p) \/ ProcessDone(p) \/ ProcessFails(p) \/ ProcessStarved(p)

Next == Api \/ Worker \/ Cancel \/ Kill \/ Remote

Spec == Init /\ [][Next]_vars

\* Every await of the worker has a time-out; nothing is assumed of users or of the host,
\* whose silence the deadline of the poll ends.
FairSpec == Spec /\ WF_vars(Worker)

-----------------------------------------------------------------------------
(* Type invariant *)
TypeOK ==
  /\ video \in [Videos -> {"new", "present", "fileless", "deleted"}]
  /\ id \in [Videos -> 0..MaxJobs] /\ status \in [Videos -> Statuses]
  /\ rows \in [Videos -> 0..MaxJobs] /\ run \in [Videos -> 0..MaxJobs]
  /\ local \in [Ids -> 0..MaxJobs] /\ gone \subseteq Ids /\ torn \subseteq gone
  /\ del \in Deletions \cup {NoDeletion}
  /\ queue \in Seq(Jobs)
  /\ jobs \in 0..MaxJobs
  /\ pc \in PCs
  /\ job \in Jobs /\ sid \in Ids /\ dead \in BOOLEAN
  /\ dir \in [Ids -> DirStates] /\ art \in [Ids -> 0..MaxJobs]
  /\ procs \subseteq Procs

Unfinished(v) == status[v] \in {"queued", "processing"}

(* No scene is left behind: one that is queued or processing is in the hands of the
   task that will settle it.  Code: the except clauses of run_pipeline_for_scene. *)
NoSceneStranded ==
  \A v \in Videos : Unfinished(v) => pc # "idle" /\ V = v /\ Mine

(* The same of "processing" alone, with tasks cancelled at any await.  Code: the
   CancelledError handler of process_video. *)
NotStuckProcessing ==
  \A v \in Videos : status[v] = "processing" => pc # "idle" /\ V = v /\ Mine

(* The objects of a scene that is done were produced by its latest run, and not read
   from what an earlier run left on the GPU host.  Code: _poll_until_terminal,
   fetch_results, cleanup. *)
DoneIsFresh ==
  \A v \in Videos : status[v] = "done" => rows[v] = run[v]

(* The rows of a scene that is done and the files served for it come from the same run,
   with reruns that overwrite the files, failures, cancellations, crashes and deletions in
   between; it is without files only in the midst of its deletion, or for good after one that failed.
   Code: the order of mark_processing, fetch_results and mark_done, and of delete_scene. *)
FilesMatchRows ==
  \A v \in Videos : status[v] = "done" =>
    /\ rows[v] # 0 /\ local[id[v]] = rows[v]
    /\ id[v] \in gone =>
         id[v] \in torn \/ (del \in Deletions /\ del.video = v /\ del.sid = id[v])

(* A scene's status and rows go through the steps the API promises. *)
Promise == INSTANCE SceneLifecycle
  WITH status <- status, rows <- rows, Videos <- Videos, MaxJobs <- MaxJobs
RefinesLifecycle == Promise!Spec

(* Every scene that waits or runs is settled, or deleted, in the end. *)
SceneSettles == \A v \in Videos : Unfinished(v) ~> ~Unfinished(v)

-----------------------------------------------------------------------------
(* What the repository says of itself and the model contradicts: README, "Disagreements
   found".  No run is spent on them. *)

(* "a scene that fails validation ends up `failed` with zero DB rows for it"
   (pipeline_orchestrator.py). *)
FailedHasNoRows == \A v \in Videos : status[v] = "failed" => rows[v] = 0

(* "max_jobs = 1  # one GPU instance, one job at a time" (worker.py): one pipeline
   runs on the GPU host. *)
OnePipeline == \A p, q \in procs : p.run = q.run
=============================================================================
