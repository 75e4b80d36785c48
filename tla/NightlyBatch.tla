---------------------------- MODULE NightlyBatch ----------------------------
(***************************************************************************)
(* scripts/nightly_batch.py over the running system: it uploads one video   *)
(* of every regression project, waits for its scene, and writes one report  *)
(* at the end.  The backend is a process of its own, and goes on whatever   *)
(* becomes of the batch.                                                    *)
(***************************************************************************)
EXTENDS Integers, Sequences, FiniteSets, FiniteSetsExt

CONSTANTS
  Projects,    \* numbers, in the order of their names
  NameOf,      \* project |-> [form, marked]: the shape of its name, and whether a rerun mark is in it
  OnDisk,      \* project |-> the file of its first video is there
  Errors,      \* what error_message of a failed scene can name: sets
  Checks,      \* the names of validation checks
  EnvFiles,    \* contents of .env: sequences of [key, value], value "on" or "off"
  Fetches,     \* what of "detail", "log" and "usd" can be fetched together
  None,
  MaxStarts, MaxVideos  \* bounds on the run

VARIABLES
  videos,   \* sequence of [project, onDisk]
  scene,    \* video |-> None (no row: the API answers 404) or [status, error]
  batch,    \* None, or the batch that runs: [todo, video, results, retain]; todo: project |-> spec
  report,   \* results.json, or None
  starts,
  fresh     \* project |-> starts that found no entry for it in the resume map (history)

vars == <<videos, scene, batch, report, starts, fresh>>

-----------------------------------------------------------------------------
(* The backend, as far as the batch sees it *)

TakeVideo(v) ==
  /\ scene[v] = None /\ scene' = [scene EXCEPT ![v] = [status |-> "processing", error |-> {}]]
  /\ UNCHANGED <<videos, batch, report, starts, fresh>>
EndScene(v, error) ==
  /\ scene[v] # None /\ scene[v].status = "processing"
  /\ scene' = [scene EXCEPT ![v] = [status |-> IF error = {} THEN "done" ELSE "failed", error |-> error]]
  /\ UNCHANGED <<videos, batch, report, starts, fresh>>

-----------------------------------------------------------------------------
(* The batch *)

IsRegressionProjectName(n) == ~n.marked /\ n.form \in {"canonical", "numbered"}
LatestVideo(p) == LET mine == {v \in DOMAIN videos : videos[v].project = p}
                  IN IF mine = {} THEN None ELSE Max(mine)
DiscoverRegressionScenes(only) ==
  {p \in Projects : /\ IsRegressionProjectName(NameOf[p]) /\ p \in only
                    /\ LatestVideo(p) # None /\ videos[LatestVideo(p)].onDisk}

DetectRetain(env) ==
  LET hits == {i \in DOMAIN env : env[i].key = "RETAIN_PER_VIEW_ARTIFACTS"}
  IN hits # {} /\ env[Min(hits)].value = "on"

Nightly(p) == {v \in DOMAIN videos : videos[v].project = p /\ v > Cardinality(Projects)}

(* mutant of Spec: the map is read but not applied. *)
SpecUnmapped(p, map) == [project |-> p, existing |-> None]
Spec(p, map) == [project |-> p, existing |-> IF p \in DOMAIN map THEN map[p] ELSE None]

(* main_async up to the loop.  The map is what the operator could tell from the logs. *)
StartBatch(map, only, env) ==
  /\ batch = None /\ starts < MaxStarts /\ starts' = starts + 1
  /\ \A p \in DOMAIN map : map[p] \in Nightly(p)
  /\ LET found == DiscoverRegressionScenes(only)
     IN IF found = {} THEN UNCHANGED <<batch, fresh>>
        ELSE /\ batch' = [todo |-> [p \in found |-> Spec(p, map)], video |-> None,
                          results |-> <<>>, retain |-> DetectRetain(env)]
             /\ fresh' = [p \in Projects |-> IF p \in found /\ p \notin DOMAIN map
                                             THEN fresh[p] + 1 ELSE fresh[p]]
  /\ UNCHANGED <<videos, report, scene>>

(* The projects are taken in the order of their names. *)
Busy == batch # None /\ DOMAIN batch.todo # {}
Cur == batch.todo[Min(DOMAIN batch.todo)]

Result(status, validator, error) ==
  [project |-> Cur.project, video |-> batch.video, status |-> status, validator |-> validator,
   error |-> error, detail |-> FALSE, timings |-> FALSE, isaac |-> None]
Finish(result) ==
  batch' = [batch EXCEPT !.todo = [p \in DOMAIN @ \ {Cur.project} |-> @[p]],
                         !.video = None, !.results = Append(@, result)]

(* A refused upload made no video; one whose answer is lost did.  Neither is tried again. *)
UploadScene(accepted, answered) ==
  /\ Busy /\ batch.video = None /\ Cur.existing = None
  /\ (answered => accepted) /\ (accepted => Len(videos) < MaxVideos)
  /\ IF accepted
     THEN /\ videos' = Append(videos, [project |-> Cur.project, onDisk |-> TRUE])
          /\ scene' = Append(scene, None)
     ELSE UNCHANGED <<videos, scene>>
  /\ IF answered THEN batch' = [batch EXCEPT !.video = Len(videos')]
     ELSE Finish(Result("error", "unknown", {"upload"}))
  /\ UNCHANGED <<report, starts, fresh>>
Resume ==
  /\ Busy /\ batch.video = None /\ Cur.existing # None
  /\ batch' = [batch EXCEPT !.video = Cur.existing]
  /\ UNCHANGED <<videos, report, starts, fresh, scene>>

(* A 404 is waited out; any other refusal of a poll ends the scene's turn, not its job. *)
PollFails ==
  /\ Busy /\ batch.video # None /\ Finish(Result("error", "unknown", {"poll"}))
  /\ UNCHANGED <<videos, report, starts, fresh, scene>>

DeriveValidatorStatus(status, error) ==
  IF status = "done" THEN "passed" ELSE IF status # "failed" THEN "unknown"
  ELSE IF error \intersect {"ceiling_above_cameras", "height_prior_majority", "object_max_extent"} # {}
       THEN "failed" ELSE "pipeline_error"

(* Detail, log and USD are fetched as far as they can be. *)
Collect(status, fetched) ==
  LET s == scene[batch.video]
      error == IF s = None THEN {} ELSE s.error
  IN [project |-> Cur.project, video |-> batch.video, status |-> status,
      validator |-> DeriveValidatorStatus(status, error), error |-> error,
      detail |-> s # None /\ "detail" \in fetched, timings |-> s # None /\ "log" \in fetched,
      isaac |-> IF status # "done" THEN None ELSE IF "usd" \in fetched THEN "ran" ELSE "error"]
PollTerminal(fetched) ==
  /\ Busy /\ batch.video # None
  /\ LET s == scene[batch.video]
     IN s # None /\ s.status \in {"done", "failed"} /\ Finish(Collect(s.status, fetched))
  /\ UNCHANGED <<videos, report, starts, fresh, scene>>
(* The deadline passes; the job goes on. *)
PollTimeout(fetched) ==
  /\ Busy /\ batch.video # None
  /\ scene[batch.video] # None => scene[batch.video].status = "processing"
  /\ Finish(Collect("timeout", fetched))
  /\ UNCHANGED <<videos, report, starts, fresh, scene>>

BuildResults(results, retain) ==
  LET done == Len(SelectSeq(results, LAMBDA r : r.status = "done"))
  IN [retain |-> retain, total |-> Len(results), done |-> done, incomplete |-> Len(results) - done,
      scenes |-> results]
WriteReport ==
  /\ batch # None /\ ~Busy /\ batch' = None /\ report' = BuildResults(batch.results, batch.retain)
  /\ UNCHANGED <<videos, starts, fresh, scene>>
(* Nothing of the results is on disk before the report. *)
Crash == /\ batch # None /\ batch' = None
         /\ UNCHANGED <<videos, report, starts, fresh, scene>>

-----------------------------------------------------------------------------
Init ==
  LET n == Cardinality(Projects)
  IN /\ videos = [p \in 1 .. n |-> [project |-> p, onDisk |-> OnDisk[p]]]
     /\ scene = [p \in 1 .. n |-> [status |-> "done", error |-> {}]]
     /\ batch = None /\ report = None /\ starts = 0 /\ fresh = [p \in Projects |-> 0]

Maps == UNION {[D -> DOMAIN videos] : D \in SUBSET Projects}
Next ==
  \/ \E map \in Maps, only \in {Projects, {1}}, env \in EnvFiles : StartBatch(map, only, env)
  \/ \E accepted, answered \in BOOLEAN : UploadScene(accepted, answered)
  \/ Resume \/ PollFails \/ WriteReport \/ Crash
  \/ \E fetched \in Fetches : PollTerminal(fetched) \/ PollTimeout(fetched)
  \/ \E v \in DOMAIN videos : TakeVideo(v) \/ (\E e \in Errors : EndScene(v, e))

-----------------------------------------------------------------------------
(* Properties *)

(* However often the batch crashes and is started again, a project costs a second GPU job of
   the night only in a start whose resume map had no entry for it; a lost answer, a deadline
   or a failed poll never uploads it again.  Code: main_async's resume map, run_one_scene. *)
OneJobPerNight == \A p \in Projects : Cardinality(Nightly(p)) <= fresh[p]

-----------------------------------------------------------------------------
(* What the repository says of itself and the model contradicts: README, "Disagreements
   found".  No run is spent on it. *)

(* A scene its validation turned down is reported so ("passed" | "failed" | "pipeline_error"). *)
TurnedDownIsFailed ==
  report # None => \A i \in DOMAIN report.scenes :
    LET r == report.scenes[i]
    IN r.error \intersect Checks # {} => r.validator = "failed"
=============================================================================
