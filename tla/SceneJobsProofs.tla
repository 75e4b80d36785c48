--------------------------- MODULE SceneJobsProofs ---------------------------
(***************************************************************************)
(* SceneJobs for every set of videos and every number of jobs: type        *)
(* correctness; the files and the rows of a scene that is done agree, and  *)
(* its card moves as SceneLifecycle promises, under every fault; and, with *)
(* the faults that break them excluded by name, no scene is left           *)
(* processing and a scene that is done shows its latest run.               *)
(***************************************************************************)
EXTENDS SceneJobs, TLAPS

USE DEF scene, files, data, task, host

-----------------------------------------------------------------------------
(* Type correctness *)

LEMMA JobFields ==
  \A j \in Jobs : j.n \in Ids /\ j.video \in Videos /\ j.rerun \in BOOLEAN
  BY DEF Jobs

LEMMA ProcFields ==
  \A p \in Procs : p.run \in Ids /\ p.copy \in {1, 2} /\ p.sid \in Ids
  BY DEF Procs

LEMMA Numbers == 0 \in 0..MaxJobs /\ \A i \in Ids : i \in 0..MaxJobs /\ i # 0
  BY MaxJobsAssumption DEF Ids

LEMMA InitTypeOK == Init => TypeOK
<1> SUFFICES ASSUME Init PROVE TypeOK
  OBVIOUS
<1>1. /\ id \in [Videos -> 0..MaxJobs] /\ status \in [Videos -> Statuses]
      /\ rows \in [Videos -> 0..MaxJobs] /\ run \in [Videos -> 0..MaxJobs]
  BY Numbers DEF Init, Statuses
<1>2. local \in [Ids -> 0..MaxJobs] /\ dir \in [Ids -> DirStates] /\ art \in [Ids -> 0..MaxJobs]
  BY Numbers DEF Init, DirStates
<1>3. queue \in Seq(Jobs) /\ jobs \in 0..MaxJobs
  BY Numbers DEF Init
<1>4. QED
  BY <1>1, <1>2, <1>3 DEF Init, TypeOK, PCs

LEMMA StepTypeOK == ASSUME TypeOK, [Next]_vars PROVE TypeOK'
<1> USE Numbers DEF TypeOK
<1>0. V \in Videos /\ job.n \in Ids
  BY JobFields DEF V
<1>1. ASSUME NEW v \in Videos, NEW rerun \in BOOLEAN, Enqueue(v, rerun)
      PROVE  queue' \in Seq(Jobs) /\ jobs' \in 0..MaxJobs
  <2>1. jobs + 1 \in Ids
    BY <1>1, MaxJobsAssumption DEF Enqueue, Ids
  <2>2. [n |-> jobs + 1, video |-> v, rerun |-> rerun] \in Jobs
    BY <2>1 DEF Jobs
  <2>3. QED
    BY <1>1, <2>1, <2>2 DEF Enqueue
<1>2. ASSUME NEW v \in Videos, Upload(v) \/ Rerun(v) PROVE TypeOK'
  <2>1. CASE Upload(v)
    BY <1>1, <2>1 DEF Upload
  <2>2. CASE Rerun(v)
    BY <1>1, <2>2 DEF Rerun
  <2>3. QED
    BY <1>2, <2>1, <2>2
<1>3. ASSUME NEW v \in Videos, NEW kind \in {"scene", "video", "project"}, RemoveFiles(v, kind)
      PROVE  TypeOK'
  <2>1. del' \in Deletions
    BY <1>3 DEF RemoveFiles, Deletions
  <2>2. video' \in [Videos -> {"new", "present", "fileless", "deleted"}] /\ gone' \subseteq Ids
    BY <1>3 DEF RemoveFiles
  <2>3. QED
    BY <1>3, <2>1, <2>2 DEF RemoveFiles
<1>3b. CASE DeleteRow \/ DeleteFails
  <2>1. del \in Deletions /\ del' = NoDeletion
    BY <1>3b DEF DeleteRow, DeleteFails
  <2>2. del.video \in Videos
    BY <2>1 DEF Deletions
  <2>3. DropRow(del.video) \/ UNCHANGED scene
    BY <1>3b DEF DeleteRow, DeleteFails
  <2>4. /\ id' \in [Videos -> 0..MaxJobs] /\ status' \in [Videos -> Statuses]
        /\ rows' \in [Videos -> 0..MaxJobs] /\ run' \in [Videos -> 0..MaxJobs]
    <3> DEFINE v == del.video
    <3>1. v \in Videos /\ (DropRow(v) \/ UNCHANGED scene)
      BY <2>2, <2>3
    <3> HIDE DEF v
    <3>2. CASE DropRow(v)
      BY <3>1, <3>2 DEF DropRow, PutRow, Statuses
    <3>3. CASE UNCHANGED scene
      BY <3>3
    <3>4. QED
      BY <3>1, <3>2, <3>3
  <2>5. video' \in [Videos -> {"new", "present", "fileless", "deleted"}]
    BY <1>3b DEF DeleteRow, DeleteFails
  <2>6. QED
    BY <1>3b, <2>1, <2>4, <2>5 DEF DeleteRow, DeleteFails
<1>4. CASE TakeJob
  <2>1. job' \in Jobs /\ queue' \in Seq(Jobs)
    BY <1>4 DEF TakeJob
  <2>2. pc' \in PCs
    BY <1>4 DEF TakeJob, PCs
  <2>3. QED
    BY <1>4, <2>1, <2>2 DEF TakeJob
<1>5. CASE CreateScene
  <2>1. /\ id' \in [Videos -> 0..MaxJobs] /\ status' \in [Videos -> Statuses]
        /\ rows' \in [Videos -> 0..MaxJobs] /\ run' \in [Videos -> 0..MaxJobs]
    BY <1>0, <1>5, Zenon DEF CreateScene, PutRow, Statuses
  <2>2. sid' \in Ids
    <3>1. id[V] # 0 => id[V] \in Ids
      BY <1>0, MaxJobsAssumption DEF Ids
    <3>2. QED
      BY <1>0, <1>5, <3>1, Zenon DEF CreateScene, HasScene
  <2>3. pc' \in PCs
    BY <1>5 DEF CreateScene, PCs
  <2>4. QED
    BY <1>5, <2>1, <2>2, <2>3 DEF CreateScene
<1>6. CASE MarkProcessing
  <2>1. /\ id' \in [Videos -> 0..MaxJobs] /\ status' \in [Videos -> Statuses]
        /\ rows' \in [Videos -> 0..MaxJobs] /\ run' \in [Videos -> 0..MaxJobs]
    BY <1>0, <1>6, Zenon DEF MarkProcessing, PutRow, Statuses
  <2>2. pc' \in PCs
    BY <1>6 DEF MarkProcessing, PCs
  <2>3. QED
    BY <1>6, <2>1, <2>2 DEF MarkProcessing
<1>7. CASE PushJob
  <2>1. dir' \in [Ids -> DirStates]
    BY <1>7 DEF PushJob, MakeDir, DirStates
  <2>2. pc' \in PCs
    BY <1>7 DEF PushJob, PCs
  <2>3. QED
    BY <1>7, <2>1, <2>2 DEF PushJob
<1>8. CASE StartPipeline
  <2>1. Process(1) \in Procs /\ Process(2) \in Procs
    BY <1>0 DEF Process, Procs
  <2>2. QED
    BY <1>8, <2>1 DEF StartPipeline, PCs
<1>9. CASE PollTerminal \/ PollGivesUp
  BY <1>9 DEF PollTerminal, PollGivesUp, PCs
<1>10. CASE FetchResults
  BY <1>10 DEF Store, FetchResults, PCs
<1>11. CASE Ingest
  BY <1>11 DEF Ingest, PCs
<1>12. CASE CommitScene
  BY <1>0, <1>12, Zenon DEF CommitScene, Publish, PutRow, PCs, Statuses
<1>13. CASE FailRun
  BY <1>0, <1>13 DEF Store, FailRun, MarkFailed, PCs, Statuses
<1>14. CASE Cleanup \/ CancelCleanup
  BY <1>14, Zenon DEF Cleanup, CancelCleanup, RemoveDir, PCs, DirStates
<1>15. CASE CancelMark
  BY <1>0, <1>15 DEF CancelMark, MarkFailed, PCs, Statuses
<1>16. CASE Cancel
  <2>1. dir' \in [Ids -> DirStates] /\ art' \in [Ids -> 0..MaxJobs]
    BY <1>16 DEF Cancel, RemoveDir, DirStates
  <2>2. /\ id' \in [Videos -> 0..MaxJobs] /\ status' \in [Videos -> Statuses]
        /\ rows' \in [Videos -> 0..MaxJobs] /\ run' \in [Videos -> 0..MaxJobs]
    BY <1>0, <1>16, Zenon DEF Cancel, Publish, PutRow, Statuses
  <2>3. pc' \in PCs
    BY <1>16 DEF Cancel, PCs
  <2>4. QED
    BY <1>16, <2>1, <2>2, <2>3 DEF Cancel
<1>17. CASE Kill
  BY <1>17 DEF Kill, PCs
<1>18. ASSUME NEW p \in procs, ProcessStage(p) \/ ProcessDone(p) \/ ProcessFails(p)
                               \/ ProcessStarved(p)
       PROVE  TypeOK'
  BY <1>18, ProcFields, Zenon
     DEF ProcessStage, ProcessDone, ProcessFails, ProcessStarved, DirStates
<1>19. CASE UNCHANGED vars
  BY <1>19 DEF vars
<1> HIDE DEF TypeOK
<1>20. QED
  BY <1>2, <1>3, <1>3b, <1>4, <1>5, <1>6, <1>7, <1>8, <1>9, <1>10, <1>11, <1>12, <1>13,
     <1>14, <1>15, <1>16, <1>17, <1>18, <1>19 DEF Next, Api, Worker, Remote

(* Every variable keeps its type in every reachable state, whatever the videos, the
   number of jobs and the faults. *)
THEOREM TypeCorrect == Spec => []TypeOK
  BY InitTypeOK, StepTypeOK, PTL DEF Spec

-----------------------------------------------------------------------------
(* The files and the rows of a scene that is done, and its card, under every fault *)

\* A row has an id, and the id is that of one row and of one job that was taken.
IdsInv ==
  /\ \A v \in Videos : /\ id[v] = 0 <=> status[v] = "none"
                       /\ id[v] = 0 => rows[v] = 0
                       /\ id[v] <= jobs
  /\ \A v, w \in Videos : id[v] = id[w] /\ id[v] # 0 => v = w

\* The jobs that wait are in the order of their numbers, which name no scene yet.
QueueInv ==
  /\ \A i \in 1..Len(queue) : /\ queue[i].n <= jobs
                             /\ \A v \in Videos : id[v] < queue[i].n
  /\ \A i, j \in 1..Len(queue) : i < j => queue[i].n < queue[j].n
  /\ pc = "create" => /\ job.n <= jobs
                      /\ \A v \in Videos : id[v] < job.n
                      /\ \A i \in 1..Len(queue) : job.n < queue[i].n

\* Past get_or_create_scene the task's id is no other video's; from mark_processing to
\* its verdict its row is processing; what it commits is on the local disk.
TaskInv ==
  /\ pc \notin {"idle", "create"} => \A w \in Videos : id[w] = sid => w = V
  /\ pc \in InTry /\ Mine => status[V] = "processing"
  /\ pc = "commit" /\ Mine => local[sid] # 0

\* The rows of a scene that is done are those of the files last put in its directory.
ServedInv ==
  \A v \in Videos : status[v] = "done" => rows[v] # 0 /\ local[id[v]] = rows[v]

RowInv == TypeOK /\ IdsInv /\ QueueInv /\ TaskInv /\ ServedInv

\* What the two ways of writing a row do to every row.
LEMMA PutRowWrites ==
  ASSUME TypeOK, NEW v \in Videos, NEW i, NEW st, NEW r, NEW n, PutRow(v, i, st, r, n)
  PROVE  /\ id'[v] = i /\ status'[v] = st /\ rows'[v] = r /\ run'[v] = n
         /\ \A w \in Videos : w # v => /\ id'[w] = id[w] /\ status'[w] = status[w]
                                      /\ rows'[w] = rows[w] /\ run'[w] = run[w]
  BY DEF PutRow, TypeOK

LEMMA MarkFailedWrites ==
  ASSUME TypeOK, V \in Videos, MarkFailed
  PROVE  /\ id' = id /\ rows' = rows /\ run' = run /\ status'[V] = "failed"
         /\ \A w \in Videos : w # V => status'[w] = status[w]
  BY DEF MarkFailed, TypeOK

\* What the second half of a deletion does to the row.
LEMMA DeleteRowDrops ==
  ASSUME TypeOK, DeleteRow
  PROVE  /\ del \in Deletions /\ del.video \in Videos /\ del' = NoDeletion
         /\ DropRow(del.video) \/ (id[del.video] # del.sid /\ UNCHANGED scene)
         /\ UNCHANGED <<files, queue, jobs, task, host>>
<1>1. del \in Deletions /\ del' = NoDeletion
  BY DEF DeleteRow, TypeOK
<1>2. QED
  BY <1>1 DEF DeleteRow, Deletions

LEMMA InitRowInv == Init => RowInv
<1>1. Init => IdsInv /\ QueueInv /\ TaskInv
  <2> SUFFICES ASSUME Init PROVE IdsInv /\ QueueInv /\ TaskInv
    OBVIOUS
  <2>1. IdsInv
    BY DEF Init, IdsInv
  <2>2. QueueInv
    BY DEF Init, QueueInv
  <2>3. TaskInv
    BY DEF Init, TaskInv, InTry
  <2>4. QED
    BY <2>1, <2>2, <2>3
<1>2. Init => ServedInv
  BY DEF Init, ServedInv
<1>3. QED
  BY <1>1, <1>2, InitTypeOK DEF RowInv

LEMMA StepRowInv == ASSUME RowInv, [Next]_vars PROVE RowInv'
<1> USE DEF RowInv
<1>0. TypeOK /\ TypeOK'
  BY StepTypeOK
<1>V. /\ V \in Videos /\ job.n \in Ids /\ job.n \in Nat /\ job.n # 0
      /\ \A i \in 1..Len(queue) : queue[i] \in Jobs /\ queue[i].n \in Nat
  <2>1. V \in Videos /\ job.n \in Ids
    BY <1>0, JobFields DEF TypeOK, V
  <2>2. job.n \in Nat /\ job.n # 0
    BY <2>1, MaxJobsAssumption DEF Ids
  <2>3. \A i \in 1..Len(queue) : queue[i] \in Jobs
    BY <1>0 DEF TypeOK
  <2>4. \A i \in 1..Len(queue) : queue[i].n \in Nat
    BY <2>3, JobFields, MaxJobsAssumption DEF Ids
  <2>5. QED
    BY <2>1, <2>2, <2>3, <2>4
<1>T. /\ id \in [Videos -> 0..MaxJobs] /\ jobs \in Nat /\ sid \in Nat /\ sid # 0
      /\ queue \in Seq(Jobs)
  BY <1>0, MaxJobsAssumption DEF TypeOK, Ids
<1>E. ASSUME NEW v \in Videos, NEW rerun \in BOOLEAN, Enqueue(v, rerun), UNCHANGED <<scene, task>>
      PROVE  IdsInv' /\ QueueInv'
  <2>1. IdsInv'
    BY <1>E, <1>T DEF IdsInv, Enqueue
  <2>2. QueueInv'
    <3>1. Len(queue') = Len(queue) + 1 /\ queue'[Len(queue) + 1].n = jobs + 1
      BY <1>E, <1>T DEF Enqueue
    <3>2. \A i \in 1..Len(queue) : queue'[i] = queue[i]
      BY <1>E, <1>T DEF Enqueue
    <3>3. QED
      BY <3>1, <3>2, <1>E, <1>T, <1>V, SMTT(30) DEF Enqueue, QueueInv, IdsInv
  <2>3. QED
    BY <2>1, <2>2
<1>D. ASSUME NEW v \in Videos, DropRow(v), UNCHANGED <<queue, jobs, task>>
      PROVE  IdsInv' /\ QueueInv'
  <2>1. id'[v] = 0 /\ status'[v] = "none" /\ rows'[v] = 0
    BY <1>D, <1>0, PutRowWrites DEF DropRow
  <2>2. \A w \in Videos : w # v => id'[w] = id[w] /\ status'[w] = status[w] /\ rows'[w] = rows[w]
    BY <1>D, <1>0, PutRowWrites DEF DropRow
  <2>3. IdsInv'
    BY <2>1, <2>2, <1>D, <1>T DEF IdsInv
  <2>4. QueueInv'
    <3>1. \A w \in Videos : id'[w] = id[w] \/ id'[w] = 0
      BY <2>1, <2>2
    <3>2. /\ \A i \in 1..Len(queue) : 0 < queue[i].n
          /\ pc = "create" => 0 < job.n
      BY <1>V, <1>T, SMTT(30) DEF QueueInv
    <3>3. queue' = queue /\ jobs' = jobs /\ pc' = pc /\ job' = job
      BY <1>D
    <3>4. \A i \in 1..Len(queue) : \A w \in Videos : id'[w] < queue[i].n
      BY <3>1, <3>2 DEF QueueInv
    <3>5. pc = "create" => \A w \in Videos : id'[w] < job.n
      BY <3>1, <3>2 DEF QueueInv
    <3>6. QED
      BY <3>3, <3>4, <3>5 DEF QueueInv
  <2>5. QED
    BY <2>3, <2>4
<1>1. ASSUME NEW v \in Videos, Upload(v) PROVE RowInv'
  <2>1. IdsInv' /\ QueueInv'
    <3>1. CASE UNCHANGED <<queue, jobs>>
      BY <1>1, <3>1 DEF Upload, IdsInv, QueueInv
    <3>2. CASE Enqueue(v, FALSE)
      BY <1>1, <3>2, <1>E DEF Upload
    <3>3. QED
      BY <1>1, <3>1, <3>2 DEF Upload
  <2>2. TaskInv' /\ ServedInv'
    BY <1>1 DEF Upload, TaskInv, ServedInv, Mine, V
  <2>3. QED
    BY <1>0, <2>1, <2>2
<1>2. ASSUME NEW v \in Videos, Rerun(v) PROVE RowInv'
  <2>1. IdsInv' /\ QueueInv'
    BY <1>2, <1>E DEF Rerun
  <2>2. TaskInv' /\ ServedInv'
    BY <1>2 DEF Rerun, TaskInv, ServedInv, Mine, V
  <2>3. QED
    BY <1>0, <2>1, <2>2
<1>3. ASSUME NEW v \in Videos, NEW kind \in {"scene", "video", "project"}, RemoveFiles(v, kind)
      PROVE  RowInv'
  <2>1. UNCHANGED <<scene, local, queue, jobs, task, host>>
    BY <1>3 DEF RemoveFiles
  <2>2. IdsInv' /\ QueueInv' /\ TaskInv' /\ ServedInv'
    BY <2>1 DEF IdsInv, QueueInv, TaskInv, ServedInv, Mine, V
  <2>3. QED
    BY <1>0, <2>2
<1>3b. CASE DeleteRow
  <2> DEFINE v == del.video
  <2>1. /\ v \in Videos /\ (DropRow(v) \/ UNCHANGED scene)
        /\ UNCHANGED <<files, queue, jobs, task, host>>
    BY <1>3b, <1>0, DeleteRowDrops
  <2> HIDE DEF v
  <2>2. CASE DropRow(v)
    <3>1. IdsInv' /\ QueueInv'
      BY <2>1, <2>2, <1>D
    <3>2. id'[v] = 0 /\ status'[v] = "none"
      BY <2>1, <2>2, <1>0, PutRowWrites DEF DropRow
    <3>3. \A w \in Videos : w # v => /\ id'[w] = id[w] /\ status'[w] = status[w]
                                   /\ rows'[w] = rows[w]
      BY <2>1, <2>2, <1>0, PutRowWrites DEF DropRow
    <3>4. TaskInv'
      BY <2>1, <3>2, <3>3, <1>T, <1>V DEF TaskInv, Mine, V, InTry
    <3>5. ServedInv'
      BY <2>1, <3>2, <3>3 DEF ServedInv
    <3>6. QED
      BY <1>0, <3>1, <3>4, <3>5
  <2>3. CASE UNCHANGED scene
    <3>1. IdsInv' /\ QueueInv' /\ TaskInv' /\ ServedInv'
      BY <2>1, <2>3 DEF IdsInv, QueueInv, TaskInv, ServedInv, Mine, V
    <3>2. QED
      BY <1>0, <3>1
  <2>4. QED
    BY <2>1, <2>2, <2>3
<1>3c. CASE DeleteFails
  <2>1. UNCHANGED <<scene, local, queue, jobs, task, host>>
    BY <1>3c DEF DeleteFails
  <2>2. IdsInv' /\ QueueInv' /\ TaskInv' /\ ServedInv'
    BY <2>1 DEF IdsInv, QueueInv, TaskInv, ServedInv, Mine, V
  <2>3. QED
    BY <1>0, <2>2
<1>4. CASE TakeJob
  <2>1. IdsInv'
    BY <1>4 DEF TakeJob, IdsInv
  <2>2. QueueInv'
    <3>1. Len(queue') = Len(queue) - 1 /\ job' = queue[1] /\ Len(queue) >= 1
      BY <1>4, <1>T DEF TakeJob
    <3>2. \A i \in 1..Len(queue') : queue'[i] = queue[i + 1]
      BY <1>4, <1>T DEF TakeJob
    <3>3. QED
      BY <3>1, <3>2, <1>4, <1>T, <1>V DEF TakeJob, QueueInv
  <2>3. TaskInv' /\ ServedInv'
    BY <1>4 DEF TakeJob, TaskInv, ServedInv, InTry
  <2>4. QED
    BY <1>0, <2>1, <2>2, <2>3
<1>5. CASE CreateScene
  <2>1. IdsInv'
    <3>1. CASE PutRow(V, job.n, "queued", 0, 0)
      <4>1. id'[V] = job.n /\ status'[V] = "queued" /\ rows'[V] = 0
        BY <3>1, <1>0, <1>V, PutRowWrites
      <4>2. \A w \in Videos : w # V => /\ id'[w] = id[w] /\ status'[w] = status[w]
                                     /\ rows'[w] = rows[w]
        BY <3>1, <1>0, <1>V, PutRowWrites
      <4>3. job.n <= jobs /\ \A w \in Videos : id[w] < job.n
        BY <1>5 DEF CreateScene, QueueInv
      <4>4. jobs' = jobs
        BY <1>5 DEF CreateScene
      <4>5. QED
        BY <4>1, <4>2, <4>3, <4>4, <1>T, <1>V, SMTT(30) DEF IdsInv
    <3>2. CASE UNCHANGED scene
      BY <3>2, <1>5 DEF CreateScene, IdsInv
    <3>3. QED
      BY <1>5, <3>1, <3>2 DEF CreateScene
  <2>2. QueueInv'
    BY <1>5, <1>T, <1>V DEF CreateScene, PutRow, IdsInv, QueueInv, HasScene
  <2>3. TaskInv'
    BY <1>5, <1>T, <1>V DEF CreateScene, PutRow, IdsInv, QueueInv, HasScene, TaskInv, InTry, V
  <2>4. ServedInv'
    BY <1>5, <1>0, <1>V, Zenon DEF CreateScene, PutRow, ServedInv, TypeOK
  <2>5. QED
    BY <1>0, <2>1, <2>2, <2>3, <2>4
<1>6. CASE MarkProcessing
  <2>1. Mine => id'[V] = sid /\ status'[V] = "processing" /\ rows'[V] = rows[V]
    BY <1>6, <1>0, <1>V, PutRowWrites DEF MarkProcessing
  <2>2. /\ \A w \in Videos : w # V => /\ id'[w] = id[w] /\ status'[w] = status[w]
                                     /\ rows'[w] = rows[w]
        /\ ~Mine => UNCHANGED scene
    BY <1>6, <1>0, <1>V, PutRowWrites DEF MarkProcessing
  <2>3. IdsInv' /\ QueueInv'
    <3>1. \A w \in Videos : id'[w] = id[w] /\ rows'[w] = rows[w]
      BY <2>1, <2>2 DEF Mine
    <3>2. IdsInv'
      BY <2>1, <2>2, <3>1, <1>6, <1>T DEF MarkProcessing, IdsInv, Mine
    <3>3. QueueInv'
      BY <3>1, <1>6 DEF MarkProcessing, QueueInv
    <3>4. QED
      BY <3>2, <3>3
  <2>4. TaskInv'
    BY <2>1, <2>2, <1>6, <1>T DEF MarkProcessing, TaskInv, Mine, V, InTry
  <2>5. ServedInv'
    BY <2>1, <2>2, <1>6, <1>T DEF MarkProcessing, ServedInv
  <2>6. QED
    BY <1>0, <2>3, <2>4, <2>5
<1>7. ASSUME PushJob \/ StartPipeline \/ PollTerminal \/ PollGivesUp \/ Ingest \/ Kill
             \/ Cleanup \/ CancelCleanup
      PROVE  RowInv'
  <2>1. UNCHANGED <<data, queue, jobs, job, sid>> /\ pc' # "create"
    BY <1>7 DEF PushJob, StartPipeline, PollTerminal, PollGivesUp, Ingest, Kill, Cleanup,
                CancelCleanup
  <2>2. /\ pc' \notin {"idle"} => pc \notin {"idle", "create"}
        /\ pc' \in InTry => pc \in InTry
        /\ pc' = "commit" => local[sid] # 0
    BY <1>7 DEF PushJob, StartPipeline, PollTerminal, PollGivesUp, Ingest, Fetched, Kill, Cleanup,
                CancelCleanup, InTry
  <2>3. QED
    BY <2>1, <2>2, <1>0 DEF IdsInv, QueueInv, TaskInv, ServedInv, Mine, V
<1>8. CASE FetchResults
  <2>1. IdsInv' /\ QueueInv'
    BY <1>8 DEF Store, FetchResults, IdsInv, QueueInv
  <2>2. TaskInv'
    BY <1>8 DEF Store, FetchResults, TaskInv, Mine, V, InTry
  <2>3. ServedInv'
    <3>1. \A w \in Videos : status[w] = "done" => id[w] \in Ids /\ id[w] # sid
      BY <1>8, <1>T, MaxJobsAssumption
         DEF Store, FetchResults, TaskInv, IdsInv, InTry, Mine, Ids
    <3>2. \A i \in Ids : i # sid => local'[i] = local[i]
      BY <1>8, <1>0 DEF Store, FetchResults, TypeOK
    <3>3. QED
      BY <3>1, <3>2, <1>8 DEF Store, FetchResults, ServedInv
  <2>4. QED
    BY <1>0, <2>1, <2>2, <2>3
<1>P. ASSUME Mine, Publish, status[V] = "processing", local[sid] # 0,
             UNCHANGED <<local, queue, jobs, job, sid>>, pc' # "create", pc' \notin InTry
      PROVE  RowInv'
  <2>1. IdsInv' /\ QueueInv'
    BY <1>P, <1>0, <1>T, <1>V, Zenon DEF Publish, PutRow, IdsInv, QueueInv, Mine, TypeOK
  <2>2. ServedInv'
    BY <1>P, <1>0, <1>T, <1>V DEF Publish, PutRow, ServedInv, Mine, TypeOK
  <2>3. TaskInv'
    BY <1>P, <1>0, <1>T, <1>V DEF Publish, PutRow, IdsInv, TaskInv, Mine, V, InTry, TypeOK
  <2>4. QED
    BY <1>0, <2>1, <2>2, <2>3
<1>9. CASE CommitScene
  <2>1. CASE Mine /\ Publish /\ pc' = "cleanup"
    BY <2>1, <1>9, <1>P DEF CommitScene, TaskInv, InTry
  <2>2. CASE UNCHANGED scene /\ pc' = "fail"
    BY <2>2, <1>9, <1>0
       DEF CommitScene, IdsInv, QueueInv, TaskInv, ServedInv, InTry, Mine, V
  <2>3. QED
    BY <1>9, <2>1, <2>2 DEF CommitScene
<1>F. ASSUME status[V] = "processing", Mine, MarkFailed, UNCHANGED <<queue, jobs, job, sid>>,
             pc' \notin InTry, pc' # "create", pc \notin {"idle", "create"},
             \A i \in Ids : i # sid => local'[i] = local[i]
      PROVE  RowInv'
  <2>1. IdsInv' /\ QueueInv'
    BY <1>F, <1>0, <1>T, <1>V DEF MarkFailed, IdsInv, QueueInv, Mine, TypeOK
  <2>2. ServedInv'
    <3>1. \A w \in Videos : status'[w] = "done" => /\ w # V /\ status[w] = "done"
                                                 /\ id[w] \in Ids /\ id[w] # sid
      BY <1>F, <1>0, <1>T, <1>V, MarkFailedWrites, MaxJobsAssumption DEF TaskInv, IdsInv, Ids
    <3>2. QED
      BY <3>1, <1>F, <1>0, <1>V, MarkFailedWrites DEF ServedInv
  <2>3. TaskInv'
    BY <1>F, <1>0, <1>T, <1>V DEF MarkFailed, TaskInv, Mine, V, InTry
  <2>4. QED
    BY <1>0, <2>1, <2>2, <2>3
<1>10. CASE FailRun
  <2>1. \A i \in Ids : i # sid => local'[i] = local[i]
    BY <1>10, <1>0 DEF Store, FailRun, TypeOK
  <2>2. CASE Mine /\ MarkFailed
    BY <2>1, <2>2, <1>10, <1>F DEF Store, FailRun, TaskInv, InTry
  <2>3. CASE UNCHANGED scene
    <3>1. IdsInv' /\ QueueInv' /\ TaskInv'
      BY <2>3, <1>10 DEF Store, FailRun, IdsInv, QueueInv, TaskInv, InTry, V
    <3>2. ServedInv'
      <4>1. \A w \in Videos : status[w] = "done" => id[w] \in Ids /\ id[w] # sid
        BY <1>10, <1>T, MaxJobsAssumption DEF Store, FailRun, TaskInv, IdsInv, InTry, Mine, Ids
      <4>2. QED
        BY <2>1, <2>3, <4>1 DEF ServedInv
    <3>3. QED
      BY <1>0, <3>1, <3>2
  <2>4. QED
    BY <1>10, <2>2, <2>3 DEF Store, FailRun
<1>11. CASE CancelMark
  <2>1. CASE Mine /\ status[V] = "processing" /\ MarkFailed
    BY <2>1, <1>11, <1>F DEF CancelMark, InTry
  <2>2. CASE UNCHANGED scene
    BY <2>2, <1>11, <1>0
       DEF CancelMark, IdsInv, QueueInv, TaskInv, ServedInv, InTry, Mine, V
  <2>3. QED
    BY <1>11, <2>1, <2>2 DEF CancelMark
<1>12. CASE Cancel
  <2>1. CASE pc = "commit" /\ Mine /\ Publish
    BY <2>1, <1>12, <1>P DEF Cancel, TaskInv, InTry
  <2>2. CASE UNCHANGED scene
    BY <2>2, <1>12, <1>0
       DEF Cancel, IdsInv, QueueInv, TaskInv, ServedInv, InTry, Mine, V
  <2>3. QED
    BY <1>12, <2>1, <2>2 DEF Cancel
<1>13. CASE Remote
  BY <1>13, <1>0
     DEF Remote, ProcessStage, ProcessDone, ProcessFails, ProcessStarved,
         IdsInv, QueueInv, TaskInv, ServedInv, Mine, V
<1>14. CASE UNCHANGED vars
  BY <1>14, <1>0 DEF vars, IdsInv, QueueInv, TaskInv, ServedInv, Mine, V
<1> HIDE DEF RowInv
<1>15. QED
  BY <1>1, <1>2, <1>3, <1>3b, <1>3c, <1>4, <1>5, <1>6, <1>7, <1>8, <1>9, <1>10, <1>11, <1>12,
     <1>13, <1>14 DEF Next, Api, Worker

\* A directory a deletion removed is that of a row it is about to drop, or of none: the ids
\* of rows to come are greater.
GoneInv ==
  /\ \A v \in Videos : id[v] \in gone =>
       id[v] \in torn \/ (del \in Deletions /\ del.video = v /\ del.sid = id[v])
  /\ \A i \in gone : /\ i <= jobs
                     /\ \A k \in 1..Len(queue) : i < queue[k].n
                     /\ pc = "create" => i < job.n

LEMMA InitGoneInv == Init => GoneInv
  BY Numbers DEF Init, GoneInv, Ids

LEMMA StepGoneInv == ASSUME RowInv, GoneInv, [Next]_vars PROVE GoneInv'
<1> USE DEF GoneInv
<1>0. /\ TypeOK /\ V \in Videos /\ IdsInv /\ QueueInv /\ gone \subseteq Ids /\ 0 \notin gone
      /\ jobs \in Nat /\ queue \in Seq(Jobs) /\ Ids \subseteq Nat /\ job.n \in Nat
      /\ id \in [Videos -> 0..MaxJobs] /\ 0..MaxJobs \subseteq Nat
  <2>1. TypeOK /\ IdsInv /\ QueueInv /\ Ids \subseteq Nat /\ 0..MaxJobs \subseteq Nat
    BY MaxJobsAssumption DEF RowInv, Ids
  <2>2. job.n \in Ids /\ job.video \in Videos
    BY <2>1, JobFields DEF TypeOK
  <2>3. gone \subseteq Ids /\ 0 \notin Ids
    BY <2>1 DEF TypeOK, Ids
  <2>4. jobs \in Nat /\ queue \in Seq(Jobs) /\ id \in [Videos -> 0..MaxJobs]
    BY <2>1 DEF TypeOK
  <2>5. QED
    BY <2>1, <2>2, <2>3, <2>4 DEF V
<1>n. \A k \in 1..Len(queue) : queue[k].n \in Nat
  <2>1. \A k \in 1..Len(queue) : queue[k] \in Jobs
    BY <1>0
  <2>2. QED
    BY <1>0, <2>1, JobFields
<1>1. ASSUME NEW v \in Videos, Upload(v) \/ Rerun(v) PROVE GoneInv'
  <2>1. UNCHANGED <<scene, files, del, task>>
    BY <1>1 DEF Upload, Rerun
  <2>2. \/ UNCHANGED <<queue, jobs>>
        \/ /\ jobs' = jobs + 1 /\ Len(queue') = Len(queue) + 1
           /\ queue'[Len(queue) + 1].n = jobs + 1
           /\ \A k \in 1..Len(queue) : queue'[k] = queue[k]
    <3>1. ASSUME NEW rerun \in BOOLEAN, Enqueue(v, rerun)
          PROVE  /\ jobs' = jobs + 1 /\ Len(queue') = Len(queue) + 1
                 /\ queue'[Len(queue) + 1].n = jobs + 1
                 /\ \A k \in 1..Len(queue) : queue'[k] = queue[k]
      BY <1>0, <3>1 DEF Enqueue
    <3>2. QED
      BY <1>1, <3>1 DEF Upload, Rerun
  <2>3. ASSUME NEW i \in gone, NEW k \in 1..Len(queue') PROVE i <= jobs' /\ i < queue'[k].n
    <3>1. i \in Nat /\ i <= jobs /\ (k \in 1..Len(queue) => i < queue[k].n)
      BY <1>0
    <3>2. QED
      BY <1>0, <1>n, <2>2, <3>1
  <2>3a. \A i \in gone : i <= jobs'
    BY <1>0, <2>2
  <2>4. QED
    BY <2>1, <2>3, <2>3a
<1>2. ASSUME NEW v \in Videos, NEW kind \in {"scene", "video", "project"}, RemoveFiles(v, kind)
      PROVE  GoneInv'
  <2>1. UNCHANGED <<scene, torn, queue, jobs, task>>
    BY <1>2 DEF RemoveFiles
  <2>2. /\ del' \in Deletions /\ del'.video = v /\ del'.sid = id[v]
        /\ gone' \subseteq gone \cup {i \in Ids : i = id[v]}
    BY <1>2, <1>0 DEF RemoveFiles, TypeOK, Deletions
  <2>3. del \notin Deletions
    BY <1>2 DEF RemoveFiles, NoDeletion, Deletions
  <2>4. ASSUME NEW w \in Videos, id[w] \in gone' PROVE id[w] \in torn \/ w = v
    <3>1. id[w] \in gone => id[w] \in torn
      BY <2>3
    <3>2. id[w] \notin gone => id[w] = id[v] /\ id[w] # 0
      BY <1>0, <2>2, <2>4, Numbers
    <3>3. QED
      BY <1>0, <3>1, <3>2 DEF IdsInv
  <2>5. id[v] \in Ids => /\ id[v] <= jobs
                         /\ \A k \in 1..Len(queue) : id[v] < queue[k].n
                         /\ pc = "create" => id[v] < job.n
    BY <1>0 DEF IdsInv, QueueInv
  <2>6. \A i \in gone' : /\ i <= jobs
                         /\ \A k \in 1..Len(queue) : i < queue[k].n
                         /\ pc = "create" => i < job.n
    BY <2>2, <2>5
  <2>7. QED
    BY <2>1, <2>2, <2>4, <2>6
<1>3. CASE DeleteRow
  <2> DEFINE v == del.video
  <2>1. /\ v \in Videos /\ del \in Deletions
        /\ DropRow(v) \/ (id[v] # del.sid /\ UNCHANGED scene)
        /\ UNCHANGED <<files, queue, jobs, task>>
    BY <1>3, <1>0, DeleteRowDrops
  <2>2. \A w \in Videos : id[w] \in gone => id[w] \in torn \/ (w = v /\ del.sid = id[v])
    OBVIOUS
  <2> HIDE DEF v
  <2>3. \A w \in Videos : id'[w] \in gone => id'[w] \in torn
    <3>1. CASE DropRow(v)
      <4>1. id'[v] = 0 /\ \A w \in Videos : w # v => id'[w] = id[w]
        BY <3>1, <2>1, <1>0, PutRowWrites DEF DropRow
      <4>2. QED
        BY <4>1, <2>2, <1>0
    <3>2. CASE id[v] # del.sid /\ UNCHANGED scene
      BY <3>2, <2>2
    <3>3. QED
      BY <2>1, <3>1, <3>2
  <2>4. QED
    BY <2>1, <2>3
<1>4. CASE DeleteFails
  BY <1>4 DEF DeleteFails
<1>5. CASE TakeJob
  <2>1. /\ Len(queue') = Len(queue) - 1 /\ job' = queue[1] /\ Len(queue) >= 1
        /\ \A k \in 1..Len(queue') : queue'[k] = queue[k + 1]
    BY <1>5, <1>0 DEF TakeJob
  <2>2. UNCHANGED <<scene, files, del, jobs>>
    BY <1>5 DEF TakeJob
  <2>3. \A i \in gone : /\ \A k \in 1..Len(queue') : i < queue'[k].n
                        /\ i < job'.n
    BY <2>1, <1>0
  <2>4. QED
    BY <2>2, <2>3
<1>6. CASE CreateScene
  <2>1. UNCHANGED <<files, del, queue, jobs, job>> /\ pc = "create" /\ pc' # "create"
    BY <1>6 DEF CreateScene
  <2>2. \A w \in Videos : id'[w] \in gone => id'[w] = id[w]
    <3>1. CASE PutRow(V, job.n, "queued", 0, 0)
      <4>1. id'[V] = job.n /\ \A w \in Videos : w # V => id'[w] = id[w]
        BY <3>1, <1>0, PutRowWrites
      <4>2. job.n \notin gone
        <5>1. \A i \in gone : i \in Nat /\ i < job.n
          BY <2>1, <1>0
        <5>2. QED
          BY <5>1, <1>0
      <4>3. QED
        BY <4>1, <4>2
    <3>2. CASE UNCHANGED scene
      BY <3>2
    <3>3. QED
      BY <1>6, <3>1, <3>2 DEF CreateScene
  <2>3. QED
    BY <2>1, <2>2
<1>7. ASSUME id' = id, del' = del, gone' \subseteq gone, gone' \cap torn \subseteq torn', UNCHANGED <<queue, jobs, job>>,
             pc' = "create" => pc = "create"
      PROVE  GoneInv'
  BY <1>7
<1>8. CASE MarkProcessing \/ CommitScene \/ Cancel
  <2>1. id' = id
    <3>1. \A st, r, n : Mine /\ PutRow(V, sid, st, r, n) => id' = id
      BY <1>0 DEF PutRow, Mine, TypeOK
    <3>2. QED
      BY <1>8, <3>1 DEF MarkProcessing, CommitScene, Cancel, Publish
  <2>2. /\ UNCHANGED <<files, del, queue, jobs, job>> /\ pc' # "create"
    BY <1>8 DEF MarkProcessing, CommitScene, Cancel
  <2>3. QED
    BY <1>7, <2>1, <2>2
<1>9. CASE PushJob \/ StartPipeline \/ PollTerminal \/ PollGivesUp \/ FetchResults \/ Ingest
           \/ FailRun \/ Cleanup \/ CancelCleanup \/ CancelMark \/ Kill
  <2>1. id' = id /\ del' = del /\ UNCHANGED <<queue, jobs, job>> /\ pc' # "create"
    BY <1>9 DEF PushJob, StartPipeline, PollTerminal, PollGivesUp, Store, FetchResults, Ingest,
                FailRun, Cleanup, CancelCleanup, CancelMark, Kill, MarkFailed
  <2>2. gone' \subseteq gone /\ gone' \cap torn \subseteq torn'
    BY <1>9 DEF PushJob, StartPipeline, PollTerminal, PollGivesUp, Store, FetchResults, Ingest,
                FailRun, Cleanup, CancelCleanup, CancelMark, Kill
  <2>3. QED
    BY <1>7, <2>1, <2>2
<1>10. CASE Remote \/ UNCHANGED vars
  BY <1>7, <1>10 DEF Remote, ProcessStage, ProcessDone, ProcessFails, ProcessStarved, vars
<1> HIDE DEF GoneInv
<1>11. QED
  BY <1>1, <1>2, <1>3, <1>4, <1>5, <1>6, <1>8, <1>9, <1>10 DEF Next, Api, Worker

(* The rows and the files of a scene that is done are of one run: whatever reruns, failures,
   cancellations, crashes and deletions happened, no reader meets the artifacts of one run
   beside the objects of another, nor rows without files unless their deletion is under way
   or has failed. *)
THEOREM FilesAndRowsAgree == Spec => []FilesMatchRows
<1>1. RowInv /\ GoneInv => FilesMatchRows
  BY DEF RowInv, ServedInv, GoneInv, FilesMatchRows
<1>2. QED
  BY <1>1, InitRowInv, StepRowInv, InitGoneInv, StepGoneInv, PTL DEF Spec

LEMMA StepLifecycle ==
  ASSUME RowInv, [Next]_vars PROVE [Promise!Next]_<<status, rows>>
<1> USE DEF RowInv
<1>0. TypeOK /\ V \in Videos /\ status \in [Videos -> Statuses] /\ rows \in [Videos -> 0..MaxJobs]
  BY JobFields DEF TypeOK, V
<1>1. ASSUME DeleteRow PROVE Promise!Next \/ UNCHANGED <<status, rows>>
  <2> DEFINE v == del.video
  <2>1. v \in Videos /\ (DropRow(v) \/ UNCHANGED scene)
    BY <1>1, <1>0, DeleteRowDrops
  <2> HIDE DEF v
  <2>2. CASE DropRow(v) /\ status[v] # "none"
    <3>1. Promise!Remove(v)
      BY <2>2 DEF DropRow, PutRow, Promise!Remove
    <3>2. QED
      BY <2>1, <3>1 DEF Promise!Next
  <2>3. CASE DropRow(v) /\ status[v] = "none"
    BY <2>1, <2>3, <1>0 DEF DropRow, PutRow, IdsInv
  <2>4. QED
    BY <2>1, <2>2, <2>3
<1>2. CASE CreateScene
  <2>1. CASE PutRow(V, job.n, "queued", 0, 0) /\ ~HasScene(V)
    <3>1. status[V] = "none" /\ rows[V] = 0
      BY <2>1, <1>0 DEF HasScene, IdsInv
    <3>2. rows' = rows
      BY <2>1, <3>1, <1>0 DEF PutRow
    <3>3. Promise!Create(V)
      BY <2>1, <3>1, <3>2 DEF PutRow, Promise!Create
    <3>4. QED
      BY <3>3, <1>0 DEF Promise!Next
  <2>2. CASE UNCHANGED scene
    BY <2>2
  <2>3. QED
    BY <1>2, <2>1, <2>2 DEF CreateScene
<1>3. CASE MarkProcessing
  <2>1. CASE Mine /\ PutRow(V, sid, "processing", rows[V], job.n)
    <3>1. status[V] # "none"
      BY <2>1, <1>0, Numbers DEF IdsInv, Mine, TypeOK
    <3>2. rows' = rows
      BY <2>1, <1>0 DEF PutRow
    <3>3. Promise!Begin(V)
      BY <2>1, <3>1, <3>2 DEF PutRow, Promise!Begin
    <3>4. QED
      BY <3>3, <1>0 DEF Promise!Next
  <2>2. CASE UNCHANGED scene
    BY <2>2
  <2>3. QED
    BY <1>3, <2>1, <2>2 DEF MarkProcessing
<1>P. ASSUME pc = "commit", Mine, Publish PROVE Promise!Next
  <2>1. status[V] = "processing" /\ local[sid] # 0
    BY <1>P DEF TaskInv, InTry
  <2>2. local[sid] \in Promise!Runs
    BY <2>1, MaxJobsAssumption DEF TypeOK, Promise!Runs
  <2>3. Promise!Succeed(V, local[sid])
    BY <1>P, <2>1 DEF Publish, PutRow, Promise!Succeed
  <2>4. QED
    BY <2>2, <2>3, <1>0 DEF Promise!Next
<1>F. ASSUME status[V] = "processing", MarkFailed PROVE Promise!Next
  BY <1>F, <1>0 DEF MarkFailed, Promise!Fail, Promise!Next
<1>4. CASE CommitScene
  BY <1>4, <1>P DEF CommitScene
<1>5. CASE FailRun
  BY <1>5, <1>F DEF Store, FailRun, TaskInv, InTry
<1>6. CASE CancelMark
  BY <1>6, <1>F DEF CancelMark
<1>7. CASE Cancel
  BY <1>7, <1>P DEF Cancel
<1>8. CASE \/ \E v \in Videos : Upload(v) \/ Rerun(v)
           \/ \E v \in Videos, kind \in {"scene", "video", "project"} : RemoveFiles(v, kind)
           \/ DeleteFails \/ TakeJob \/ PushJob \/ StartPipeline \/ PollTerminal \/ PollGivesUp
           \/ FetchResults \/ Ingest \/ Cleanup \/ CancelCleanup \/ Kill \/ Remote
           \/ UNCHANGED vars
  BY <1>8 DEF Upload, Rerun, RemoveFiles, DeleteFails, TakeJob, PushJob, StartPipeline, PollTerminal, PollGivesUp,
              Store, FetchResults, Ingest, Cleanup, CancelCleanup, Kill, Remote, ProcessStage,
              ProcessDone, ProcessFails, ProcessStarved, vars
<1> HIDE DEF RowInv
<1>9. QED
  BY <1>1, <1>2, <1>3, <1>4, <1>5, <1>6, <1>7, <1>8 DEF Next, Api, Worker

(* What a reader sees of a scene, its status and the run of its objects, only ever takes
   the steps of the lifecycle the API promises, under every fault: objects are replaced
   with the step from "processing" to "done" and at no other time. *)
THEOREM ImplementsLifecycle == Spec => RefinesLifecycle
<1>1. Init => Promise!Init
  BY DEF Init, Promise!Init
<1>2. QED
  BY <1>1, InitRowInv, StepRowInv, StepLifecycle, PTL
     DEF Spec, RefinesLifecycle, Promise!Spec

-----------------------------------------------------------------------------
(* No scene is left behind, without crashes of the worker or of its database *)

NoCrash == "kill" \notin Faults /\ "db_fails" \notin Faults

\* A processing row is the running task's and before its verdict; a session that failed
\* failed because the row was gone; without cancellations a queued row is marked next.
SettleInv ==
  /\ \A v \in Videos : status[v] = "processing" =>
       pc \in InTry \cup {"cancel_cleanup", "cancel_mark"} /\ V = v /\ Mine
  /\ dead /\ pc # "idle" =>
       pc \in {"fail", "cleanup", "cancel_cleanup", "cancel_mark"} /\ ~Mine
  /\ "cancel" \notin Faults => \A v \in Videos :
       status[v] = "queued" => pc = "mark" /\ V = v /\ Mine

LEMMA InitSettleInv == Init => SettleInv
  BY DEF Init, SettleInv

LEMMA StepSettleInv == ASSUME NoCrash, RowInv, SettleInv, [Next]_vars PROVE SettleInv'
<1> USE DEF NoCrash
<1>0. TypeOK /\ V \in Videos /\ IdsInv /\ TaskInv /\ QueueInv
  BY JobFields DEF RowInv, TypeOK, V
<1>1. ASSUME DeleteRow PROVE SettleInv'
  <2> DEFINE v == del.video
  <2>1. v \in Videos /\ (DropRow(v) \/ UNCHANGED scene) /\ UNCHANGED task
    BY <1>1, <1>0, DeleteRowDrops
  <2> HIDE DEF v
  <2>2. CASE DropRow(v)
    <3>1. id'[v] = 0 /\ status'[v] = "none"
      BY <2>1, <2>2, <1>0, PutRowWrites DEF DropRow
    <3>2. \A w \in Videos : w # v => id'[w] = id[w] /\ status'[w] = status[w]
      BY <2>1, <2>2, <1>0, PutRowWrites DEF DropRow
    <3>3. sid # 0
      BY <1>0, Numbers DEF TypeOK
    <3>4. QED
      BY <2>1, <3>1, <3>2, <3>3, <1>0 DEF SettleInv, Mine, V
  <2>3. CASE UNCHANGED scene
    BY <2>1, <2>3 DEF SettleInv, Mine, V
  <2>4. QED
    BY <2>1, <2>2, <2>3
<1>2. CASE TakeJob
  BY <1>2 DEF TakeJob, SettleInv, InTry
<1>3. CASE CreateScene
  <2>1. CASE PutRow(V, job.n, "queued", 0, 0) /\ sid' = job.n /\ pc' = "mark"
    <3>1. id'[V] = job.n /\ status'[V] = "queued"
      BY <2>1, <1>0, PutRowWrites
    <3>2. \A w \in Videos : w # V => id'[w] = id[w] /\ status'[w] = status[w]
      BY <2>1, <1>0, PutRowWrites
    <3>3. QED
      BY <2>1, <3>1, <3>2, <1>3 DEF CreateScene, SettleInv, InTry, Mine, V
  <2>2. CASE UNCHANGED scene
    BY <2>2, <1>3 DEF CreateScene, SettleInv, InTry
  <2>3. QED
    BY <1>3, <2>1, <2>2 DEF CreateScene
<1>4. CASE MarkProcessing
  <2>1. Mine => id'[V] = sid /\ status'[V] = "processing"
    BY <1>4, <1>0, PutRowWrites DEF MarkProcessing
  <2>2. /\ \A w \in Videos : w # V => id'[w] = id[w] /\ status'[w] = status[w]
        /\ ~Mine => UNCHANGED scene
    BY <1>4, <1>0, PutRowWrites DEF MarkProcessing
  <2>3. QED
    BY <2>1, <2>2, <1>4 DEF MarkProcessing, SettleInv, InTry, Mine, V
<1>5. ASSUME PushJob \/ StartPipeline \/ PollTerminal \/ PollGivesUp \/ FetchResults
             \/ Ingest \/ Cleanup \/ CancelCleanup
      PROVE  SettleInv'
  <2>1. UNCHANGED <<scene, job, sid, dead>>
    BY <1>5 DEF PushJob, StartPipeline, PollTerminal, PollGivesUp, Store, FetchResults, Ingest,
                Cleanup, CancelCleanup
  <2>2. \/ pc \in InTry \ {"commit", "fail"} /\ pc' \in InTry
        \/ pc = "cleanup" /\ pc' = "idle"
        \/ pc = "cancel_cleanup" /\ pc' = "cancel_mark"
    BY <1>5 DEF PushJob, StartPipeline, PollTerminal, PollGivesUp, Store, FetchResults, Ingest,
                Cleanup, CancelCleanup, InTry
  <2>3. QED
    BY <2>1, <2>2 DEF SettleInv, Mine, V, InTry
<1>P. ASSUME pc = "commit", Mine, Publish, UNCHANGED <<job, sid, dead>>,
             pc' \in {"cleanup", "cancel_cleanup"}
      PROVE  SettleInv'
  <2>1. status'[V] = "done" /\ \A w \in Videos : w # V => status'[w] = status[w]
    BY <1>P, <1>0, PutRowWrites DEF Publish
  <2>2. QED
    BY <2>1, <1>P, <1>0 DEF SettleInv, Mine, V, InTry
<1>F. ASSUME Mine, MarkFailed, UNCHANGED <<job, sid, dead>>, ~dead,
             pc = "fail" \/ pc = "cancel_mark", pc' \in {"cleanup", "idle"}
      PROVE  SettleInv'
  BY <1>F, <1>0, MarkFailedWrites DEF SettleInv, Mine, V, InTry
<1>6. CASE CommitScene
  BY <1>6, <1>P, <1>0 DEF CommitScene, SettleInv, InTry, Mine, V
<1>7. CASE FailRun
  BY <1>7, <1>F, <1>0 DEF Store, FailRun, SettleInv, InTry, Mine, V
<1>8. CASE CancelMark
  BY <1>8, <1>F, <1>0 DEF CancelMark, SettleInv, InTry, Mine, V
<1>9. CASE Cancel
  <2>1. CASE pc = "commit" /\ Mine /\ Publish
    BY <2>1, <1>9, <1>P DEF Cancel
  <2>2. CASE UNCHANGED scene
    BY <2>2, <1>9 DEF Cancel, SettleInv, InTry, Mine, V
  <2>3. QED
    BY <1>9, <2>1, <2>2 DEF Cancel
<1>10. CASE \/ \E v \in Videos : Upload(v) \/ Rerun(v)
            \/ \E v \in Videos, kind \in {"scene", "video", "project"} : RemoveFiles(v, kind)
            \/ DeleteFails \/ Kill \/ Remote \/ UNCHANGED vars
  <2>1. UNCHANGED <<scene, task>>
    BY <1>10 DEF Upload, Rerun, RemoveFiles, DeleteFails, Kill, Remote, ProcessStage, ProcessDone, ProcessFails,
                 ProcessStarved, vars
  <2>2. QED
    BY <2>1 DEF SettleInv, Mine, V
<1>11. QED
  BY <1>1, <1>2, <1>3, <1>4, <1>5, <1>6, <1>7, <1>8, <1>9, <1>10 DEF Next, Api, Worker

(* While neither the worker nor its database crashes, no scene is left "processing" with
   no task that will settle it, however tasks are cancelled and pipelines fail. *)
THEOREM ProcessingIsOwned ==
  ASSUME NoCrash PROVE Spec => []NotStuckProcessing
<1>1. SettleInv => NotStuckProcessing
  BY DEF SettleInv, NotStuckProcessing, InTry
<1>2. QED
  BY <1>1, InitRowInv, StepRowInv, InitSettleInv, StepSettleInv, PTL DEF Spec

(* Without cancellations, no scene is left "queued" either. *)
THEOREM NothingStranded ==
  ASSUME NoCrash, "cancel" \notin Faults PROVE Spec => []NoSceneStranded
<1>1. SettleInv => NoSceneStranded
  BY DEF SettleInv, NoSceneStranded, Unfinished, InTry
<1>2. QED
  BY <1>1, InitRowInv, StepRowInv, InitSettleInv, StepSettleInv, PTL DEF Spec

-----------------------------------------------------------------------------
(* A scene that is done shows its latest run, with the faults excluded that leave a
   process or a directory on the GPU host behind the task *)

NoZombie == Faults \cap {"cancel", "kill", "poll_ends", "start_repeats", "cleanup_fails"} = {}

\* The GPU host holds nothing but the running task's directory and, while it is polled,
\* its one process; from done to the commit, what travels is that process's output.
HostInv ==
  /\ pc \notin {"cancel_cleanup", "cancel_mark"}
  /\ \A i \in Ids : i # sid \/ pc \in {"idle", "create", "mark", "push"} => dir[i] = "gone"
  /\ \A p \in procs : pc = "poll" /\ p.run = job.n /\ p.sid = sid
  /\ pc = "start" => dir[sid] = "unknown"
  /\ \A p, q \in procs : p = q
  /\ pc = "poll" /\ dir[sid] \in {"done", "failed"} => procs = {}
  /\ pc \in {"poll", "fetch"} /\ dir[sid] = "done" => art[sid] = job.n
  /\ pc = "fetch" => dir[sid] = "done"
  /\ pc \in {"ingest", "commit"} /\ local[sid] # 0 => local[sid] = job.n
  /\ pc \in InTry /\ Mine => run[V] = job.n

FreshInv == HostInv /\ DoneIsFresh

LEMMA InitFreshInv == Init => FreshInv
  BY DEF Init, FreshInv, HostInv, DoneIsFresh, InTry

LEMMA StepFreshInv == ASSUME NoZombie, RowInv, FreshInv, [Next]_vars PROVE FreshInv'
<1>0. /\ TypeOK /\ V \in Videos /\ IdsInv /\ TaskInv /\ sid \in Ids
      /\ \A k \in {"cancel", "kill", "poll_ends", "start_repeats", "cleanup_fails"} : k \notin Faults
  BY JobFields DEF RowInv, TypeOK, V, NoZombie
<1> USE DEF FreshInv
<1>1. ASSUME DeleteRow PROVE FreshInv'
  <2> DEFINE v == del.video
  <2>1. v \in Videos /\ (DropRow(v) \/ UNCHANGED scene) /\ UNCHANGED <<files, task, host>>
    BY <1>1, <1>0, DeleteRowDrops
  <2> HIDE DEF v
  <2>2. CASE DropRow(v)
    <3>1. id'[v] = 0 /\ status'[v] = "none" /\ sid # 0
      BY <2>1, <2>2, <1>0, PutRowWrites, Numbers DEF DropRow
    <3>2. \A w \in Videos : w # v => /\ id'[w] = id[w] /\ status'[w] = status[w]
                                   /\ rows'[w] = rows[w] /\ run'[w] = run[w]
      BY <2>1, <2>2, <1>0, PutRowWrites DEF DropRow
    <3>3. HostInv'
      BY <2>1, <3>1, <3>2, <1>0 DEF HostInv, Mine, V, InTry
    <3>4. DoneIsFresh'
      BY <3>1, <3>2 DEF DoneIsFresh
    <3>5. QED
      BY <3>3, <3>4
  <2>3. CASE UNCHANGED scene
    BY <2>1, <2>3 DEF HostInv, DoneIsFresh, Mine, V
  <2>4. QED
    BY <2>1, <2>2, <2>3
<1>2. CASE TakeJob
  BY <1>2 DEF TakeJob, HostInv, DoneIsFresh, InTry
<1>3. CASE CreateScene
  <2>1. HostInv'
    BY <1>3 DEF CreateScene, HostInv, InTry
  <2>2. DoneIsFresh'
    BY <1>3, <1>0, PutRowWrites DEF CreateScene, DoneIsFresh
  <2>3. QED
    BY <2>1, <2>2
<1>4. CASE MarkProcessing
  <2>1. Mine => status'[V] = "processing" /\ run'[V] = job.n
    BY <1>4, <1>0, PutRowWrites DEF MarkProcessing
  <2>2. /\ \A w \in Videos : w # V => /\ status'[w] = status[w] /\ rows'[w] = rows[w]
                                     /\ run'[w] = run[w]
        /\ ~Mine => UNCHANGED scene
    BY <1>4, <1>0, PutRowWrites DEF MarkProcessing
  <2>3. HostInv'
    BY <2>1, <2>2, <1>4 DEF MarkProcessing, HostInv, Mine, V, InTry
  <2>4. DoneIsFresh'
    BY <2>1, <2>2, <1>4 DEF MarkProcessing, DoneIsFresh
  <2>5. QED
    BY <2>3, <2>4
<1>5. CASE PushJob
  <2>1. /\ \A i \in Ids : i # sid => dir'[i] = dir[i]
        /\ pc' = "start" => dir'[sid] = "unknown"
    BY <1>5, <1>0 DEF PushJob, MakeDir, HostInv, TypeOK
  <2>2. QED
    BY <2>1, <1>5, <1>0 DEF PushJob, HostInv, DoneIsFresh, Mine, V, InTry
<1>6. CASE StartPipeline
  <2>1. procs = {} /\ pc = "start" /\ dir[sid] = "unknown" /\ UNCHANGED <<dir, art>>
    BY <1>6, <1>0 DEF StartPipeline, HostInv
  <2>2. procs' \subseteq {Process(1)} /\ (pc' = "fail" => procs' = {}) /\ pc' \in {"poll", "fail"}
    BY <1>6, <2>1, <1>0 DEF StartPipeline
  <2>3. Process(1).run = job.n /\ Process(1).sid = sid
    BY DEF Process
  <2>4. QED
    BY <2>1, <2>2, <2>3, <1>6 DEF StartPipeline, HostInv, DoneIsFresh, Mine, V, InTry
<1>7. CASE PollTerminal
  BY <1>7 DEF PollTerminal, HostInv, DoneIsFresh, Mine, V, InTry
<1>8. CASE FetchResults
  <2>1. pc' = "ingest" => local'[sid] = job.n
    BY <1>8, <1>0 DEF Store, FetchResults, HostInv, TypeOK
  <2>2. QED
    BY <2>1, <1>8 DEF Store, FetchResults, HostInv, DoneIsFresh, Mine, V, InTry
<1>9. CASE Ingest
  BY <1>9 DEF Ingest, HostInv, DoneIsFresh, Mine, V, InTry
<1>10. CASE CommitScene
  <2>1. CASE Mine /\ Publish /\ pc' = "cleanup"
    <3>1. rows'[V] = job.n /\ run'[V] = job.n
      BY <2>1, <1>10, <1>0, PutRowWrites
         DEF CommitScene, Publish, HostInv, TaskInv, InTry
    <3>2. \A w \in Videos : w # V => /\ status'[w] = status[w] /\ rows'[w] = rows[w]
                                   /\ run'[w] = run[w]
      BY <2>1, <1>0, PutRowWrites DEF Publish
    <3>3. QED
      BY <2>1, <3>1, <3>2, <1>10 DEF CommitScene, HostInv, DoneIsFresh, InTry
  <2>2. CASE UNCHANGED scene /\ pc' = "fail"
    BY <2>2, <1>10 DEF CommitScene, HostInv, DoneIsFresh, InTry, Mine, V
  <2>3. QED
    BY <1>10, <2>1, <2>2 DEF CommitScene
<1>11. CASE FailRun
  <2>1. DoneIsFresh'
    BY <1>11, <1>0, MarkFailedWrites DEF Store, FailRun, DoneIsFresh
  <2>2. HostInv'
    BY <1>11 DEF Store, FailRun, HostInv, InTry
  <2>3. QED
    BY <2>1, <2>2
<1>12. CASE Cleanup
  <2>1. \A i \in Ids : dir'[i] = "gone"
    BY <1>12, <1>0, Zenon DEF Cleanup, RemoveDir, HostInv, TypeOK
  <2>2. QED
    BY <2>1, <1>12 DEF Cleanup, HostInv, DoneIsFresh, InTry
<1>13. ASSUME NEW p \in procs, ProcessStage(p) \/ ProcessDone(p) \/ ProcessFails(p)
                               \/ ProcessStarved(p)
       PROVE  FreshInv'
  <2>1. pc = "poll" /\ p.run = job.n /\ p.sid = sid /\ procs = {p}
    BY <1>13 DEF HostInv
  <2>2. UNCHANGED <<data, queue, jobs, task>>
    BY <1>13 DEF ProcessStage, ProcessDone, ProcessFails, ProcessStarved
  <2>3. /\ \A i \in Ids : i # sid => dir'[i] = dir[i]
        /\ \/ procs' = procs /\ dir'[sid] = "running"
           \/ procs' = {} /\ dir'[sid] = "done" /\ art'[sid] = job.n
           \/ procs' = {} /\ dir'[sid] \in {"failed", "gone"}
    BY <2>1, <1>13, <1>0 DEF ProcessStage, ProcessDone, ProcessFails, ProcessStarved, TypeOK
  <2>4. QED
    BY <2>1, <2>2, <2>3 DEF HostInv, DoneIsFresh, Mine, V, InTry
<1>14. CASE PollGivesUp \/ CancelCleanup \/ CancelMark \/ Cancel \/ Kill
  BY <1>14, <1>0 DEF PollGivesUp, CancelCleanup, CancelMark, Cancel, Kill, HostInv
<1>15. CASE \/ \E v \in Videos : Upload(v) \/ Rerun(v)
            \/ \E v \in Videos, kind \in {"scene", "video", "project"} : RemoveFiles(v, kind)
            \/ DeleteFails \/ UNCHANGED vars
  <2>1. UNCHANGED <<scene, local, task, host>>
    BY <1>15 DEF Upload, Rerun, RemoveFiles, DeleteFails, vars
  <2>2. QED
    BY <2>1 DEF HostInv, DoneIsFresh, Mine, V
<1> HIDE DEF FreshInv
<1>16. QED
  BY <1>1, <1>2, <1>3, <1>4, <1>5, <1>6, <1>7, <1>8, <1>9, <1>10, <1>11, <1>12, <1>13,
     <1>14, <1>15 DEF Next, Api, Worker, Remote

(* While no task leaves a process or a directory behind on the GPU host, the objects of a
   scene that is done come from its latest run, however often it is rerun, fails or is
   deleted. *)
THEOREM DoneShowsLatestRun ==
  ASSUME NoZombie PROVE Spec => []DoneIsFresh
<1>1. FreshInv => DoneIsFresh
  BY DEF FreshInv
<1>2. QED
  BY <1>1, InitRowInv, StepRowInv, InitFreshInv, StepFreshInv, PTL DEF Spec
=============================================================================
