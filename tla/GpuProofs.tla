----------------------------- MODULE GpuProofs ------------------------------
(***************************************************************************)
(* The GPU job and the batch that orders jobs by night: "done" is said of  *)
(* one whole attempt, the grid's obstacles were witnessed, and a project   *)
(* has no more jobs of the night than it was asked for, for every set of   *)
(* attempts and however many of them share a directory.                    *)
(***************************************************************************)
EXTENDS Studio, FiniteSetTheorems, WellFoundedInduction, TLAPS

\* What a pipeline that has come to a stage has already written.
Before(stage) ==
  CASE stage = "vocab" -> {"keyframes_json"}
    [] stage = "infer" -> {"keyframes_json", "vocab_json"}
    [] stage = "align" -> {"keyframes_json", "vocab_json", "report", "infer_meta"}
    [] stage = "objects" -> {"keyframes_json", "vocab_json", "report", "infer_meta", "alignment"}
    [] stage = "occupancy" -> {"keyframes_json", "vocab_json", "report", "infer_meta", "alignment",
                               "scene_objects"}
    [] stage = "export_glb" -> {"keyframes_json", "vocab_json", "report", "infer_meta", "alignment",
                                "scene_objects", "occupancy"}
    [] stage \in {"finalize", "done", "secret"} -> Gpu!Artifacts \ {"result"}
    [] OTHER -> {}

\* An artifact is of the pipeline, of one that was at work beside it or later, or was removed under it.
Fresh(a, r) ==
  \/ gpuArt[a] \in gpuPeers[r] \/ gpuArt[a] > r
  \/ gpuArt[a] = 0 /\ r \in gpuWiped

Attempts == 1 .. MaxAttempts

\* The pipelines are numbered in the order they come in, and know who is at work beside them.
CrewInv ==
  /\ gpuRun \in 0 .. MaxAttempts /\ gpuPc = [r \in Attempts |-> gpuPc[r]]
  /\ \A r \in Attempts : gpuPc[r] # "none" <=> r <= gpuRun
  /\ \A r \in Attempts, q \in Gpu!Live : r <= gpuRun => q \in gpuPeers[r] \/ q > r
  /\ gpuStatus.state = "done" =>
       gpuStatus.run \in Attempts /\ gpuPc[gpuStatus.run] \in {"secret", "gone"}

\* A pipeline writes in order, and what it has written is not a dead one's.
JobInv ==
  /\ CrewInv
  /\ gpuArt = [a \in Gpu!Artifacts |-> gpuArt[a]]
  /\ \A r \in Gpu!Live : \A a \in Before(gpuPc[r]) : Fresh(a, r)
  /\ gpuStatus.state = "done" => \A a \in Gpu!Artifacts \ {"result"} : Fresh(a, gpuStatus.run)

-----------------------------------------------------------------------------
LEMMA NextStage ==
  /\ Gpu!After("keyframes") = "vocab" /\ Gpu!After("vocab") = "infer" /\ Gpu!After("infer") = "align"
  /\ Gpu!After("align") = "objects" /\ Gpu!After("objects") = "occupancy"
  /\ Gpu!After("occupancy") = "export_glb" /\ Gpu!After("export_glb") = "finalize"
<1>1. /\ Gpu!StageOrder[1] = "keyframes" /\ Gpu!StageOrder[2] = "vocab" /\ Gpu!StageOrder[3] = "infer"
      /\ Gpu!StageOrder[4] = "align" /\ Gpu!StageOrder[5] = "objects" /\ Gpu!StageOrder[6] = "occupancy"
      /\ Gpu!StageOrder[7] = "export_glb"
  BY DEF Gpu!StageOrder
<1>2. ASSUME NEW n \in 1 .. 7
      PROVE  (CHOOSE i \in 1 .. 7 : Gpu!StageOrder[i] = Gpu!StageOrder[n]) = n
  <2>1. \A i \in 1 .. 7 : Gpu!StageOrder[i] = Gpu!StageOrder[n] => i = n
    BY <1>1
  <2>2. QED
    BY <2>1
<1>3. QED
  BY <1>1, <1>2 DEF Gpu!After

LEMMA InitJobInv == Gpu!Init => JobInv
  BY AttemptsAssumption DEF Gpu!Init, JobInv, CrewInv, Gpu!Live, Attempts

\* The step of a pipeline at work: it goes on or away, and writes the status unless that is lost.
Moves(r, to) ==
  /\ r \in Attempts /\ gpuPc[r] \notin {"none", "gone"} /\ to # "none"
  /\ gpuPc[r] = "secret" => to = "gone"
  /\ gpuPc' = [gpuPc EXCEPT ![r] = to]
  /\ UNCHANGED <<gpuRun, gpuPeers, gpuWiped>>
  /\ \/ gpuStatus' = gpuStatus
     \/ gpuStatus'.state # "done"
     \/ gpuPc[r] = "done" /\ to = "secret" /\ gpuStatus' = [state |-> "done", run |-> r]

LEMMA CrewMoves ==
  ASSUME CrewInv, NEW r, NEW to, Moves(r, to)
  PROVE  CrewInv' /\ Gpu!Live' \subseteq Gpu!Live /\ \A q \in Gpu!Live' : q # r => gpuPc'[q] = gpuPc[q]
<1> USE DEF Attempts, Gpu!Live, CrewInv, Moves
<1>1. gpuPc' = [q \in Attempts |-> gpuPc'[q]] /\ \A q \in Attempts : gpuPc'[q] = IF q = r THEN to ELSE gpuPc[q]
  OBVIOUS
<1>2. \A q \in Attempts : gpuPc'[q] # "none" <=> q <= gpuRun'
  BY <1>1
<1>3. Gpu!Live' \subseteq Gpu!Live /\ \A q \in Gpu!Live' : q # r => gpuPc'[q] = gpuPc[q]
  BY <1>1
<1>4. \A p \in Attempts, q \in Gpu!Live' : p <= gpuRun' => q \in gpuPeers'[p] \/ q > p
  BY <1>3
<1>5. gpuStatus'.state = "done" =>
        gpuStatus'.run \in Attempts /\ gpuPc'[gpuStatus'.run] \in {"secret", "gone"}
  BY <1>1
<1>6. QED
  BY <1>1, <1>2, <1>3, <1>4, <1>5

LEMMA Writes ==
  ASSUME JobInv, NEW r, NEW to, Moves(r, to), NEW T,
         gpuArt' = [a \in Gpu!Artifacts |-> IF a \in T THEN r ELSE gpuArt[a]],
         Before(to) \subseteq Gpu!Artifacts, Before(to) \subseteq Before(gpuPc[r]) \union T,
         gpuPc[r] = "done" => Before(gpuPc[r]) = Gpu!Artifacts \ {"result"}
  PROVE  JobInv'
<1>1. CrewInv' /\ Gpu!Live' \subseteq Gpu!Live /\ \A q \in Gpu!Live' : q # r => gpuPc'[q] = gpuPc[q]
  BY CrewMoves DEF JobInv
<1>2. r \in Gpu!Live /\ gpuPc'[r] = to
  BY DEF Moves, Gpu!Live, JobInv, CrewInv, Attempts
<1>3. ASSUME NEW q \in Attempts, q <= gpuRun, NEW a \in Gpu!Artifacts, a \in T \/ Fresh(a, q) PROVE Fresh(a, q)'
  <2>1. CASE a \in T
    <3>1. gpuArt'[a] = r
      BY <2>1
    <3>2. r \in gpuPeers[q] \/ r > q
      BY <1>2, <1>3 DEF JobInv, CrewInv
    <3>3. QED
      BY <3>1, <3>2 DEF Fresh, Moves
  <2>2. CASE a \notin T
    BY <1>3, <2>2 DEF Fresh, Moves
  <2>3. QED
    BY <2>1, <2>2
<1>4. \A q \in Gpu!Live : q \in Attempts /\ q <= gpuRun /\ Before(gpuPc[q]) \subseteq Gpu!Artifacts
  BY DEF Gpu!Live, JobInv, CrewInv, Attempts, Before, Gpu!Artifacts
<1>5. ASSUME NEW q \in Gpu!Live', NEW a \in Before(gpuPc'[q]) PROVE Fresh(a, q)'
  <2>1. CASE q = r
    BY <1>2, <1>3, <1>4, <1>5, <2>1 DEF JobInv
  <2>2. CASE q # r
    BY <1>1, <1>3, <1>4, <1>5, <2>2 DEF JobInv
  <2>3. QED
    BY <2>1, <2>2
<1>6. ASSUME gpuStatus'.state = "done", NEW a \in Gpu!Artifacts \ {"result"} PROVE Fresh(a, gpuStatus.run)'
  <2>1. CASE gpuStatus' = gpuStatus
    <3>1. gpuStatus.run \in Attempts /\ gpuStatus.run <= gpuRun /\ Fresh(a, gpuStatus.run)
      BY <1>6, <2>1 DEF JobInv, CrewInv
    <3>2. QED
      BY <1>3, <2>1, <3>1
  <2>2. CASE gpuPc[r] = "done" /\ gpuStatus' = [state |-> "done", run |-> r]
    <3>1. r \in Attempts /\ r <= gpuRun /\ Fresh(a, r)
      BY <1>2, <1>4, <1>6, <2>2 DEF JobInv
    <3>2. gpuStatus'.run = r
      BY <2>2
    <3>3. QED
      BY <1>3, <3>1, <3>2
  <2>3. QED
    BY <1>6, <2>1, <2>2 DEF Moves
<1>7. QED
  BY <1>1, <1>5, <1>6 DEF JobInv

\* Stages of the driver.
LEMMA StageSteps ==
  ASSUME CrewInv, NEW r \in Attempts, NEW stage \in Gpu!Stages, gpuPc[r] = stage,
         UNCHANGED <<gpuRun, gpuPeers, gpuWiped>>
  PROVE  /\ Gpu!StageFails(stage, r) => Moves(r, "gone")
         /\ Gpu!StageOK(stage, r) => Moves(r, Gpu!After(stage)) \/ Moves(r, "gone")
<1>1. stage \in {"keyframes", "vocab", "infer", "align", "objects", "occupancy", "export_glb"}
  <2>1. \A i \in 1 .. 7 : Gpu!StageOrder[i] \in {"keyframes", "vocab", "infer", "align", "objects", "occupancy", "export_glb"}
    BY DEF Gpu!StageOrder
  <2>2. QED
    BY <2>1 DEF Gpu!Stages
<1>2. gpuPc[r] \notin {"none", "gone", "secret", "done"} /\ Gpu!After(stage) # "none"
  BY <1>1, NextStage
<1>3. Gpu!StageFails(stage, r) => Moves(r, "gone")
  BY <1>2 DEF Gpu!StageFails, Gpu!Goes, Gpu!WriteStatus, Moves
<1>4. ASSUME Gpu!StageOK(stage, r), ~Gpu!StageFails(stage, r) PROVE Moves(r, Gpu!After(stage))
  BY <1>2, <1>4 DEF Gpu!StageOK, Gpu!Goes, Gpu!WriteStatus, Moves
<1>5. QED
  BY <1>3, <1>4

LEMMA StageWrites ==
  ASSUME JobInv, NEW r \in Attempts, NEW stage \in Gpu!Stages, gpuPc[r] = stage,
         UNCHANGED <<gpuRun, gpuPeers, gpuWiped>>, NEW T \in SUBSET Gpu!Artifacts,
         gpuArt' = [a \in Gpu!Artifacts |-> IF a \in T THEN r ELSE gpuArt[a]],
         \/ Gpu!StageFails(stage, r)
         \/ Gpu!StageOK(stage, r) /\ Before(Gpu!After(stage)) \subseteq Before(stage) \union T
  PROVE  JobInv'
<1>1. CrewInv /\ stage # "done"
  <2>1. \A i \in 1 .. 7 : Gpu!StageOrder[i] # "done"
    BY DEF Gpu!StageOrder
  <2>2. QED
    BY <2>1 DEF Gpu!Stages, JobInv
<1>2. Before("gone") = {}
  BY DEF Before
<1>3. CASE Moves(r, "gone")
  BY <1>1, <1>2, <1>3, Writes
<1>4. CASE Moves(r, Gpu!After(stage)) /\ Before(Gpu!After(stage)) \subseteq Before(stage) \union T
  <2>1. Before(stage) \subseteq Gpu!Artifacts
    BY DEF Before, Gpu!Artifacts
  <2>2. QED
    BY <1>1, <1>4, <2>1, Writes
<1>5. QED
  BY <1>1, <1>3, <1>4, StageSteps

LEMMA NamesOfStages ==
  {"keyframes", "vocab", "infer", "align", "objects", "occupancy", "export_glb"} \subseteq Gpu!Stages
<1>1. /\ Gpu!StageOrder[1] = "keyframes" /\ Gpu!StageOrder[2] = "vocab" /\ Gpu!StageOrder[3] = "infer"
      /\ Gpu!StageOrder[4] = "align" /\ Gpu!StageOrder[5] = "objects" /\ Gpu!StageOrder[6] = "occupancy"
      /\ Gpu!StageOrder[7] = "export_glb"
  BY DEF Gpu!StageOrder
<1>2. QED
  BY <1>1 DEF Gpu!Stages

\* A stage that writes one artifact, when it writes.
LEMMA OneWrite ==
  ASSUME JobInv, NEW r \in Attempts, NEW stage \in Gpu!Stages, gpuPc[r] = stage,
         UNCHANGED <<gpuRun, gpuPeers, gpuWiped>>, NEW name \in Gpu!Artifacts,
         \/ Gpu!StageFails(stage, r) /\ (Gpu!Touch(name, r) \/ UNCHANGED gpuArt)
         \/ Gpu!StageOK(stage, r) /\ Gpu!Touch(name, r),
         Before(Gpu!After(stage)) \subseteq Before(stage) \union {name}
  PROVE  JobInv'
<1>1. CASE Gpu!Touch(name, r)
  <2>1. gpuArt' = [a \in Gpu!Artifacts |-> IF a \in {name} THEN r ELSE gpuArt[a]]
    BY <1>1 DEF Gpu!Touch, JobInv
  <2>2. QED
    BY <2>1, StageWrites
<1>2. CASE UNCHANGED gpuArt /\ Gpu!StageFails(stage, r)
  <2>1. PICK T \in SUBSET Gpu!Artifacts : gpuArt' = [a \in Gpu!Artifacts |-> IF a \in T THEN r ELSE gpuArt[a]]
    <3>1. gpuArt' = [a \in Gpu!Artifacts |-> IF a \in {} THEN r ELSE gpuArt[a]]
      BY <1>2 DEF JobInv
    <3>2. {} \in SUBSET Gpu!Artifacts
      OBVIOUS
    <3>3. QED
      BY <3>1, <3>2, Zenon
  <2>2. QED
    BY <1>2, <2>1, StageWrites
<1>3. QED
  BY <1>1, <1>2

LEMMA CrewJoins ==
  ASSUME CrewInv, Gpu!Joins, UNCHANGED gpuStatus
  PROVE  /\ CrewInv' /\ Gpu!Live' = Gpu!Live \union {gpuRun + 1}
         /\ \A r \in Attempts : r # gpuRun + 1 => gpuPc'[r] = gpuPc[r] /\ gpuPeers[r] \subseteq gpuPeers'[r]
         /\ gpuPc'[gpuRun + 1] = "start"
<1> USE DEF Attempts, Gpu!Live, CrewInv, Gpu!Joins
<1>1. gpuRun + 1 \in Attempts /\ gpuRun + 1 \notin Gpu!Live
  BY AttemptsAssumption
<1>2. gpuPc' = [r \in Attempts |-> gpuPc'[r]] /\ \A r \in Attempts : gpuPc'[r] = IF r = gpuRun + 1 THEN "start" ELSE gpuPc[r]
  BY <1>1
<1>3. Gpu!Live' = Gpu!Live \union {gpuRun + 1}
  BY <1>1, <1>2
<1>4. \A r \in Attempts : gpuPc'[r] # "none" <=> r <= gpuRun'
  BY <1>1, <1>2
<1>5. \A r \in Attempts : gpuPeers'[r] = IF r = gpuRun + 1 THEN Gpu!Live \union {r}
                                       ELSE IF r \in Gpu!Live THEN gpuPeers[r] \union {gpuRun + 1} ELSE gpuPeers[r]
  OBVIOUS
<1>6. ASSUME NEW r \in Attempts, NEW q \in Gpu!Live', r <= gpuRun' PROVE q \in gpuPeers'[r] \/ q > r
  <2>1. CASE r = gpuRun + 1
    BY <1>3, <1>5, <2>1
  <2>2. CASE q = gpuRun + 1 /\ r # gpuRun + 1
    BY <1>1, <1>6, <2>2
  <2>3. CASE q # gpuRun + 1 /\ r # gpuRun + 1
    BY <1>3, <1>5, <1>6, <2>3
  <2>4. QED
    BY <2>1, <2>2, <2>3
<1>7. gpuStatus'.state = "done" => gpuStatus'.run \in Attempts /\ gpuPc'[gpuStatus'.run] \in {"secret", "gone"}
  <2>1. SUFFICES ASSUME gpuStatus.state = "done" PROVE gpuPc'[gpuStatus.run] \in {"secret", "gone"}
    OBVIOUS
  <2>2. gpuStatus.run # gpuRun + 1
    BY <1>1, <2>1
  <2>3. QED
    BY <1>2, <2>1, <2>2
<1>8. QED
  BY <1>2, <1>3, <1>4, <1>5, <1>6, <1>7

LEMMA JoinKeeps == ASSUME JobInv, Gpu!Joins, UNCHANGED <<gpuStatus, gpuArt>> PROVE JobInv'
<1>1. /\ CrewInv' /\ Gpu!Live' = Gpu!Live \union {gpuRun + 1}
      /\ \A r \in Attempts : r # gpuRun + 1 => gpuPc'[r] = gpuPc[r] /\ gpuPeers[r] \subseteq gpuPeers'[r]
      /\ gpuPc'[gpuRun + 1] = "start"
  BY CrewJoins DEF JobInv
<1>2. gpuWiped' = gpuWiped
  BY DEF Gpu!Joins
<1>3. ASSUME NEW r \in Attempts, r # gpuRun + 1, NEW a, Fresh(a, r) PROVE Fresh(a, r)'
  BY <1>1, <1>2, <1>3 DEF Fresh
<1>4. ASSUME NEW r \in Gpu!Live', NEW a \in Before(gpuPc'[r]) PROVE Fresh(a, r)'
  <2>1. r # gpuRun + 1
    BY <1>1, <1>4 DEF Before
  <2>2. r \in Gpu!Live /\ r \in Attempts
    BY <1>1, <2>1 DEF Gpu!Live, Attempts
  <2>3. QED
    BY <1>1, <1>3, <1>4, <2>1, <2>2 DEF JobInv
<1>5. ASSUME gpuStatus.state = "done", NEW a \in Gpu!Artifacts \ {"result"} PROVE Fresh(a, gpuStatus.run)'
  <2>1. gpuStatus.run \in Attempts /\ gpuStatus.run # gpuRun + 1
    BY <1>5 DEF JobInv, CrewInv, Attempts
  <2>2. QED
    BY <1>3, <1>5, <2>1 DEF JobInv
<1>6. QED
  BY <1>1, <1>4, <1>5 DEF JobInv

LEMMA StepJobInv == ASSUME JobInv, [Gpu!Next]_gpuVars PROVE JobInv'
<1> USE DEF Gpu!crew
<1>1. ASSUME NEW t \in Takes, Gpu!PushJob(t) PROVE JobInv'
  BY <1>1, JoinKeeps DEF Gpu!PushJob
<1>2. CASE Gpu!StartAgain
  BY <1>2, JoinKeeps DEF Gpu!StartAgain
<1>3. ASSUME NEW r \in Attempts, Gpu!Pipeline(r) PROVE JobInv'
  <2>1. CASE Gpu!StartPipeline(r) \/ Gpu!StartLost(r)
    <3>1. Moves(r, "keyframes") \/ Moves(r, "gone")
      BY <2>1 DEF Gpu!StartPipeline, Gpu!StartLost, Gpu!Goes, Gpu!WriteStatus, Moves
    <3>2. gpuArt' = [a \in Gpu!Artifacts |-> IF a \in {} THEN r ELSE gpuArt[a]] /\ gpuPc[r] = "start"
      BY <2>1 DEF Gpu!StartPipeline, Gpu!StartLost, JobInv
    <3>3. Before("keyframes") = {} /\ Before("gone") = {}
      BY DEF Before
    <3>4. QED
      BY <3>1, <3>2, <3>3, Writes
  <2>2. CASE Gpu!Keyframes(r)
    <3>1. Gpu!StageFails("keyframes", r) \/ Gpu!StageOK("keyframes", r)
      BY <2>2 DEF Gpu!Keyframes
    <3>2. Gpu!Touch("keyframes_json", r) /\ gpuPc[r] = "keyframes" /\ UNCHANGED <<gpuRun, gpuPeers, gpuWiped>>
      BY <2>2 DEF Gpu!Keyframes
    <3>3. Before(Gpu!After("keyframes")) \subseteq Before("keyframes") \union {"keyframes_json"}
      BY NextStage DEF Before
    <3>4. QED
      BY <3>1, <3>2, <3>3, OneWrite, NamesOfStages DEF Gpu!Artifacts
  <2>3. CASE Gpu!Vocab(r)
    <3>1. Before(Gpu!After("vocab")) \subseteq Before("vocab") \union {"vocab_json"}
      BY NextStage DEF Before
    <3>2. QED
      BY <2>3, <3>1, OneWrite, NamesOfStages DEF Gpu!Artifacts, Gpu!Vocab
  <2>4. ASSUME NEW n, Gpu!Infer(r, n) PROVE JobInv'
    <3>1. /\ gpuPc[r] = "infer" /\ UNCHANGED <<gpuRun, gpuPeers, gpuWiped>>
          /\ \/ Gpu!Touch("report", r) /\ Gpu!StageFails("infer", r)
             \/ gpuArt' = [gpuArt EXCEPT !["report"] = r, !["infer_meta"] = r] /\ Gpu!StageOK("infer", r)
      BY <2>4, Zenon DEF Gpu!Infer
    <3>2. CASE Gpu!Touch("report", r) /\ Gpu!StageFails("infer", r)
      <4>1. PICK T \in SUBSET Gpu!Artifacts : gpuArt' = [a \in Gpu!Artifacts |-> IF a \in T THEN r ELSE gpuArt[a]]
        <5>1. gpuArt' = [a \in Gpu!Artifacts |-> IF a \in {"report"} THEN r ELSE gpuArt[a]]
          BY <3>2 DEF Gpu!Touch, JobInv
        <5>2. {"report"} \in SUBSET Gpu!Artifacts
          BY DEF Gpu!Artifacts
        <5>3. QED
          BY <5>1, <5>2
      <4>2. QED
        BY <1>3, <3>1, <3>2, <4>1, StageWrites, NamesOfStages
    <3>3. CASE gpuArt' = [gpuArt EXCEPT !["report"] = r, !["infer_meta"] = r] /\ Gpu!StageOK("infer", r)
      <4>1. gpuArt' = [a \in Gpu!Artifacts |-> IF a \in {"report", "infer_meta"} THEN r ELSE gpuArt[a]]
        BY <3>3 DEF JobInv
      <4>2. Before(Gpu!After("infer")) \subseteq Before("infer") \union {"report", "infer_meta"}
        BY NextStage DEF Before
      <4>3. QED
        BY <3>1, <3>3, <4>1, <4>2, StageWrites, NamesOfStages DEF Gpu!Artifacts
    <3>4. QED
      BY <3>1, <3>2, <3>3
  <2>5. CASE Gpu!Align(r)
    <3>1. Before(Gpu!After("align")) \subseteq Before("align") \union {"alignment"}
      BY NextStage DEF Before
    <3>2. QED
      BY <2>5, <3>1, OneWrite, NamesOfStages DEF Gpu!Artifacts, Gpu!Align
  <2>6. CASE Gpu!Objects(r)
    <3>1. Before(Gpu!After("objects")) \subseteq Before("objects") \union {"scene_objects"}
      BY NextStage DEF Before
    <3>2. QED
      BY <2>6, <3>1, OneWrite, NamesOfStages DEF Gpu!Artifacts, Gpu!Objects
  <2>7. CASE Gpu!Occupancy(r)
    <3>1. Before(Gpu!After("occupancy")) \subseteq Before("occupancy") \union {"occupancy"}
      BY NextStage DEF Before
    <3>2. QED
      BY <2>7, <3>1, OneWrite, NamesOfStages DEF Gpu!Artifacts, Gpu!Occupancy
  <2>8. CASE Gpu!ExportGlb(r)
    <3>1. Before(Gpu!After("export_glb")) \subseteq Before("export_glb") \union {"glb"}
      BY NextStage DEF Before, Gpu!Artifacts
    <3>2. QED
      BY <2>8, <3>1, OneWrite, NamesOfStages DEF Gpu!Artifacts, Gpu!ExportGlb
  <2>9. ASSUME NEW stage \in Gpu!Stages, Gpu!Dies(stage, r) PROVE JobInv'
    <3>1. PICK T \in SUBSET Gpu!Artifacts : gpuArt' = [a \in Gpu!Artifacts |-> IF a \in T THEN r ELSE gpuArt[a]]
      <4>1. gpuArt' = [a \in Gpu!Artifacts |-> IF a \in {} THEN r ELSE gpuArt[a]]
        BY <2>9 DEF Gpu!Dies, JobInv
      <4>2. {} \in SUBSET Gpu!Artifacts
        OBVIOUS
      <4>3. QED
        BY <4>1, <4>2, Zenon
    <3>2. QED
      BY <1>3, <2>9, <3>1, StageWrites DEF Gpu!Dies
  <2>10. CASE Gpu!Finalize(r) \/ Gpu!SaysDone(r) \/ Gpu!RemovesSecret(r)
    <3>1. PICK T \in {{}, {"result"}} : gpuArt' = [a \in Gpu!Artifacts |-> IF a \in T THEN r ELSE gpuArt[a]]
      <4>1. CASE Gpu!Finalize(r) /\ Gpu!Touch("result", r)
        BY <4>1 DEF Gpu!Touch, JobInv
      <4>2. CASE UNCHANGED gpuArt
        BY <4>2 DEF JobInv
      <4>3. QED
        BY <2>10, <4>1, <4>2 DEF Gpu!Finalize, Gpu!SaysDone, Gpu!RemovesSecret
    <3>2. \/ gpuPc[r] = "finalize" /\ Moves(r, "done")
          \/ gpuPc[r] = "done" /\ Moves(r, "secret")
          \/ gpuPc[r] = "secret" /\ Moves(r, "gone")
      BY <2>10 DEF Gpu!Finalize, Gpu!SaysDone, Gpu!RemovesSecret, Gpu!Goes, Gpu!WriteStatus, Moves
    <3>3. /\ Before("finalize") = Gpu!Artifacts \ {"result"} /\ Before("done") = Gpu!Artifacts \ {"result"}
          /\ Before("secret") = Gpu!Artifacts \ {"result"} /\ Before("gone") = {}
      BY DEF Before
    <3>4. CASE gpuPc[r] = "finalize" /\ Moves(r, "done")
      BY <3>1, <3>3, <3>4, Writes
    <3>5. CASE gpuPc[r] = "done" /\ Moves(r, "secret")
      BY <3>1, <3>3, <3>5, Writes
    <3>6. CASE gpuPc[r] = "secret" /\ Moves(r, "gone")
      BY <3>1, <3>3, <3>6, Writes
    <3>7. QED
      BY <3>2, <3>4, <3>5, <3>6
  <2>11. QED
    BY <1>3, <2>1, <2>2, <2>3, <2>4, <2>5, <2>6, <2>7, <2>8, <2>9, <2>10 DEF Gpu!Pipeline
<1>4. CASE Gpu!Cleanup
  <2>1. Gpu!Live' = Gpu!Live /\ Gpu!Live \subseteq gpuWiped' /\ gpuStatus'.state # "done"
    BY <1>4 DEF Gpu!Cleanup, Gpu!Live
  <2>2. CrewInv'
    BY <1>4, <2>1 DEF Gpu!Cleanup, JobInv, CrewInv
  <2>3. \A r \in Gpu!Live' : \A a \in Before(gpuPc'[r]) : Fresh(a, r)'
    BY <1>4, <2>1 DEF Gpu!Cleanup, Fresh, Before, Gpu!Artifacts
  <2>4. QED
    BY <1>4, <2>1, <2>2, <2>3 DEF Gpu!Cleanup, JobInv
<1>5. CASE Gpu!RerunAlign \/ UNCHANGED gpuVars
  BY <1>5 DEF Gpu!RerunAlign, gpuVars, JobInv, CrewInv, Fresh, Gpu!Live
<1>6. QED
  BY <1>1, <1>2, <1>3, <1>4, <1>5 DEF Gpu!Next, Attempts

LEMMA StepOfGpu == [Next]_vars => [Gpu!Next]_gpuVars
  BY DEF Next, vars, gpuVars

(* Wherever the pipelines before it died in the directory, whatever they left there, and whoever
   works in it at the same time, one that says "done" shows nothing of those that were over when
   it came. *)
THEOREM DoneByOneAttempt == Spec => []DoneIsWhole
<1>1. Init => JobInv
  BY InitJobInv DEF Init
<1>2. JobInv /\ [Next]_vars => JobInv'
  BY StepOfGpu, StepJobInv
<1>3. JobInv => DoneIsWhole
  BY DEF JobInv, Fresh, DoneIsWhole, Gpu!DoneIsWhole
<1>4. QED
  BY <1>1, <1>2, <1>3, PTL DEF Spec

-----------------------------------------------------------------------------
(* Pieces of a set of cells, and the filters of the grid *)

\* What Spot chooses: the piece of S that holds c.
Piece(c, S, comp) ==
  /\ comp \in SUBSET S /\ c \in comp /\ \A d \in comp : Gpu!Around(d) \intersect S \subseteq comp
  /\ \A inner \in SUBSET comp : (c \in inner /\ inner # comp) =>
       \E d \in inner : ~(Gpu!Around(d) \intersect comp \subseteq inner)

\* One exists: what every set that the cells around its members do not leave has with c.
LEMMA SpotIsPiece == ASSUME NEW S, NEW c \in S PROVE Piece(c, S, Gpu!Spot(c, S))
<1> DEFINE Closed == {C \in SUBSET S : c \in C /\ \A d \in C : Gpu!Around(d) \intersect S \subseteq C}
           least == {x \in S : \A C \in Closed : x \in C}
<1>1. least \in SUBSET S /\ c \in least
  OBVIOUS
<1>2. \A d \in least : Gpu!Around(d) \intersect S \subseteq least
  OBVIOUS
<1>3. ASSUME NEW inner \in SUBSET least, c \in inner, inner # least
      PROVE  \E d \in inner : ~(Gpu!Around(d) \intersect least \subseteq inner)
  <2>1. SUFFICES ASSUME \A d \in inner : Gpu!Around(d) \intersect least \subseteq inner PROVE FALSE
    OBVIOUS
  <2>2. \A d \in inner : Gpu!Around(d) \intersect S \subseteq inner
    BY <1>2, <2>1
  <2>3. inner \in Closed
    BY <1>1, <1>3, <2>2
  <2>4. QED
    BY <1>3, <2>3
<1> HIDE DEF least, Closed
<1>4. Piece(c, S, least)
  BY <1>1, <1>2, <1>3 DEF Piece
<1>5. Gpu!Spot(c, S) = CHOOSE comp \in SUBSET S : Piece(c, S, comp)
  BY DEF Gpu!Spot, Piece
<1>6. QED
  BY <1>1, <1>4, <1>5

LEMMA PiecesAgree ==
  ASSUME NEW S, NEW c \in S, NEW a, NEW b, Piece(c, S, a), Piece(c, S, b)
  PROVE  a = b
<1>1. ASSUME NEW x, NEW y, Piece(c, S, x), Piece(c, S, y) PROVE x \subseteq y
  <2>1. x \intersect y \in SUBSET x /\ c \in x \intersect y
    BY <1>1 DEF Piece
  <2>2. \A d \in x \intersect y : Gpu!Around(d) \intersect x \subseteq x \intersect y
    BY <1>1 DEF Piece
  <2>3. x \intersect y = x
    BY <1>1, <2>1, <2>2 DEF Piece
  <2>4. QED
    BY <2>3
<1>2. QED
  BY <1>1

LEMMA AroundIsMutual ==
  ASSUME NEW c \in Int \X Int, NEW d \in Int \X Int, d \in Gpu!Around(c)
  PROVE  c \in Gpu!Around(d)
<1>1. d[1] \in c[1] - 1 .. c[1] + 1 /\ d[2] \in c[2] - 1 .. c[2] + 1
  BY DEF Gpu!Around
<1>2. c[1] \in d[1] - 1 .. d[1] + 1 /\ c[2] \in d[2] - 1 .. d[2] + 1
  BY <1>1
<1>3. QED
  BY <1>2 DEF Gpu!Around

\* Taking whole pieces away leaves the others as they are.
LEMMA OthersStay ==
  ASSUME NEW S \in SUBSET (Int \X Int), NEW gone \in SUBSET Gpu!Components(S),
         NEW comp \in Gpu!Components(S \ UNION gone)
  PROVE  comp \in Gpu!Components(S) \ gone
<1> DEFINE T == S \ UNION gone
<1>1. PICK c \in T : comp = Gpu!Spot(c, T)
  BY DEF Gpu!Components
<1>2. c \in S /\ \A B \in gone : c \notin B
  BY <1>1
<1> DEFINE D == Gpu!Spot(c, S)
<1>3. Piece(c, S, D) /\ D \in Gpu!Components(S)
  BY <1>2, SpotIsPiece DEF Gpu!Components
<1>4. Piece(c, T, comp)
  BY <1>1, SpotIsPiece
<1>5. D \notin gone
  BY <1>2, <1>3 DEF Piece
<1> HIDE DEF D
<1>6. ASSUME NEW B \in gone, NEW x \in D \intersect B PROVE FALSE
  <2>1. PICK b \in S : B = Gpu!Spot(b, S)
    BY <1>6 DEF Gpu!Components
  <2>2. Piece(b, S, B)
    BY <2>1, SpotIsPiece
  <2>3. D \ B \in SUBSET D /\ c \in D \ B /\ D \ B # D
    BY <1>2, <1>3, <1>6 DEF Piece
  <2>4. PICK d \in D \ B : ~(Gpu!Around(d) \intersect D \subseteq D \ B)
    BY <1>3, <2>3 DEF Piece
  <2>5. PICK y \in D \intersect B : y \in Gpu!Around(d)
    BY <2>4
  <2>6. d \in S /\ y \in S
    BY <1>3 DEF Piece
  <2>7. d \in Gpu!Around(y)
    BY <2>5, <2>6, AroundIsMutual
  <2>8. d \in B
    BY <2>2, <2>5, <2>6, <2>7 DEF Piece
  <2>9. QED
    BY <2>8
<1>7. D \in SUBSET T
  BY <1>3, <1>6 DEF Piece
<1>8. Piece(c, T, D)
  BY <1>3, <1>7 DEF Piece
<1>9. comp = D
  BY <1>1, <1>4, <1>8, PiecesAgree
<1>10. QED
  BY <1>3, <1>5, <1>9

\* An obstacle that enough views saw, in a piece that is large enough or touches an object.
Witnessed(g) ==
  \A comp \in Gpu!Components(Gpu!Obstacles(g)) :
    /\ ~\E c \in comp : Gpu!ViewCount(c) < MinViews
    /\ Gpu!Cardinality(comp) < MinCluster =>
         \E o \in gpuObjects : comp \intersect Gpu!ObjectFootprintMask(o, g) # {}

LEMMA DemotedObstacles ==
  ASSUME NEW g, NEW cells
  PROVE  /\ Gpu!Obstacles(Gpu!Demote(g, cells)) = Gpu!Obstacles(g) \ cells
         /\ DOMAIN Gpu!Demote(g, cells) = DOMAIN g
  BY DEF Gpu!Obstacles, Gpu!Demote

\* A mask knows a grid by its cells only.
LEMMA MaskOfCells ==
  ASSUME NEW o, NEW g, NEW h, DOMAIN g = DOMAIN h
  PROVE  Gpu!ObjectFootprintMask(o, g) = Gpu!ObjectFootprintMask(o, h)
  BY DEF Gpu!ObjectFootprintMask

LEMMA PhantomsGone ==
  ASSUME NEW g, DOMAIN g \subseteq Int \X Int PROVE Witnessed(Gpu!ClassifyPhantoms(g))
<1> DEFINE unseen == {c \in Gpu!Obstacles(g) : Gpu!ViewCount(c) < MinViews}
           S == Gpu!Obstacles(g) \ unseen
           seen == Gpu!FilterByViewSupport(g)
           protected == UNION {Gpu!ObjectFootprintMask(o, seen) : o \in gpuObjects}
           gone == {comp \in Gpu!Components(S) :
                      Gpu!Cardinality(comp) < MinCluster /\ comp \intersect protected = {}}
<1>1. Gpu!Obstacles(seen) = S
  BY DemotedObstacles DEF Gpu!FilterByViewSupport
<1>2. Gpu!Obstacles(Gpu!ClassifyPhantoms(g)) = S \ UNION gone /\ DOMAIN Gpu!ClassifyPhantoms(g) = DOMAIN seen
  BY <1>1, DemotedObstacles DEF Gpu!ClassifyPhantoms, Gpu!FilterSmallClusters
<1>3. S \in SUBSET (Int \X Int) /\ \A c \in S : ~(Gpu!ViewCount(c) < MinViews)
  BY DEF Gpu!Obstacles
<1>4. gone \in SUBSET Gpu!Components(S)
  OBVIOUS
<1> HIDE DEF S, seen
<1>5. ASSUME NEW comp \in Gpu!Components(S \ UNION gone)
      PROVE  /\ ~\E c \in comp : Gpu!ViewCount(c) < MinViews
             /\ Gpu!Cardinality(comp) < MinCluster =>
                  \E o \in gpuObjects : comp \intersect Gpu!ObjectFootprintMask(o, seen) # {}
  <2>1. comp \in Gpu!Components(S) \ gone
    BY <1>3, <1>4, <1>5, OthersStay
  <2>2. PICK c \in S : comp = Gpu!Spot(c, S)
    BY <2>1 DEF Gpu!Components
  <2>3. comp \subseteq S
    BY <2>2, SpotIsPiece DEF Piece
  <2>4. Gpu!Cardinality(comp) < MinCluster => comp \intersect protected # {}
    BY <2>1
  <2>5. QED
    BY <1>3, <2>3, <2>4
<1> HIDE DEF gone
<1>6. QED
  BY <1>2, <1>5, MaskOfCells DEF Witnessed

LEMMA GridOnCells == ASSUME NEW points PROVE DOMAIN Gpu!RawGrid(points) \subseteq Int \X Int
<1>1. \A a, b : a .. b \subseteq Int
  OBVIOUS
<1>2. Gpu!BoxOf(Gpu!Cells(points)) \subseteq Int \X Int
  BY <1>1 DEF Gpu!BoxOf
<1>3. QED
  BY <1>2 DEF Gpu!RawGrid

\* A pipeline alone filters its grid once, and nothing the grid was filtered by changes before it
\* says "done", nor after.
GridInv ==
  /\ CrewInv
  /\ gpuRun \in Attempts /\ Gpu!Alone(gpuRun) /\ gpuPc[gpuRun] \in {"export_glb", "finalize", "done", "secret"} =>
       (gpuTake.filter => Witnessed(gpuGrid))
  /\ gpuStatus.state = "done" /\ Gpu!Alone(gpuStatus.run) => (gpuTake.filter => Witnessed(gpuGrid))

LEMMA InitGridInv == Gpu!Init => GridInv
<1>1. Gpu!Init => CrewInv
  BY InitJobInv DEF JobInv
<1>2. Gpu!Init => gpuRun \notin Attempts
  BY DEF Gpu!Init, Attempts
<1>3. QED
  BY <1>1, <1>2 DEF Gpu!Init, GridInv

\* What a step leaves of the files the grid was judged by.
LEMMA WitnessedStays ==
  ASSUME UNCHANGED <<gpuGrid, gpuViews, gpuXform, gpuObjects>>
  PROVE  Witnessed(gpuGrid)' = Witnessed(gpuGrid)
  BY DEF Witnessed, Gpu!ViewCount, Gpu!Aligned

\* Who moves beside nobody is the last one that came.
LEMMA AloneMoves ==
  ASSUME CrewInv, NEW r, NEW to, Moves(r, to)
  PROVE  /\ CrewInv' /\ \A q : Gpu!Alone(q)' <=> Gpu!Alone(q)
         /\ \A q \in Attempts : Gpu!Alone(q) => r = q
         /\ gpuPc'[r] = to
         /\ gpuStatus.state = "done" /\ Gpu!Alone(gpuStatus.run) => gpuPc[r] = "secret"
<1>1. r \in Gpu!Live /\ r \in Attempts /\ r <= gpuRun /\ CrewInv' /\ gpuPc'[r] = to
  BY CrewMoves DEF Moves, Gpu!Live, CrewInv, Attempts
<1>2. \A q : Gpu!Alone(q)' <=> Gpu!Alone(q)
  BY DEF Gpu!Alone, Moves
<1>3. ASSUME NEW q \in Attempts, Gpu!Alone(q) PROVE r = q
  BY <1>1, <1>3 DEF Gpu!Alone, CrewInv, Attempts
<1>4. ASSUME gpuStatus.state = "done", Gpu!Alone(gpuStatus.run) PROVE gpuPc[r] = "secret"
  BY <1>1, <1>3, <1>4 DEF CrewInv, Gpu!Live
<1>5. QED
  BY <1>1, <1>2, <1>3, <1>4

\* A stage before the last grid: nobody alone has one that is done.
LEMMA EarlyStage ==
  ASSUME GridInv, NEW r, NEW to, Moves(r, to), gpuPc[r] # "secret", gpuPc[r] # "done",
         to \notin {"export_glb", "finalize", "done", "secret"}
  PROVE  GridInv'
<1>1. /\ CrewInv' /\ \A q : Gpu!Alone(q)' <=> Gpu!Alone(q)
      /\ \A q \in Attempts : Gpu!Alone(q) => r = q
      /\ gpuPc'[r] = to
      /\ gpuStatus.state = "done" /\ Gpu!Alone(gpuStatus.run) => gpuPc[r] = "secret"
  BY AloneMoves DEF GridInv
<1>2. ~(Gpu!Alone(gpuRun)' /\ gpuPc'[gpuRun'] \in {"export_glb", "finalize", "done", "secret"})
  <2>1. SUFFICES ASSUME Gpu!Alone(gpuRun) PROVE gpuPc'[gpuRun] \notin {"export_glb", "finalize", "done", "secret"}
    BY <1>1 DEF Moves
  <2>2. gpuRun \in Attempts => gpuRun = r
    BY <1>1, <2>1
  <2>3. r \in Attempts /\ r <= gpuRun
    BY DEF Moves, GridInv, CrewInv
  <2>4. r \in Gpu!Live
    BY DEF Moves, Gpu!Live, Attempts
  <2>5. r \in gpuPeers[gpuRun] \/ gpuRun \notin Attempts
    BY <2>2, <2>3, <2>4 DEF GridInv, CrewInv, Attempts
  <2>6. gpuRun \in Attempts
    BY <2>3 DEF GridInv, CrewInv, Attempts
  <2>7. QED
    BY <1>1, <2>2, <2>6
<1>3. ~(gpuStatus'.state = "done" /\ Gpu!Alone(gpuStatus.run)')
  BY <1>1 DEF Moves
<1>4. QED
  BY <1>1, <1>2, <1>3 DEF GridInv

LEMMA LateStage ==
  ASSUME GridInv, NEW r, NEW to, Moves(r, to), gpuPc[r] \in {"export_glb", "finalize", "done", "secret"},
         UNCHANGED <<gpuTake, gpuGrid, gpuViews, gpuXform, gpuObjects>>
  PROVE  GridInv'
<1>1. /\ CrewInv' /\ \A q : Gpu!Alone(q)' <=> Gpu!Alone(q)
      /\ \A q \in Attempts : Gpu!Alone(q) => r = q
      /\ gpuPc'[r] = to
      /\ gpuStatus.state = "done" /\ Gpu!Alone(gpuStatus.run) => gpuPc[r] = "secret"
  BY AloneMoves DEF GridInv
<1>2. Witnessed(gpuGrid)' = Witnessed(gpuGrid)
  BY WitnessedStays
<1>3. ASSUME Gpu!Alone(gpuRun), gpuRun \in Attempts, gpuTake.filter PROVE Witnessed(gpuGrid)
  <2>1. r = gpuRun
    BY <1>1, <1>3
  <2>2. QED
    BY <1>3, <2>1 DEF GridInv
<1>4. gpuRun \in Attempts
  <2>1. r \in Attempts /\ r <= gpuRun
    BY DEF Moves, GridInv, CrewInv
  <2>2. QED
    BY <2>1 DEF GridInv, CrewInv, Attempts
<1>5. gpuStatus'.state = "done" /\ Gpu!Alone(gpuStatus.run)' => Gpu!Alone(gpuRun)
  BY <1>1 DEF Gpu!Alone
<1>6. QED
  BY <1>1, <1>2, <1>3, <1>4, <1>5 DEF GridInv, Moves

\* A stage that fails, or goes on before the grid is filtered.
LEMMA StageKeepsGrid ==
  ASSUME GridInv, NEW r \in Attempts, NEW stage \in Gpu!Stages, gpuPc[r] = stage,
         UNCHANGED <<gpuRun, gpuPeers, gpuWiped>>,
         \/ Gpu!StageFails(stage, r)
         \/ stage \in {"keyframes", "vocab", "infer", "align", "objects"} /\ Gpu!StageOK(stage, r)
  PROVE  GridInv'
<1>1. stage \notin {"secret", "done"}
  <2>1. \A i \in 1 .. 7 : Gpu!StageOrder[i] \notin {"secret", "done"}
    BY DEF Gpu!StageOrder
  <2>2. QED
    BY <2>1 DEF Gpu!Stages
<1>2. Moves(r, "gone") \/ (stage \in {"keyframes", "vocab", "infer", "align", "objects"} /\ Moves(r, Gpu!After(stage)))
  BY StageSteps DEF GridInv
<1>3. QED
  BY <1>1, <1>2, EarlyStage, NextStage

LEMMA JoinKeepsGrid == ASSUME GridInv, Gpu!Joins, UNCHANGED gpuStatus PROVE GridInv'
<1>1. CrewInv' /\ gpuPc'[gpuRun + 1] = "start" /\ gpuRun' = gpuRun + 1
  BY CrewJoins DEF GridInv, Gpu!Joins
<1>2. ~(gpuStatus'.state = "done" /\ Gpu!Alone(gpuStatus.run)')
  <2>1. SUFFICES ASSUME gpuStatus.state = "done" PROVE gpuStatus.run # gpuRun + 1
    BY <1>1 DEF Gpu!Alone
  <2>2. gpuStatus.run \in Attempts /\ gpuStatus.run <= gpuRun /\ gpuRun \in Nat
    BY <2>1 DEF GridInv, CrewInv
  <2>3. QED
    BY <2>2 DEF Attempts
<1>3. QED
  BY <1>1, <1>2 DEF GridInv

LEMMA StepGridInv == ASSUME GridInv, [Gpu!Next]_gpuVars PROVE GridInv'
<1> USE DEF Gpu!crew
<1>1. ASSUME NEW t \in Takes, Gpu!PushJob(t) PROVE GridInv'
  BY <1>1, JoinKeepsGrid DEF Gpu!PushJob
<1>2. CASE Gpu!StartAgain
  BY <1>2, JoinKeepsGrid DEF Gpu!StartAgain
<1>3. ASSUME NEW r \in Attempts, Gpu!Pipeline(r) PROVE GridInv'
  <2>1. CASE Gpu!StartPipeline(r) \/ Gpu!StartLost(r)
    <3>1. Moves(r, "keyframes") \/ Moves(r, "gone")
      BY <2>1 DEF Gpu!StartPipeline, Gpu!StartLost, Gpu!Goes, Gpu!WriteStatus, Moves
    <3>2. gpuPc[r] = "start"
      BY <2>1 DEF Gpu!StartPipeline, Gpu!StartLost
    <3>3. QED
      BY <3>1, <3>2, EarlyStage
  <2>2. CASE Gpu!Keyframes(r)
    <3>1. Gpu!StageFails("keyframes", r) \/ Gpu!StageOK("keyframes", r)
      BY <2>2 DEF Gpu!Keyframes
    <3>2. gpuPc[r] = "keyframes" /\ UNCHANGED <<gpuRun, gpuPeers, gpuWiped>>
      BY <2>2 DEF Gpu!Keyframes
    <3>3. QED
      BY <3>1, <3>2, StageKeepsGrid, NamesOfStages
  <2>3. CASE Gpu!Vocab(r)
    BY <2>3, StageKeepsGrid, NamesOfStages DEF Gpu!Vocab
  <2>4. ASSUME NEW n, Gpu!Infer(r, n) PROVE GridInv'
    <3>1. /\ gpuPc[r] = "infer" /\ UNCHANGED <<gpuRun, gpuPeers, gpuWiped>>
          /\ Gpu!StageFails("infer", r) \/ Gpu!StageOK("infer", r)
      BY <2>4, Zenon DEF Gpu!Infer
    <3>2. QED
      BY <3>1, StageKeepsGrid, NamesOfStages
  <2>5. CASE Gpu!Align(r)
    BY <2>5, StageKeepsGrid, NamesOfStages DEF Gpu!Align
  <2>6. CASE Gpu!Objects(r)
    BY <2>6, StageKeepsGrid, NamesOfStages DEF Gpu!Objects
  <2>7. CASE Gpu!Occupancy(r)
    <3>1. gpuPc[r] = "occupancy" /\ UNCHANGED <<gpuRun, gpuPeers, gpuWiped>>
      BY <2>7 DEF Gpu!Occupancy
    <3>2. CASE Gpu!StageFails("occupancy", r)
      BY <3>1, <3>2, StageKeepsGrid, NamesOfStages
    <3>3. CASE ~Gpu!StageFails("occupancy", r)
      <4>1. /\ Gpu!StageOK("occupancy", r) /\ UNCHANGED <<gpuTake, gpuViews, gpuXform, gpuObjects>>
            /\ gpuTake.filter => gpuGrid' = Gpu!ClassifyPhantoms(Gpu!RawGrid(gpuCloud))
        BY <2>7, <3>3 DEF Gpu!Occupancy
      <4>2. Moves(r, "export_glb")
        <5>1. gpuPc' = [gpuPc EXCEPT ![r] = "export_glb"] /\ Gpu!WriteStatus("running", r)
          BY <3>3, <4>1, NextStage DEF Gpu!StageOK, Gpu!Goes
        <5>2. QED
          BY <1>3, <3>1, <5>1 DEF Gpu!WriteStatus, Moves
      <4>3. /\ CrewInv' /\ \A q : Gpu!Alone(q)' <=> Gpu!Alone(q)
            /\ gpuStatus.state = "done" /\ Gpu!Alone(gpuStatus.run) => gpuPc[r] = "secret"
        BY <4>2, AloneMoves DEF GridInv
      <4>4. ~(gpuStatus'.state = "done" /\ Gpu!Alone(gpuStatus.run)')
        BY <3>1, <4>2, <4>3 DEF Moves
      <4>5. ASSUME gpuTake.filter PROVE Witnessed(gpuGrid)'
        <5>1. Witnessed(Gpu!ClassifyPhantoms(Gpu!RawGrid(gpuCloud)))
          BY GridOnCells, PhantomsGone
        <5>2. QED
          BY <4>1, <4>5, <5>1 DEF Witnessed, Gpu!ViewCount, Gpu!Aligned
      <4>6. QED
        BY <4>1, <4>3, <4>4, <4>5 DEF GridInv
    <3>4. QED
      BY <3>2, <3>3
  <2>8. CASE Gpu!ExportGlb(r)
    <3>1. Moves(r, "finalize")
      <4>1. gpuPc' = [gpuPc EXCEPT ![r] = "finalize"] /\ Gpu!WriteStatus("running", r)
        BY <2>8, NextStage DEF Gpu!ExportGlb, Gpu!StageOK, Gpu!Goes
      <4>2. QED
        BY <1>3, <2>8, <4>1 DEF Gpu!ExportGlb, Gpu!WriteStatus, Moves
    <3>2. QED
      BY <2>8, <3>1, LateStage DEF Gpu!ExportGlb
  <2>9. ASSUME NEW stage \in Gpu!Stages, Gpu!Dies(stage, r) PROVE GridInv'
    BY <1>3, <2>9, StageKeepsGrid DEF Gpu!Dies
  <2>10. CASE Gpu!Finalize(r) \/ Gpu!SaysDone(r) \/ Gpu!RemovesSecret(r)
    <3>1. /\ gpuPc[r] \in {"finalize", "done", "secret"}
          /\ Moves(r, "done") \/ Moves(r, "secret") \/ Moves(r, "gone")
      BY <1>3, <2>10 DEF Gpu!Finalize, Gpu!SaysDone, Gpu!RemovesSecret, Gpu!Goes, Gpu!WriteStatus, Moves
    <3>2. UNCHANGED <<gpuTake, gpuGrid, gpuViews, gpuXform, gpuObjects>>
      BY <2>10 DEF Gpu!Finalize, Gpu!SaysDone, Gpu!RemovesSecret
    <3>3. QED
      BY <3>1, <3>2, LateStage
  <2>11. QED
    BY <1>3, <2>1, <2>2, <2>3, <2>4, <2>5, <2>6, <2>7, <2>8, <2>9, <2>10 DEF Gpu!Pipeline
<1>4. CASE Gpu!Cleanup
  <2>1. CrewInv' /\ gpuStatus'.state # "done"
    BY <1>4 DEF Gpu!Cleanup, GridInv, CrewInv, Gpu!Live
  <2>2. ASSUME gpuPc'[gpuRun'] \in {"export_glb", "finalize", "done", "secret"} PROVE ~Gpu!Alone(gpuRun)'
    <3>1. gpuRun \in Attempts
      BY <1>4 DEF Gpu!Cleanup, GridInv, CrewInv, Attempts
    <3>2. gpuRun \in Gpu!Live
      BY <1>4, <2>2, <3>1 DEF Gpu!Cleanup, Gpu!Live, Attempts
    <3>3. QED
      BY <1>4, <3>2 DEF Gpu!Cleanup, Gpu!Alone
  <2>3. QED
    BY <2>1, <2>2 DEF GridInv
<1>5. CASE Gpu!RerunAlign \/ UNCHANGED gpuVars
  <2>1. UNCHANGED <<gpuRun, gpuPc, gpuPeers, gpuWiped, gpuStatus, gpuTake, gpuGrid, gpuViews, gpuXform, gpuObjects>>
    BY <1>5 DEF Gpu!RerunAlign, gpuVars
  <2>2. Witnessed(gpuGrid)' = Witnessed(gpuGrid) /\ CrewInv'
    BY <2>1, WitnessedStays DEF GridInv, CrewInv, Gpu!Live
  <2>3. QED
    BY <2>1, <2>2 DEF GridInv, Gpu!Alone
<1>6. QED
  BY <1>1, <1>2, <1>3, <1>4, <1>5 DEF Gpu!Next, Attempts

(* Whatever the models return and whatever earlier attempts left in the directory, the grid of a
   job that is done, and that nobody disturbed, shows no obstacle that too few views saw, and no
   piece of obstacles that is neither large enough nor at the footprint the filter protects:
   thinning the pieces by view makes no new small ones that the second filter misses. *)
THEOREM NoPhantomLeft == Spec => []ObstaclesAreWitnessed
<1>1. Init => GridInv
  BY InitGridInv DEF Init
<1>2. GridInv /\ [Next]_vars => GridInv'
  BY StepOfGpu, StepGridInv
<1>3. GridInv => ObstaclesAreWitnessed
  BY DEF GridInv, Witnessed, ObstaclesAreWitnessed, Gpu!ObstaclesAreWitnessed
<1>4. QED
  BY <1>1, <1>2, <1>3, PTL DEF Spec

-----------------------------------------------------------------------------
(* The nightly batch *)

Video == [project : Projects, onDisk : BOOLEAN]
Batch(b) ==
  /\ b = [todo |-> b.todo, video |-> b.video, results |-> b.results, retain |-> b.retain]
  /\ DOMAIN b.todo \subseteq Projects
  /\ \A p \in DOMAIN b.todo : b.todo[p].project = p

NightTyped ==
  /\ nightVideos \in Seq(Video) /\ Len(nightVideos) >= Cardinality(Projects)
  /\ nightFresh \in [Projects -> Nat]
  /\ nightBatch # None => Batch(nightBatch)

\* The batch will still upload this project: it has no video to resume from, and its turn has
\* not come to an upload.
Owes(p) ==
  /\ nightBatch # None /\ p \in DOMAIN nightBatch.todo /\ nightBatch.todo[p].existing = None
  /\ nightBatch.video # None => nightBatch.todo[Night!Min(DOMAIN nightBatch.todo)].project # p
Owed(p) == IF Owes(p) THEN 1 ELSE 0

\* The jobs of the night and the one that is still to come were all begun without an entry.
NightInv == NightTyped /\ \A p \in Projects : Cardinality(Night!Nightly(p)) + Owed(p) <= nightFresh[p]

LEMMA NightCardinality == \A S : Night!Cardinality(S) = Cardinality(S)
  BY DEF Night!Cardinality, Cardinality

LEMMA ProjectsCounted == Cardinality(Projects) \in Nat /\ Projects \subseteq Nat
  BY ProjectsAssumption, FS_CardinalityType

LEMMA NightlyFinite ==
  ASSUME nightVideos \in Seq(Video), NEW p
  PROVE  IsFiniteSet(Night!Nightly(p)) /\ Cardinality(Night!Nightly(p)) \in Nat
<1>1. IsFiniteSet(1 .. Len(nightVideos))
  BY FS_Interval
<1>2. Night!Nightly(p) \subseteq 1 .. Len(nightVideos)
  BY DEF Night!Nightly
<1>3. QED
  BY <1>1, <1>2, FS_Subset, FS_CardinalityType

LEMMA LeastProject ==
  ASSUME NEW D \in SUBSET Projects, D # {}
  PROVE  Night!Min(D) \in D
<1>1. D \subseteq Nat
  BY ProjectsCounted
<1>2. \E m \in D : \A n \in D : ~(<<n, m>> \in OpToRel(<, Nat))
  BY <1>1, NatLessThanWellFounded, WFMin
<1>3. \E m \in D : \A n \in D : m <= n
  <2>1. PICK m \in D : \A n \in D : ~(<<n, m>> \in OpToRel(<, Nat))
    BY <1>2
  <2>2. ASSUME NEW n \in D PROVE m <= n
    <3>1. m \in Nat /\ n \in Nat
      BY <1>1
    <3>2. ~(n < m)
      BY <2>1, <3>1 DEF OpToRel
    <3>3. QED
      BY <3>1, <3>2
  <2>3. QED
    BY <2>2
<1>4. QED
  BY <1>3 DEF Night!Min

LEMMA InitNightInv == Night!Init => NightInv
<1> SUFFICES ASSUME Night!Init PROVE NightInv
  OBVIOUS
<1> DEFINE n == Cardinality(Projects)
<1>1. n \in Nat
  BY ProjectsCounted
<1>2. nightVideos = [p \in 1 .. n |-> [project |-> p, onDisk |-> OnDisk[p]]]
  BY NightCardinality DEF Night!Init
<1>3. Projects = 1 .. n /\ \A p \in 1 .. n : OnDisk[p] \in BOOLEAN
  BY ProjectsAssumption
<1> HIDE DEF n
<1>4. nightVideos \in Seq(Video) /\ Len(nightVideos) = n
  BY <1>1, <1>2, <1>3 DEF Video
<1>5. nightBatch = None /\ nightFresh = [p \in Projects |-> 0]
  BY DEF Night!Init
<1>6. NightTyped
  BY <1>1, <1>4, <1>5 DEF NightTyped, n
<1>7. ASSUME NEW p \in Projects PROVE Cardinality(Night!Nightly(p)) + Owed(p) <= nightFresh[p]
  <2>1. Night!Nightly(p) = {}
    BY <1>1, <1>4, NightCardinality DEF Night!Nightly, n
  <2>2. Cardinality(Night!Nightly(p)) = 0
    BY <2>1, FS_EmptySet
  <2>3. QED
    BY <1>5, <2>2 DEF Owed, Owes
<1>8. QED
  BY <1>6, <1>7 DEF NightInv

\* A batch that starts owes a project only what it also counts.
LEMMA StartBatchKeeps ==
  ASSUME NightInv, NEW map, NEW only, NEW env, Night!StartBatch(map, only, env)
  PROVE  NightInv'
<1> DEFINE found == Night!DiscoverRegressionScenes(only)
           b == [todo |-> [p \in found |-> Night!Spec(p, map)], video |-> None, results |-> <<>>,
                 retain |-> Night!DetectRetain(env)]
<1>1. found \subseteq Projects
  BY DEF Night!DiscoverRegressionScenes
<1>2. nightVideos' = nightVideos /\ nightBatch = None
  BY DEF Night!StartBatch
<1>3. \A p : Night!Nightly(p)' = Night!Nightly(p)
  BY <1>2 DEF Night!Nightly
<1>4. CASE found = {}
  <2>1. nightBatch' = nightBatch /\ nightFresh' = nightFresh
    BY <1>4 DEF Night!StartBatch
  <2>2. QED
    BY <1>2, <1>3, <2>1 DEF NightInv, NightTyped, Owed, Owes
<1>5. CASE found # {}
  <2>1. /\ nightBatch' = b
        /\ nightFresh' = [p \in Projects |-> IF p \in found /\ p \notin DOMAIN map
                                             THEN nightFresh[p] + 1 ELSE nightFresh[p]]
    BY <1>5 DEF Night!StartBatch
  <2>2. Batch(b)
    BY <1>1 DEF Batch, Night!Spec
  <2>3. NightTyped'
    <3>1. nightFresh' \in [Projects -> Nat]
      BY <2>1 DEF NightInv, NightTyped
    <3>2. nightBatch' # None => Batch(nightBatch')
      BY <2>1, <2>2
    <3>3. QED
      BY <1>2, <3>1, <3>2 DEF NightInv, NightTyped, Batch
  <2>4. ASSUME NEW p \in Projects
        PROVE  (Cardinality(Night!Nightly(p)) + Owed(p) <= nightFresh[p])'
    <3>1. Cardinality(Night!Nightly(p)) \in Nat /\ nightFresh[p] \in Nat
      BY NightlyFinite DEF NightInv, NightTyped
    <3>2. Owed(p) = 0
      BY <1>2 DEF Owed, Owes
    <3>3. Cardinality(Night!Nightly(p)) <= nightFresh[p]
      BY <3>1, <3>2 DEF NightInv
    <3>4. CASE p \in found /\ p \notin DOMAIN map
      BY <1>3, <2>1, <3>1, <3>3, <3>4 DEF Owed
    <3>5. CASE p \in found /\ p \in DOMAIN map
      <4>1. map[p] # None
        <5>1. map[p] \in DOMAIN nightVideos
          BY <3>5 DEF Night!StartBatch, Night!Nightly
        <5>2. DOMAIN nightVideos \subseteq Nat
          BY DEF NightInv, NightTyped
        <5>3. QED
          BY <5>1, <5>2, NoneAssumption
      <4>2. b.todo[p].existing = map[p]
        BY <3>5 DEF Night!Spec
      <4>3. ~Owes(p)'
        BY <2>1, <4>1, <4>2 DEF Owes
      <4>4. QED
        BY <1>3, <2>1, <3>1, <3>3, <3>5, <4>3 DEF Owed
    <3>6. CASE p \notin found
      <4>1. ~Owes(p)'
        BY <2>1, <3>6 DEF Owes
      <4>2. QED
        BY <1>3, <2>1, <3>1, <3>3, <3>6, <4>1 DEF Owed
    <3>7. QED
      BY <3>4, <3>5, <3>6
  <2>5. QED
    BY <2>3, <2>4 DEF NightInv
<1>6. QED
  BY <1>4, <1>5

\* Where the batch stands: the project at hand is one of those still to do.
LEMMA AtHand ==
  ASSUME NightTyped, Night!Busy
  PROVE  /\ Night!Cur.project \in DOMAIN nightBatch.todo
         /\ Night!Cur.project = Night!Min(DOMAIN nightBatch.todo)
         /\ Night!Cur = nightBatch.todo[Night!Cur.project]
         /\ Batch(nightBatch)
<1>1. Batch(nightBatch) /\ DOMAIN nightBatch.todo # {}
  BY DEF NightTyped, Night!Busy
<1>2. Night!Min(DOMAIN nightBatch.todo) \in DOMAIN nightBatch.todo
  BY <1>1, LeastProject DEF Batch
<1>3. QED
  BY <1>1, <1>2 DEF Batch, Night!Cur

\* With a turn over, the others are owed what they were.
LEMMA FinishOwes ==
  ASSUME NightTyped, Night!Busy, NEW result, Night!Finish(result)
  PROVE  /\ Batch(nightBatch')
         /\ \A p \in Projects : Owes(p)' => Owes(p) /\ p # Night!Cur.project
<1> DEFINE cur == Night!Cur.project
           left == [p \in DOMAIN nightBatch.todo \ {cur} |-> nightBatch.todo[p]]
<1>1. /\ cur \in DOMAIN nightBatch.todo /\ Batch(nightBatch)
      /\ nightBatch.todo[Night!Min(DOMAIN nightBatch.todo)].project = cur
  BY AtHand DEF Batch
<1>2. nightBatch' = [nightBatch EXCEPT !.todo = left, !.video = None,
                                       !.results = Append(@, result)]
  BY DEF Night!Finish
<1>3. DOMAIN left = DOMAIN nightBatch.todo \ {cur} /\ \A p \in DOMAIN left : left[p] = nightBatch.todo[p]
  OBVIOUS
<1> HIDE DEF cur, left
<1>4. nightBatch' = [todo |-> left, video |-> None, results |-> Append(nightBatch.results, result),
                     retain |-> nightBatch.retain]
  BY <1>1, <1>2 DEF Batch
<1>5. Batch(nightBatch')
  BY <1>1, <1>3, <1>4 DEF Batch
<1>6. ASSUME NEW p \in Projects, Owes(p)' PROVE Owes(p) /\ p # cur
  <2>1. p \in DOMAIN left /\ left[p].existing = None
    BY <1>4, <1>6 DEF Owes
  <2>2. nightBatch # None
    BY DEF Night!Busy
  <2>3. QED
    BY <1>1, <1>3, <2>1, <2>2 DEF Owes
<1>7. QED
  BY <1>5, <1>6 DEF cur

\* A turn that ends without an upload.
LEMMA FinishKeeps ==
  ASSUME NightInv, Night!Busy, NEW result, Night!Finish(result),
         nightVideos' = nightVideos, nightFresh' = nightFresh
  PROVE  NightInv'
<1>1. Batch(nightBatch') /\ \A p \in Projects : Owes(p)' => Owes(p)
  BY FinishOwes DEF NightInv
<1>2. NightTyped'
  BY <1>1 DEF NightInv, NightTyped, Batch
<1>3. ASSUME NEW p \in Projects PROVE (Cardinality(Night!Nightly(p)) + Owed(p) <= nightFresh[p])'
  <2>1. Cardinality(Night!Nightly(p)) \in Nat /\ nightFresh[p] \in Nat
    BY NightlyFinite DEF NightInv, NightTyped
  <2>2. Night!Nightly(p)' = Night!Nightly(p)
    BY DEF Night!Nightly
  <2>3. Cardinality(Night!Nightly(p)) + Owed(p) <= nightFresh[p]
    BY DEF NightInv
  <2>4. QED
    BY <1>1, <2>1, <2>2, <2>3 DEF Owed
<1>4. QED
  BY <1>2, <1>3 DEF NightInv

\* An upload the backend takes: the project is owed nothing more, and the job is counted.
LEMMA AcceptedKeeps ==
  ASSUME NightInv, Night!Busy, nightBatch.video = None, Night!Cur.existing = None,
         nightVideos' = Append(nightVideos, [project |-> Night!Cur.project, onDisk |-> TRUE]),
         nightFresh' = nightFresh, Batch(nightBatch'),
         \A p \in Projects : Owes(p)' => Owes(p) /\ p # Night!Cur.project
  PROVE  NightInv'
<1> DEFINE cur == Night!Cur.project
           n == Len(nightVideos)
<1>1. /\ cur \in DOMAIN nightBatch.todo /\ cur \in Projects
      /\ Night!Cur = nightBatch.todo[cur]
      /\ cur = Night!Min(DOMAIN nightBatch.todo)
  BY AtHand DEF NightInv, Batch
<1>2. nightVideos \in Seq(Video) /\ n \in Nat /\ n >= Cardinality(Projects) /\ Cardinality(Projects) \in Nat
  BY ProjectsCounted DEF NightInv, NightTyped
<1>3. [project |-> cur, onDisk |-> TRUE] \in Video
  BY <1>1 DEF Video
<1> HIDE DEF cur
<1>4. /\ nightVideos' \in Seq(Video) /\ Len(nightVideos') = n + 1
      /\ \A i \in 1 .. n : nightVideos'[i] = nightVideos[i]
      /\ nightVideos'[n + 1] = [project |-> cur, onDisk |-> TRUE]
  BY <1>2, <1>3 DEF cur
<1>5. NightTyped'
  BY <1>2, <1>4 DEF NightInv, NightTyped, Batch
<1>6. Owes(cur)
  <2>1. nightBatch # None
    BY DEF Night!Busy
  <2>2. QED
    BY <1>1, <2>1 DEF Owes, cur
<1>7. ASSUME NEW p \in Projects PROVE (Cardinality(Night!Nightly(p)) + Owed(p) <= nightFresh[p])'
  <2>1. IsFiniteSet(Night!Nightly(p)) /\ Cardinality(Night!Nightly(p)) \in Nat /\ nightFresh[p] \in Nat
    BY NightlyFinite DEF NightInv, NightTyped
  <2>2. Cardinality(Night!Nightly(p)) + Owed(p) <= nightFresh[p]
    BY DEF NightInv
  <2>3. DOMAIN nightVideos = 1 .. n /\ DOMAIN nightVideos' = 1 .. (n + 1)
    BY <1>2, <1>4
  <2>4. CASE p = cur
    <3>1. Night!Nightly(p)' = Night!Nightly(p) \cup {n + 1} /\ n + 1 \notin Night!Nightly(p)
      BY <1>2, <1>4, <2>3, <2>4, NightCardinality DEF Night!Nightly
    <3>2. Cardinality(Night!Nightly(p)') = Cardinality(Night!Nightly(p)) + 1
      BY <2>1, <3>1, FS_AddElement
    <3>3. Owed(p) = 1 /\ Owed(p)' = 0
      BY <1>6, <2>4 DEF Owed, cur
    <3>4. QED
      BY <2>1, <2>2, <3>2, <3>3
  <2>5. CASE p # cur
    <3>1. Night!Nightly(p)' = Night!Nightly(p)
      BY <1>2, <1>4, <2>3, <2>5 DEF Night!Nightly
    <3>2. Owed(p)' <= Owed(p) /\ Owed(p) \in Nat /\ Owed(p)' \in Nat
      BY DEF Owed
    <3>3. QED
      BY <2>1, <2>2, <3>1, <3>2
  <2>6. QED
    BY <2>4, <2>5
<1>8. QED
  BY <1>5, <1>7 DEF NightInv

LEMMA UploadKeeps ==
  ASSUME NightInv, NEW accepted \in BOOLEAN, NEW answered \in BOOLEAN,
         Night!UploadScene(accepted, answered)
  PROVE  NightInv'
<1> DEFINE refused == Night!Result("error", "unknown", {"upload"})
<1>1. /\ Night!Busy /\ nightBatch.video = None /\ Night!Cur.existing = None
      /\ nightFresh' = nightFresh /\ (answered => accepted)
  BY DEF Night!UploadScene
<1>2. CASE ~accepted
  <2>1. ~answered /\ nightVideos' = nightVideos
    BY <1>1, <1>2 DEF Night!UploadScene
  <2>2. Night!Finish(refused)
    BY <2>1 DEF Night!UploadScene
  <2>3. QED
    BY <1>1, <2>1, <2>2, FinishKeeps
<1>3. CASE accepted
  <2>1. nightVideos' = Append(nightVideos, [project |-> Night!Cur.project, onDisk |-> TRUE])
    BY <1>3 DEF Night!UploadScene
  <2>2. CASE ~answered
    <3>1. Night!Finish(refused)
      BY <2>2 DEF Night!UploadScene
    <3>2. Batch(nightBatch') /\ \A p \in Projects : Owes(p)' => Owes(p) /\ p # Night!Cur.project
      BY <1>1, <3>1, FinishOwes DEF NightInv
    <3>3. QED
      BY <1>1, <2>1, <3>2, AcceptedKeeps
  <2>3. CASE answered
    <3>1. nightBatch' = [nightBatch EXCEPT !.video = Len(nightVideos')]
      BY <2>3 DEF Night!UploadScene
    <3>2. Batch(nightBatch) /\ nightBatch # None /\ Night!Cur.project = Night!Min(DOMAIN nightBatch.todo)
          /\ nightBatch.todo[Night!Min(DOMAIN nightBatch.todo)].project = Night!Cur.project
      BY <1>1, AtHand DEF NightInv, Batch, Night!Busy
    <3>3. nightBatch' = [todo |-> nightBatch.todo, video |-> Len(nightVideos'),
                         results |-> nightBatch.results, retain |-> nightBatch.retain]
      BY <3>1, <3>2 DEF Batch
    <3>4. Len(nightVideos') # None
      <4>1. nightVideos \in Seq(Video)
        BY DEF NightInv, NightTyped
      <4>2. Len(nightVideos') \in Nat
        BY <2>1, <4>1
      <4>3. QED
        BY <4>2, NoneAssumption
    <3>5. Batch(nightBatch')
      BY <3>2, <3>3 DEF Batch
    <3>6. ASSUME NEW p \in Projects, Owes(p)' PROVE Owes(p) /\ p # Night!Cur.project
      <4>1. /\ p \in DOMAIN nightBatch.todo /\ nightBatch.todo[p].existing = None
            /\ nightBatch.todo[Night!Min(DOMAIN nightBatch.todo)].project # p
        BY <3>3, <3>4, <3>6 DEF Owes
      <4>2. QED
        BY <1>1, <3>2, <4>1 DEF Owes
    <3>7. QED
      BY <1>1, <2>1, <3>5, <3>6, AcceptedKeeps
  <2>4. QED
    BY <2>2, <2>3
<1>4. QED
  BY <1>2, <1>3

LEMMA ResumeKeeps == ASSUME NightInv, Night!Resume PROVE NightInv'
<1>1. /\ Night!Busy /\ nightBatch.video = None /\ Night!Cur.existing # None
      /\ nightBatch' = [nightBatch EXCEPT !.video = Night!Cur.existing]
      /\ nightVideos' = nightVideos /\ nightFresh' = nightFresh
  BY DEF Night!Resume
<1>2. Batch(nightBatch) /\ nightBatch # None
  BY <1>1, AtHand DEF NightInv, Night!Busy
<1>3. nightBatch' = [todo |-> nightBatch.todo, video |-> Night!Cur.existing,
                     results |-> nightBatch.results, retain |-> nightBatch.retain]
  BY <1>1, <1>2 DEF Batch
<1>4. Batch(nightBatch')
  BY <1>2, <1>3 DEF Batch
<1>5. \A p \in Projects : Owes(p)' => Owes(p)
  BY <1>1, <1>2, <1>3 DEF Owes
<1>6. NightTyped'
  BY <1>1, <1>4 DEF NightInv, NightTyped, Batch
<1>7. ASSUME NEW p \in Projects PROVE (Cardinality(Night!Nightly(p)) + Owed(p) <= nightFresh[p])'
  <2>1. Cardinality(Night!Nightly(p)) \in Nat /\ nightFresh[p] \in Nat
    BY NightlyFinite DEF NightInv, NightTyped
  <2>2. Night!Nightly(p)' = Night!Nightly(p)
    BY <1>1 DEF Night!Nightly
  <2>3. Cardinality(Night!Nightly(p)) + Owed(p) <= nightFresh[p]
    BY DEF NightInv
  <2>4. QED
    BY <1>1, <1>5, <2>1, <2>2, <2>3 DEF Owed
<1>8. QED
  BY <1>6, <1>7 DEF NightInv

\* The report is written, or the batch dies: nothing is owed any more.
LEMMA OverKeeps ==
  ASSUME NightInv, nightBatch' = None, nightVideos' = nightVideos, nightFresh' = nightFresh
  PROVE  NightInv'
<1>1. NightTyped'
  BY DEF NightInv, NightTyped
<1>2. ASSUME NEW p \in Projects PROVE (Cardinality(Night!Nightly(p)) + Owed(p) <= nightFresh[p])'
  <2>1. Cardinality(Night!Nightly(p)) \in Nat /\ nightFresh[p] \in Nat
    BY NightlyFinite DEF NightInv, NightTyped
  <2>2. Night!Nightly(p)' = Night!Nightly(p)
    BY DEF Night!Nightly
  <2>3. Cardinality(Night!Nightly(p)) + Owed(p) <= nightFresh[p]
    BY DEF NightInv
  <2>4. QED
    BY <2>1, <2>2, <2>3 DEF Owed, Owes
<1>3. QED
  BY <1>1, <1>2 DEF NightInv

LEMMA SameKeeps ==
  ASSUME NightInv, nightBatch' = nightBatch, nightVideos' = nightVideos, nightFresh' = nightFresh
  PROVE  NightInv'
  BY DEF NightInv, NightTyped, Batch, Owed, Owes, Night!Nightly

LEMMA StepNightInv == ASSUME NightInv, [Night!Next]_nightVars PROVE NightInv'
<1>1. ASSUME NEW map, NEW only, NEW env, Night!StartBatch(map, only, env) PROVE NightInv'
  BY <1>1, StartBatchKeeps
<1>2. ASSUME NEW accepted \in BOOLEAN, NEW answered \in BOOLEAN, Night!UploadScene(accepted, answered)
      PROVE  NightInv'
  BY <1>2, UploadKeeps
<1>3. CASE Night!Resume
  BY <1>3, ResumeKeeps
<1>4. CASE Night!PollFails
  BY <1>4, FinishKeeps DEF Night!PollFails
<1>5. CASE Night!WriteReport \/ Night!Crash
  BY <1>5, OverKeeps DEF Night!WriteReport, Night!Crash
<1>6. ASSUME NEW fetched, Night!PollTerminal(fetched) PROVE NightInv'
  <2>1. PICK result : Night!Finish(result) /\ Night!Busy /\ nightVideos' = nightVideos /\ nightFresh' = nightFresh
    BY <1>6 DEF Night!PollTerminal
  <2>2. QED
    BY <2>1, FinishKeeps
<1>7. ASSUME NEW fetched, Night!PollTimeout(fetched) PROVE NightInv'
  <2>1. PICK result : Night!Finish(result) /\ Night!Busy /\ nightVideos' = nightVideos /\ nightFresh' = nightFresh
    BY <1>7 DEF Night!PollTimeout
  <2>2. QED
    BY <2>1, FinishKeeps
<1>8. ASSUME NEW v, NEW e, Night!TakeVideo(v) \/ Night!EndScene(v, e) PROVE NightInv'
  BY <1>8, SameKeeps DEF Night!TakeVideo, Night!EndScene
<1>9. CASE UNCHANGED nightVars
  BY <1>9, SameKeeps DEF nightVars
<1>10. QED
  BY <1>1, <1>2, <1>3, <1>4, <1>5, <1>6, <1>7, <1>8, <1>9 DEF Night!Next

LEMMA StepOfNight == [Next]_vars => [Night!Next]_nightVars
  BY DEF Next, vars, nightVars

LEMMA NightInvImplies == NightInv => OneJobPerNight
<1> SUFFICES ASSUME NightInv, NEW p \in Projects
             PROVE  Night!Cardinality(Night!Nightly(p)) <= nightFresh[p]
  BY DEF OneJobPerNight, Night!OneJobPerNight
<1>1. Cardinality(Night!Nightly(p)) \in Nat /\ nightFresh[p] \in Nat
  BY NightlyFinite DEF NightInv, NightTyped
<1>2. Cardinality(Night!Nightly(p)) + Owed(p) <= nightFresh[p]
  BY DEF NightInv
<1>3. QED
  BY <1>1, <1>2, NightCardinality DEF Owed

(* However often the batch dies and is started over, whatever its resume maps, answers that get
   lost and deadlines that pass, a project has no more jobs of the night than starts without an
   entry for it. *)
THEOREM OneJobOnly == Spec => []OneJobPerNight
<1>1. Init => NightInv
  BY InitNightInv DEF Init
<1>2. NightInv /\ [Next]_vars => NightInv'
  BY StepOfNight, StepNightInv
<1>3. QED
  BY <1>1, <1>2, NightInvImplies, PTL DEF Spec
=============================================================================
