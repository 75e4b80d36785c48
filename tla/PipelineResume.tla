--------------------------- MODULE PipelineResume ---------------------------
(***************************************************************************)
(* pipeline/run_pipeline.py as a machine that is resumed: each step runs   *)
(* its check first, is skipped when the check accepts what is on disk, and *)
(* otherwise runs its producer and checks again.  Several runs over one    *)
(* scene directory, each with flags of its own, each free to fail or be    *)
(* killed anywhere; only what they have written carries over.              *)
(*                                                                         *)
(* An artifact is the number of the run that fused what it shows, not its  *)
(* content.  FRAMES .. PACK depend on the operator's pass-A output alone   *)
(* and are one step; the box itself is BoxLifecycle's.                     *)
(***************************************************************************)
EXTENDS Naturals, Sequences

CONSTANTS
  Votes,     \* multi-view votes a run may ask for: (m, tau, neighbours, K)
  JobFlags,  \* the command lines a run may be started with
  MaxRuns,   \* bound: runs over the scene directory
  Faults     \* what may go wrong beside a step that simply fails

Modes == {"live", "rehearsal", "published"}  \* live, dry run of it, --nvblox-source precomputed
Flags == {f \in [mode : Modes, vote : Votes \cup {"off"}, also : Seq(Votes),
                 ab : BOOLEAN, colour : BOOLEAN] :
            f.vote = "off" => f.also = <<>> /\ ~f.ab}

FaultKinds == {
  "cut_write",  \* a producer is killed (time-out, budget, SIGKILL) while it writes
  "cut_file",   \* rsync --partial leaves a part of a file under its final name
  "floor"}      \* nvblox_scenes.py finds no floor, which it says in stats.json only

ASSUME VotesAssumption == Votes \cap {"mv", "raw", "off", "none", "scene", "unfiltered"} = {}
ASSUME JobsAssumption == JobFlags \subseteq Flags
ASSUME RunsAssumption == MaxRuns \in Nat
ASSUME FaultsAssumption == Faults \subseteq FaultKinds

VARIABLES
  run,      \* runs started so far, and the number of the current one
  asked,    \* the flags of each run, chosen beforehand
  pc,       \* the step the driver is at
  todo,     \* arms of MVFILTER or NVBLOX not done yet
  outcome,  \* status.json `state' of the last run
  passA,    \* poses.json and per_view are in place
  rgb,      \* rgb_u8.npy
  depth,    \* the filtered stacks: whose vote, and whether their producer got to the json
  meta,     \* the vote named by the json beside each of them
  box,      \* --remote-out on the GPU box, a directory per arm
  local,    \* where the arms are pulled to
  used,     \* history: the stacks each fusion was given
  layers, reach, export,  \* LAYERS, REACH and EXPORT output
  tables, cloud           \* INGEST: the files its check looks for, and cloud.bin

cpu  == <<rgb, depth, meta>>
gpu  == <<box, local, used>>
post == <<layers, reach, export, tables, cloud>>
vars == <<run, asked, pc, todo, outcome, passA, rgb, depth, meta, box, local, used,
          layers, reach, export, tables, cloud>>

PCs == {"idle", "pass_a", "pack_rgb", "mvfilter", "filter", "gpu_up", "nvblox", "fuse",
        "pull", "floor", "layers", "reach", "export", "ingest", "end"}

F == asked[run]

-----------------------------------------------------------------------------
(* Stacks and arms *)

Stacks  == {"mv"} \cup Votes            \* the primary stack, and one named by each vote
Dests   == {"scene", "unfiltered"} \cup Votes
NoStack == [vote |-> "none", sealed |-> FALSE]
Raw     == [vote |-> "off", sealed |-> TRUE]
Arms    == [file : Stacks \cup {"raw"}, vote : Votes \cup {"off"}, dest : Dests]

Alternates(f) ==
  [i \in 1..Len(f.also) |-> [file |-> f.also[i], vote |-> f.also[i], dest |-> f.also[i]]]

Primary(f) ==
  [file |-> IF f.vote = "off" THEN "raw" ELSE "mv", vote |-> f.vote, dest |-> "scene"]

FilterArms(f) == IF f.vote = "off" THEN <<>> ELSE <<Primary(f)>> \o Alternates(f)

Controls(f) ==
  (IF f.ab THEN <<[file |-> "raw", vote |-> "off", dest |-> "unfiltered"]>> ELSE <<>>)
    \o Alternates(f)

\* Mutant: the run's own scene is fused first.
SceneFirst(f) == <<Primary(f)>> \o Controls(f)

\* The controls first, the run's own scene last.
FusionArms(f) == Controls(f) \o <<Primary(f)>>

Stack(a) == IF a.file = "raw" THEN Raw ELSE depth[a.file]

\* Mutant: any stack under the right name will do.
StackExists(a) == depth[a.file] # NoStack /\ meta[a.file] # "none"

\* check_mvfilter for one arm: both files exist and the json names this very vote.  The
\* shape of a stack is that of the pack from its first write on.
StackAccepted(a) == depth[a.file] # NoStack /\ meta[a.file] = a.vote

MvfilterOk == \A i \in 1..Len(FilterArms(F)) : StackAccepted(FilterArms(F)[i])

-----------------------------------------------------------------------------
(* Fusions: the five files of NVBLOX_PULL_FILES *)

Files     == {"esdf", "floor", "mesh", "stats", "unobs"}
PullOrder == <<"esdf", "floor", "mesh", "stats", "unobs">>  \* rsync goes by name
FuseOrder == <<"mesh", "esdf", "unobs", "floor">>           \* stats.json comes last
FirstOf(order, k) == {order[i] : i \in 1..k}

Missing == [run |-> 0, state |-> "missing"]
Whole(r) == [run |-> r, state |-> "whole"]
Pieces == [run : 0..MaxRuns, state : {"missing", "whole", "torn", "no_floor"}]
Empty == [d \in Dests |-> [f \in Files |-> Missing]]
Unused == [stack |-> NoStack, rgb |-> "none"]

\* src_scene: a live run reads its own directory, any other the published one.
Published == MaxRuns + 1
Scene == IF F.mode = "published" THEN [f \in Files |-> Whole(Published)] ELSE local["scene"]

Needed == Files \ {"floor"}

\* Mutant: check_nvblox does not look into stats.json.
VerdictByName(scene) ==
  IF \E f \in Needed : scene[f].state = "missing" THEN "missing" ELSE "ok"

\* check_nvblox.  Without the four files it needs: run the producer.  A stats.json that
\* cannot be read, or has no slice, raises out of the check before the producer is tried.
Verdict(scene) ==
  IF \E f \in Needed : scene[f].state = "missing" THEN "missing"
  ELSE IF scene["stats"].state # "whole" THEN "raises" ELSE "ok"

Readable(S) == \A f \in S : Scene[f].state = "whole"

\* dry_gated: a rehearsal of the live path has no input for the steps after NVBLOX.
Gated == F.mode = "rehearsal" /\ local["scene"]["esdf"].state = "missing"

-----------------------------------------------------------------------------
Init ==
  /\ run = 0 /\ asked \in [1..MaxRuns -> JobFlags]
  /\ pc = "idle" /\ todo = <<>> /\ outcome = "none"
  /\ passA \in BOOLEAN
  /\ rgb = "none"
  /\ depth = [s \in Stacks |-> NoStack] /\ meta = [s \in Stacks |-> "none"]
  /\ box = Empty /\ local = Empty
  /\ used = [r \in 1..MaxRuns |-> [d \in Dests |-> Unused]]
  /\ layers = 0 /\ reach = 0 /\ export = 0 /\ tables = 0 /\ cloud = 0

-----------------------------------------------------------------------------
(* The driver *)

\* A step that raises, a budget abort at its boundary, a killed driver: the run ends and
\* what is on disk stays.
RunEnds(how) == pc' = "idle" /\ todo' = <<>> /\ outcome' = how

StartDriver ==
  /\ pc = "idle" /\ run < MaxRuns
  /\ run' = run + 1
  /\ pc' = "pass_a" /\ outcome' = "running"
  /\ UNCHANGED <<asked, todo, passA, cpu, gpu, post>>

\* The operator's part, at any time.
PlacePassA ==
  /\ ~passA
  /\ passA' = TRUE
  /\ UNCHANGED <<run, asked, pc, todo, outcome, cpu, gpu, post>>

RunFails ==
  /\ pc # "idle"
  /\ RunEnds("FAILED")
  /\ UNCHANGED <<run, asked, passA, cpu, gpu, post>>

Goto(from, to) ==
  /\ pc = from /\ pc' = to
  /\ UNCHANGED <<run, asked, outcome, passA>>

\* FRAMES .. PACK; without pass A the run parks in waiting_manual and fails.
PassA ==
  /\ Goto("pass_a", "pack_rgb")
  /\ passA
  /\ UNCHANGED <<todo, cpu, gpu, post>>

\* check_pack_rgb sees a name and a shape, and the file has its shape from the start.
PackRgb ==
  /\ Goto("pack_rgb", "mvfilter")
  /\ rgb' = IF F.colour /\ rgb = "none" THEN "whole" ELSE rgb
  /\ UNCHANGED <<todo, depth, meta, gpu, post>>

PackRgbCut ==
  /\ "cut_write" \in Faults
  /\ pc = "pack_rgb" /\ F.colour /\ rgb = "none"
  /\ rgb' = "torn"
  /\ RunEnds("FAILED")
  /\ UNCHANGED <<run, asked, passA, depth, meta, gpu, post>>

MvfilterSkip ==
  /\ Goto("mvfilter", "gpu_up")
  /\ MvfilterOk
  /\ UNCHANGED <<todo, cpu, gpu, post>>

\* One arm that is not accepted has every arm produced again.
MvfilterStart ==
  /\ Goto("mvfilter", "filter")
  /\ ~MvfilterOk
  /\ todo' = FilterArms(F)
  /\ UNCHANGED <<cpu, gpu, post>>

\* mvfilter.py: the stack view by view, then the json.  A producer that is killed leaves
\* its stack, in part or in whole, beside the json of the one before.
FilterArm ==
  /\ pc = "filter" /\ todo # <<>>
  /\ LET a == Head(todo) IN
       /\ depth' = [depth EXCEPT ![a.file] = [vote |-> a.vote, sealed |-> TRUE]]
       /\ meta' = [meta EXCEPT ![a.file] = a.vote]
  /\ todo' = Tail(todo)
  /\ UNCHANGED <<run, asked, pc, outcome, passA, rgb, gpu, post>>

FilterCut ==
  /\ "cut_write" \in Faults
  /\ pc = "filter" /\ todo # <<>>
  /\ depth' = [depth EXCEPT ![Head(todo).file] = [vote |-> Head(todo).vote, sealed |-> FALSE]]
  /\ RunEnds("FAILED")
  /\ UNCHANGED <<run, asked, passA, rgb, meta, gpu, post>>

Filtered ==
  /\ Goto("filter", "gpu_up")
  /\ todo = <<>> /\ MvfilterOk
  /\ UNCHANGED <<todo, cpu, gpu, post>>

\* The box of the last run with its directories, or another one.
GpuUp ==
  /\ Goto("gpu_up", "nvblox")
  /\ box' = box \/ (F.mode = "live" /\ box' = Empty)
  /\ UNCHANGED <<todo, cpu, local, used, post>>

NvbloxSkip ==
  /\ Goto("nvblox", "floor")
  /\ Verdict(Scene) = "ok"
  /\ UNCHANGED <<todo, cpu, gpu, post>>

\* A rehearsal prints the remote commands and does not check again.
NvbloxRehearsed ==
  /\ Goto("nvblox", "floor")
  /\ Verdict(Scene) = "missing" /\ F.mode = "rehearsal"
  /\ UNCHANGED <<todo, cpu, gpu, post>>

\* Mutant: a live run always fuses anew.
NvbloxAlways ==
  /\ Goto("nvblox", "fuse")
  /\ F.mode = "live"
  /\ todo' = FusionArms(F)
  /\ UNCHANGED <<cpu, gpu, post>>

\* The gate is passed and every stack of every arm pushed.
NvbloxStart ==
  /\ Goto("nvblox", "fuse")
  /\ Verdict(Scene) = "missing" /\ F.mode = "live"
  /\ todo' = FusionArms(F)
  /\ UNCHANGED <<cpu, gpu, post>>

Given(a) == [stack |-> Stack(a), rgb |-> IF F.colour THEN rgb ELSE "none"]

\* nvblox_scenes.py exits 0 with all its files, or, when it finds no floor, with a mesh and
\* a stats.json only, beside whatever an earlier run left in its directory.
Fuse ==
  /\ pc = "fuse" /\ todo # <<>> /\ pc' = "pull"
  /\ LET d == Head(todo).dest IN
       /\ used' = [used EXCEPT ![run][d] = Given(Head(todo))]
       /\ \/ box' = [box EXCEPT ![d] = [f \in Files |-> Whole(run)]]
          \/ /\ "floor" \in Faults
             /\ box' = [box EXCEPT ![d]["mesh"] = Whole(run),
                                   ![d]["stats"] = [run |-> run, state |-> "no_floor"]]
  /\ UNCHANGED <<run, asked, todo, outcome, passA, cpu, local, post>>

\* A fusion that fails may have written some of its files.
FuseCut ==
  /\ pc = "fuse" /\ todo # <<>>
  /\ \E k \in 1..4 :
       box' = [box EXCEPT ![Head(todo).dest] =
                 [f \in Files |-> IF f \in FirstOf(FuseOrder, k) THEN Whole(run) ELSE @[f]]]
  /\ RunEnds("FAILED")
  /\ UNCHANGED <<run, asked, passA, cpu, local, used, post>>

\* What a pull of the files in S leaves locally.
Pulled(d, S) ==
  [f \in Files |-> IF f \in S /\ box[d][f].state # "missing" THEN box[d][f] ELSE local[d][f]]

Pull ==
  /\ pc = "pull" /\ pc' = "fuse"
  /\ LET d == Head(todo).dest IN local' = [local EXCEPT ![d] = Pulled(d, Files)]
  /\ todo' = Tail(todo)
  /\ UNCHANGED <<run, asked, outcome, passA, cpu, box, used, post>>

PullCut ==
  /\ pc = "pull"
  /\ \E k \in 0..4 :
       LET d == Head(todo).dest
           f == PullOrder[k + 1]
           p == Pulled(d, FirstOf(PullOrder, k))
       IN \/ local' = [local EXCEPT ![d] = p]
          \/ /\ "cut_file" \in Faults /\ box[d][f].state # "missing"
             /\ local' = [local EXCEPT ![d] =
                            [p EXCEPT ![f] = [run |-> box[d][f].run, state |-> "torn"]]]
  /\ RunEnds("FAILED")
  /\ UNCHANGED <<run, asked, passA, cpu, box, used, post>>

Nvbloxed ==
  /\ Goto("fuse", "floor")
  /\ todo = <<>> /\ Verdict(Scene) = "ok"
  /\ UNCHANGED <<todo, cpu, gpu, post>>

\* floor_plane.json came with the fusion: there is no producer.  GPU_DOWN_NV follows.
Floor ==
  /\ Goto("floor", "layers")
  /\ F.mode = "rehearsal" \/ Readable({"floor"})
  /\ UNCHANGED <<todo, cpu, gpu, post>>

\* What a step leaves that takes `from' and is skipped when its output is there.
Made(old, from) == IF Gated \/ old # 0 THEN old ELSE from

Layers ==
  /\ Goto("layers", "reach")
  /\ Gated \/ layers # 0 \/ Readable({"floor", "unobs", "mesh"})
  /\ layers' = Made(layers, Scene["mesh"].run)
  /\ UNCHANGED <<todo, cpu, gpu, reach, export, tables, cloud>>

\* reach.py reads the LAYERS output, not the nvblox directory.
Reach ==
  /\ Goto("reach", "export")
  /\ Gated \/ reach # 0 \/ layers # 0
  /\ reach' = Made(reach, layers)
  /\ UNCHANGED <<todo, cpu, gpu, layers, export, tables, cloud>>

Export ==
  /\ Goto("export", "ingest")
  /\ Gated \/ export # 0 \/ Readable({"floor", "mesh"})
  /\ export' = Made(export, Scene["mesh"].run)
  /\ UNCHANGED <<todo, cpu, gpu, layers, reach, tables, cloud>>

IngestReads == layers # 0 /\ export # 0 /\ Readable({"mesh"})

Ingest ==
  /\ Goto("ingest", "end")
  /\ Gated \/ tables # 0 \/ IngestReads
  /\ tables' = Made(tables, Scene["mesh"].run)
  /\ cloud' = IF Gated \/ tables # 0 THEN cloud ELSE Scene["mesh"].run
  /\ UNCHANGED <<todo, cpu, gpu, layers, reach, export>>

\* ingest_scene.py writes the files check_ingest looks for before the cloud and the mesh.
IngestCut ==
  /\ "cut_write" \in Faults
  /\ pc = "ingest"
  /\ ~Gated /\ tables = 0 /\ IngestReads
  /\ tables' = Scene["mesh"].run
  /\ RunEnds("FAILED")
  /\ UNCHANGED <<run, asked, passA, cpu, gpu, layers, reach, export, cloud>>

Done ==
  /\ pc = "end"
  /\ RunEnds("DONE")
  /\ UNCHANGED <<run, asked, passA, cpu, gpu, post>>

Next ==
  \/ StartDriver \/ PlacePassA \/ RunFails
  \/ PassA \/ PackRgb \/ PackRgbCut
  \/ MvfilterSkip \/ MvfilterStart \/ FilterArm \/ FilterCut \/ Filtered
  \/ GpuUp \/ NvbloxSkip \/ NvbloxRehearsed \/ NvbloxStart
  \/ Fuse \/ FuseCut \/ Pull \/ PullCut \/ Nvbloxed
  \/ Floor \/ Layers \/ Reach \/ Export \/ Ingest \/ IngestCut \/ Done

Spec == Init /\ [][Next]_vars

-----------------------------------------------------------------------------
TypeOK ==
  /\ run \in 0..MaxRuns
  /\ run = 0 => pc = "idle" /\ outcome = "none"
  /\ asked \in [1..MaxRuns -> JobFlags]
  /\ pc \in PCs
  /\ todo \in Seq(Arms) /\ (pc = "pull" => todo # <<>>)
  /\ outcome \in {"none", "running", "DONE", "FAILED"}
  /\ passA \in BOOLEAN
  /\ rgb \in {"none", "torn", "whole"}
  /\ depth \in [Stacks -> [vote : Votes \cup {"none", "off"}, sealed : BOOLEAN]]
  /\ meta \in [Stacks -> Votes \cup {"none", "off"}]
  /\ box \in [Dests -> [Files -> Pieces]]
  /\ local \in [Dests -> [Files -> Pieces]]
  /\ used \in [1..MaxRuns -> [Dests -> [stack : [vote : Votes \cup {"none", "off"},
                                                 sealed : BOOLEAN],
                                        rgb : {"none", "torn", "whole"}]]]
  /\ \A x \in {layers, reach, export, tables, cloud} : x \in 0..Published

\* The vote whose stack belongs into a directory of a run with flags f.
VoteFor(d, f) == IF d = "scene" THEN f.vote ELSE IF d = "unfiltered" THEN "off" ELSE d

(* A stack that went into a fusion was filtered by the vote its run asked for, whatever
   earlier runs had left under the same name; a stack whose producer was killed before it
   wrote the json is the exception the check cannot see.  Code: check_mvfilter's comparison. *)
VotedStack ==
  \A r \in 1..MaxRuns, d \in Dests :
     used[r][d].stack.sealed => used[r][d].stack.vote = VoteFor(d, asked[r])

SceneAccepted == Verdict(local["scene"]) = "ok"

(* The files of an accepted fusion are of one fusion, though they are pulled one by one,
   may be cut short, and the box keeps what earlier runs left in the same directory. *)
OneFusion ==
  SceneAccepted => \A f \in Files : local["scene"][f].run = local["scene"]["mesh"].run

(* The run's own scene is on disk only with the controls its run was asked for: the
   controls are fused first and a failing one fails the step.  Code: the order of `arms'. *)
ControlsKept ==
  SceneAccepted =>
     \A r \in 1..MaxRuns : r = local["scene"]["mesh"].run =>
        \A i \in 1..Len(Controls(asked[r])) :
           LET d == Controls(asked[r])[i].dest
           IN local[d]["mesh"].run = r /\ local[d]["stats"].run = r

(* What a live run reports DONE is one scene: the layers, the reachability report, the
   export and the tables the app reads all show the fusion that is on disk, whichever
   runs made them.  Code: the order of the steps and what each check accepts. *)
SceneIsOneFusion ==
  outcome = "DONE" /\ F.mode = "live" =>
     /\ SceneAccepted
     /\ \A x \in {layers, reach, export, tables} : x = local["scene"]["mesh"].run

-----------------------------------------------------------------------------
(* What the repository says of itself and the model contradicts: README, "Disagreements
   found".  No run is spent on it. *)

(* "a live run must never silently read yesterday's answer" (run_pipeline.py): what a
   live run reports DONE was not made from the published fusion. *)
LiveReadsItsOwn ==
  outcome = "DONE" /\ F.mode = "live" =>
     \A x \in {layers, reach, export, tables} : x # Published
=============================================================================
