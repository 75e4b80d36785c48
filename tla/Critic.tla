------------------------------- MODULE Critic -------------------------------
(***************************************************************************)
(* scripts/audit: the critic of one exported scene.  critic_rules measures *)
(* the objects against the room, the placed assets and the support log;    *)
(* critic_vlm asks a model to compare renders with real frames;            *)
(* critic_merge joins what the two files hold into critic.json.            *)
(*                                                                         *)
(* Lengths are in dm, angles in degrees, a wall is an axis-parallel segment *)
(* with a direction.  What a model says of a view is a finding that names  *)
(* objects or labels and an issue; the prose is left out.                  *)
(***************************************************************************)
EXTENDS Integers, FiniteSets, FiniteSetsExt

CONSTANTS
  Exports,    \* what an export may leave: [room, walls, objects, support, meshes]
  Placings,   \* what the assembly may have placed: id |-> [yaw, at]
  Answers,    \* what the model may answer for one view: sets of findings
  Views,
  NoFile,     \* a file that is not there, a call that failed, the null of a JSON value
  MaxExports  \* bound on exports over one directory

VARIABLES
  objects, glb, report, placed,   \* the files the critic reads, or NoFile
  rules, vlm, critic,             \* the files it writes, or NoFile
  asking,                         \* what each view's call returned, NoFile before it; or NoFile
  exports, raised

vars == <<objects, glb, report, placed, rules, vlm, critic, asking, exports, raised>>

Present(f) == f # NoFile
Abs(n) == IF n < 0 THEN -n ELSE n

-----------------------------------------------------------------------------
(* What the checks see *)

(* objects.json first; without it the collision hulls and walls of the GLB. *)
FromGlb == {[o EXCEPT !.angle = -1, !.size = 0, !.split = FALSE] : o \in glb.objects}
SeenObjects == IF Present(objects) THEN objects.objects ELSE IF Present(glb) THEN FromGlb ELSE {}
Edges ==
  IF Present(objects) THEN objects.room
  ELSE IF Present(glb) THEN glb.walls ELSE {}

(* room_polygon is null when the bootstrap found no room: the list of its points is then
   taken of None. *)
LoadRaises == Present(objects) /\ objects.room = NoFile

Clamp(n, a, b) == IF n < Min({a, b}) THEN Min({a, b}) ELSE IF n > Max({a, b}) THEN Max({a, b}) ELSE n
SegmentDistance(p, e) ==
  LET dx == p[1] - Clamp(p[1], e.a[1], e.b[1])
      dz == p[2] - Clamp(p[2], e.a[2], e.b[2])
  IN dx * dx + dz * dz
NearestWall(p) == CHOOSE e \in Edges : \A f \in Edges : SegmentDistance(p, e) <= SegmentDistance(p, f)

FoldDelta(a, b) == LET d == Abs((a % 90) - (b % 90)) IN Min({d, 90 - d})

(* The mesh says how the object really stands; then the placing, then the footprint. *)
MeasuredYaw(o) ==
  IF Present(glb) /\ o.id \in DOMAIN glb.meshes THEN glb.meshes[o.id]
  ELSE IF Present(placed) /\ o.id \in DOMAIN placed THEN placed[o.id].yaw
  ELSE o.angle

Finding(check, o, severity) ==
  [check |-> check, source |-> "rule", unverified |-> FALSE, id |-> o.id, label |-> o.label,
   severity |-> severity]

YawVsWall ==
  {Finding("yaw_vs_wall", o,
           IF FoldDelta(MeasuredYaw(o), NearestWall(o.at).dir) > 30 THEN "high" ELSE "medium") :
     o \in {o \in SeenObjects : /\ Edges # {} /\ o.long /\ MeasuredYaw(o) >= 0
                                /\ FoldDelta(MeasuredYaw(o), NearestWall(o.at).dir) > 15}}

ClassLimits == [bed |-> 23, tv |-> 16, lamp |-> 19]
Extent(o) == IF o.label = "lamp" THEN o.height ELSE IF o.size > 0 THEN o.size ELSE o.span
BboxVsClassLimit ==
  {Finding("bbox_vs_class_limit", o,
           IF o.split THEN "info" ELSE IF 10 * Extent(o) > 13 * ClassLimits[o.label] THEN "high" ELSE "medium") :
     o \in {o \in SeenObjects : o.label \in DOMAIN ClassLimits /\ Extent(o) > ClassLimits[o.label]}}

(* A rectangular room: its edges span it. *)
InRoom(p) == \E e, f \in objects.room : p[1] \in e.a[1] .. f.b[1] /\ p[2] \in e.a[2] .. f.b[2]
CentroidOutsideRoom ==
  IF ~Present(objects) THEN {}
  ELSE IF objects.room = {} THEN {}
  ELSE {Finding("centroid_outside_room", o, "high") : o \in {o \in SeenObjects : ~InRoom(o.at)}}

Drift(o) == LET p == placed[o.id].at
            IN (p[1] - o.hull[1]) * (p[1] - o.hull[1]) + (p[2] - o.hull[2]) * (p[2] - o.hull[2])
AssetCentroidVsHull ==
  IF ~Present(placed) THEN {}
  ELSE {Finding("asset_centroid_vs_hull", o, IF Drift(o) > 16 THEN "high" ELSE "medium") :
          o \in {o \in SeenObjects : o.id \in DOMAIN placed /\ Drift(o) > 4}}

MissingSupportReason ==
  IF ~Present(report) THEN {}
  ELSE {Finding("missing_support_reason", o, "medium") : o \in {o \in SeenObjects : o.id \notin report.support}}

AllChecks == YawVsWall \union BboxVsClassLimit \union CentroidOutsideRoom
               \union AssetCentroidVsHull \union MissingSupportReason

-----------------------------------------------------------------------------
(* What the model said, and where the two agree *)

(* mutant of Tagged: the model's own tags are kept where it gave some. *)
TaggedByDefault(f) == f
Tagged(f) == [f EXCEPT !.source = "vlm", !.unverified = TRUE]

LabelOf(id) ==
  IF Present(objects) /\ \E o \in objects.objects : o.id = id
  THEN (CHOOSE o \in objects.objects : o.id = id).label ELSE "none"

Matches(r, v) ==
  \/ r.id \in v.region
  \/ LabelOf(r.id) \in v.region /\ v.issue = r.check

Overlaps(rf, vf) == {p \in rf \X vf : Matches(p[1], p[2])}

(* Both saw the bed stand askew. *)
DiagonalBed(rf, vf) ==
  /\ \E r \in rf : r.check = "yaw_vs_wall" /\ r.label = "bed"
  /\ \E v \in vf : "bed" \in v.region /\ v.issue = "yaw_vs_wall"

-----------------------------------------------------------------------------
(* Steps *)

(* The bootstrap and the assembly: a run that ends early leaves the old objects.json. *)
Export(e, whole) ==
  /\ exports < MaxExports /\ exports' = exports + 1
  /\ glb' = [objects |-> e.objects, walls |-> e.walls, meshes |-> e.meshes]
  /\ IF whole
     THEN objects' = [objects |-> e.objects, room |-> e.room] /\ report' = [support |-> e.support]
     ELSE UNCHANGED <<objects, report>>
  /\ UNCHANGED <<placed, rules, vlm, critic, asking, raised>>

Assemble(p) ==
  /\ Present(objects) /\ placed' = p
  /\ UNCHANGED <<objects, glb, report, rules, vlm, critic, asking, exports, raised>>

RunRules ==
  /\ ~raised
  /\ IF LoadRaises THEN raised' = TRUE /\ UNCHANGED rules
     ELSE rules' = AllChecks /\ UNCHANGED raised
  /\ UNCHANGED <<objects, glb, report, placed, vlm, critic, asking, exports>>

(* run_vlm: the views that have a real frame are rendered, then asked about one by one; a call
   that the service refuses has no findings, one that raises ends the pass with no file. *)
StartVlm(frames) ==
  /\ Present(glb) /\ ~Present(asking) /\ asking' = [v \in frames |-> NoFile]
  /\ UNCHANGED <<objects, glb, report, placed, rules, vlm, critic, exports, raised>>

CallPair(v, answer) ==
  /\ Present(asking) /\ v \in DOMAIN asking /\ asking[v] = NoFile
  /\ asking' = [asking EXCEPT ![v] = IF answer = NoFile THEN {} ELSE {Tagged(f) : f \in answer}]
  /\ UNCHANGED <<objects, glb, report, placed, rules, vlm, critic, exports, raised>>

CallRaises ==
  /\ Present(asking) /\ (\E v \in DOMAIN asking : asking[v] = NoFile) /\ asking' = NoFile
  /\ UNCHANGED <<objects, glb, report, placed, rules, vlm, critic, exports, raised>>

WriteVlm ==
  /\ Present(asking) /\ \A v \in DOMAIN asking : asking[v] # NoFile
  /\ vlm' = UNION {asking[v] : v \in DOMAIN asking} /\ asking' = NoFile
  /\ UNCHANGED <<objects, glb, report, placed, rules, critic, exports, raised>>

MergeCritic ==
  /\ Present(rules)
  /\ LET said == IF Present(vlm) THEN vlm ELSE {}
     IN critic' = [findings |-> rules \union said, rules |-> rules, overlap |-> Overlaps(rules, said),
                   diagonal |-> DiagonalBed(rules, said)]
  /\ UNCHANGED <<objects, glb, report, placed, rules, vlm, asking, exports, raised>>

Init ==
  /\ objects = NoFile /\ glb = NoFile /\ report = NoFile /\ placed = NoFile /\ rules = NoFile
  /\ vlm = NoFile /\ critic = NoFile /\ asking = NoFile /\ exports = 0 /\ raised = FALSE

Next ==
  \/ \E e \in Exports, whole \in BOOLEAN : Export(e, whole)
  \/ \E p \in Placings : Assemble(p)
  \/ RunRules \/ CallRaises \/ WriteVlm \/ MergeCritic
  \/ \E frames \in SUBSET Views : StartVlm(frames)
  \/ \E v \in Views, a \in Answers \union {NoFile} : CallPair(v, a)

Spec == Init /\ [][Next]_vars

-----------------------------------------------------------------------------
(* Properties *)

TypeOK == exports \in 0 .. MaxExports /\ raised \in BOOLEAN /\ (Present(asking) => DOMAIN asking \subseteq Views)

(* What critic.json offers to a gate, its verified findings, is what the rules measured
   and nothing else, whatever the model claims of its own findings, and a finding is called
   corroborated only by one the model really made.  Code: call_vlm_pair, merge_critic. *)
AdvisoryNeverGates ==
  Present(critic) =>
    /\ {f \in critic.findings : ~f.unverified} = critic.rules
    /\ \A p \in critic.overlap : p[1] \in critic.rules /\ p[2].source = "vlm"

-----------------------------------------------------------------------------
(* What the repository says of itself and the model contradicts: README, "Disagreements
   found".  No run is spent on it. *)

(* "each check degrades gracefully and records why it was skipped rather than raising"
   (critic_rules.py). *)
CriticDegrades == ~raised
=============================================================================
