---------------------------- MODULE MsaBootstrap ----------------------------
(***************************************************************************)
(* scripts/msa/bootstrap.py: from a scene's occupancy grid and detected    *)
(* objects to the furnished model.  The objects pass a chain of filters,   *)
(* walls are cut to the room, gaps are measured, everything is turned into *)
(* the room's own axes, and the artifacts are written one after another    *)
(* over those of an earlier run.                                           *)
(*                                                                         *)
(* Plan coordinates are grid cells and heights small integers; a footprint *)
(* is its set of cells.  The outline is the room mask itself (no polygon   *)
(* simplification, no snapping of notches).                                *)
(***************************************************************************)
EXTENDS Integers, FiniteSets, FiniteSetsExt, SequencesExt

CONSTANTS
  W, H,        \* the occupancy grid
  Scans,       \* [obstacle, free, objects, floor, ceiling, cameras]
  MinWall,     \* min_component_area_m2, in cells
  Overhead,    \* OBJECT_EXCLUDE_IF_ENTIRELY_ABOVE_M
  FloorTouch,  \* FLOOR_TOUCH_M and FLOOR_STANDING_MAX_BBOX_MIN_ABOVE_FLOOR_M
  StackTouch,  \* STACK_TOUCH_M
  SmallArea, SmallHeight,
  Backfill,    \* WALL_BACKFILL_THRESHOLD_M in cells
  Pad,         \* cells by which a footprint may stick out of the grid
  Closing,     \* closing_iterations
  Opening,     \* ROOM_OPENING_RADIUS_M in cells
  ClipMargin,  \* WALL_CLIP_MARGIN_M in cells
  Caps,        \* CLASS_CAPS: label |-> most instances
  MaxRuns,     \* bound on runs over one output directory
  Components(_),   \* ndimage.label: the connected pieces of a set of cells, corners included
  Surround(_, _)   \* the cells of a box that its corner is connected to, round a set of cells

VARIABLES
  scan,   \* the scene directory
  pc,     \* where run_bootstrap is
  objs,   \* the objects still in the list: records [id, label, cells, hull, bottom, top, points]
  out,    \* what each filter took out: stage |-> ids
  walls,  \* exported walls, by index: cells and frame
  room,   \* the room's cells, {} when there is no polygon
  gaps,   \* measured gaps: [a, b, frame]
  frame,  \* [objects, walls, room, gaps, cameras]: "scan" or "room" axes
  files,  \* artifact |-> run that wrote it, 0 when absent
  runs

vars == <<scan, pc, objs, out, walls, room, gaps, frame, files, runs>>

Stages == {"overhead", "merged", "small", "outside", "floating", "capped"}
Artifacts == {"cameras", "gaps", "meta", "glb", "plan", "usd", "render", "report", "objects"}

Cells == (0 .. W - 1) \X (0 .. H - 1)
Within(c, r) == (c[1] - r .. c[1] + r) \X (c[2] - r .. c[2] + r)
Dilate(S, r) == UNION {Within(c, r) : c \in S}
Disk(c, r) == {d \in Within(c, r) : (c[1] - d[1]) * (c[1] - d[1]) + (c[2] - d[2]) * (c[2] - d[2]) <= r * r}

(* ndimage.label numbers the components by the first cell the scan meets. *)
FirstCell(S) == Min({c[1] * (H + 100) + c[2] : c \in S})
LargestOf(comps) ==
  CHOOSE x \in comps : \A y \in comps :
    \/ Cardinality(x) > Cardinality(y)
    \/ Cardinality(x) = Cardinality(y) /\ FirstCell(x) <= FirstCell(y)
Number(comps) == [i \in 0 .. Cardinality(comps) - 1 |->
  CHOOSE x \in comps : Cardinality({y \in comps : FirstCell(y) < FirstCell(x)}) = i]

Touch(a, b) == Dilate(a, 1) \intersect b # {}
MinX(S) == Min({c[1] : c \in S})
MaxX(S) == Max({c[1] : c \in S})
MinZ(S) == Min({c[2] : c \in S})
MaxZ(S) == Max({c[2] : c \in S})
Bounding(S) == (MinX(S) .. MaxX(S)) \X (MinZ(S) .. MaxZ(S))
Side(S) == Max({MaxX(S) - MinX(S), MaxZ(S) - MinZ(S)}) + 1
Abs(n) == IF n < 0 THEN -n ELSE n
Square(S) == MaxX(S) - MinX(S) = MaxZ(S) - MinZ(S)

-----------------------------------------------------------------------------
(* Walls and footprints *)

WallComponents == {comp \in Components(scan.obstacle) : Cardinality(comp) >= MinWall}
ExtractWalls == Number(WallComponents)
WallUnion == UNION WallComponents

(* The gap between the middle of an edge and the walls, when small enough to close. *)
Gap(edge) ==
  LET d == Min({Max({Abs(edge[1] - c[1]), Abs(edge[2] - c[2])}) : c \in WallUnion}) - 1
  IN IF d \in 0 .. Backfill THEN d ELSE 0

BackfillToWalls(S) ==
  LET midX == (MinX(S) + MaxX(S)) \div 2
      midZ == (MinZ(S) + MaxZ(S)) \div 2
  IN IF WallUnion = {} THEN S
     ELSE (MinX(S) - Gap(<<MinX(S), midZ>>) .. MaxX(S) + Gap(<<MaxX(S), midZ>>))
            \X (MinZ(S) - Gap(<<midX, MinZ(S)>>) .. MaxZ(S) + Gap(<<midX, MaxZ(S)>>))

Footprints(inputs) ==
  {[o EXCEPT !.cells = BackfillToWalls(@)] : o \in {o \in inputs : o.bottom < Overhead}}

-----------------------------------------------------------------------------
(* Duplicates: dedupe.py.  Twice the distance of two rectangles' centres. *)

CentreD2(a, b) ==
  LET dx == MinX(a) + MaxX(a) - MinX(b) - MaxX(b)
      dz == MinZ(a) + MaxZ(a) - MinZ(b) - MaxZ(b)
  IN dx * dx + dz * dz

(* a stands before b in the list, and of equally large ones a counts as the larger. *)
Duplicate(a, b) ==
  LET shared == Cardinality(a.cells \intersect b.cells)
      larger == IF Cardinality(a.cells) >= Cardinality(b.cells) THEN a ELSE b
  IN /\ a.label = b.label
     /\ \/ 10 * shared > 3 * Cardinality(a.cells \union b.cells)
        \/ CentreD2(a.cells, b.cells) < Side(larger.cells) * Side(larger.cells)

Linked(a, b) == (a.id < b.id /\ Duplicate(a, b)) \/ (b.id < a.id /\ Duplicate(b, a))

(* _UnionFind: an object's cluster is what every set that no link leaves has with it. *)
Clusters(S) ==
  LET closed == {C \in SUBSET S : \A a \in C, b \in S \ C : ~Linked(a, b)}
  IN {{m \in S : \A C \in closed : o \in C => m \in C} : o \in S}

Winner(cluster) ==
  CHOOSE w \in cluster : \A o \in cluster :
    w.points > o.points \/ (w.points = o.points /\ w.id <= o.id)

MergeCluster(cluster) ==
  LET hull == UNION {o.hull : o \in cluster}
  IN [Winner(cluster) EXCEPT !.cells = Bounding(hull), !.hull = hull,
        !.bottom = Min({o.bottom : o \in cluster}), !.top = Max({o.top : o \in cluster}),
        !.points = MapThenSumSet(LAMBDA o : o.points, cluster)]

MergeDuplicates(S) == {IF Cardinality(k) = 1 THEN CHOOSE o \in k : TRUE ELSE MergeCluster(k) :
                         k \in Clusters(S)}

(* mutant of MergedAway: the first of a cluster is taken for the one kept. *)
MergedAwayFirst(S) == UNION {{o.id : o \in k} \ {Min({o.id : o \in k})} : k \in Clusters(S)}

MergedAway(S) == UNION {{o.id : o \in k \ {Winner(k)}} : k \in Clusters(S)}

-----------------------------------------------------------------------------
(* The small-object filter, the room, and what lies outside it *)

SmallKept(S) ==
  {o \in S :
     \/ Cardinality(o.cells) >= SmallArea /\ o.top - o.bottom >= SmallHeight
     \/ Touch(o.cells, WallUnion)
     \/ \E other \in S : other.id # o.id /\ Touch(o.cells, other.cells)}

FloorStanding(o) == o.bottom - scan.floor < FloorTouch

(* The grid is padded to cover the footprints that stick out of it. *)
Padded == (-Pad .. W - 1 + Pad) \X (-Pad .. H - 1 + Pad)
(* binary_fill_holes: what cannot reach the frame around the room. *)
Frame == (-Pad - 1 .. W + Pad) \X (-Pad - 1 .. H + Pad)
FillHoles(S) == S \union (Padded \ Surround(S, Frame))

GrowTimes(S, core, n) ==
  LET grown[i \in 0 .. n] == IF i = 0 THEN core ELSE Dilate(grown[i - 1], 1) \intersect S
  IN grown[n]

(* detach_corridor_spill *)
Detach(S) ==
  LET eroded == {c \in S : Disk(c, Opening) \subseteq S}
      opened == UNION {Disk(c, Opening) : c \in eroded}
      cores == Components(opened)
  IN IF cores = {} THEN S
     ELSE LargestOf(Components(GrowTimes(S, LargestOf(cores) \intersect S, Opening)))

(* binary_closing: dilate, then erode. *)
Close(S) == LET wide == Dilate(S, Closing) IN {c \in wide : Within(c, Closing) \subseteq wide}

(* build_room_mask: the largest free area and the footprints standing in it. *)
RoomMask(S) ==
  LET free == Components(scan.free)
      core == LargestOf(free)
      union == core \union UNION {o.cells : o \in {o \in S : FloorStanding(o)}}
      touching == {comp \in Components(Close(union)) : comp \intersect core # {}}
  IN IF free = {} THEN {} ELSE FillHoles(Detach(FillHoles(LargestOf(touching))))

Half(part, whole) == 2 * Cardinality(part) > Cardinality(whole)

(* _drop_or_clip_objects_outside_room, by the room just computed. *)
Outside(o, area) == area # {} /\ Half(o.cells \ area, o.cells)
ClipObject(o, area) ==
  IF area = {} \/ o.cells \subseteq area THEN o
  ELSE [o EXCEPT !.cells = Bounding(LargestOf(Components(o.cells \intersect area)))]

KeptWallIndices(area) ==
  {i \in DOMAIN ExtractWalls :
     area = {} \/ ~Half(ExtractWalls[i] \ Dilate(area, ClipMargin), ExtractWalls[i])}

ClipWall(w, area) ==
  IF area = {} THEN w ELSE LargestOf(Components(w \intersect Dilate(area, ClipMargin)))

(* The exported list: what is kept, numbered anew. *)
RankIn(S, i) == Cardinality({j \in S : j < i})
WallAt(kept, k) == CHOOSE i \in kept : RankIn(kept, i) = k
ExportedWalls(area) ==
  LET kept == KeptWallIndices(area)
  IN [k \in 0 .. Cardinality(kept) - 1 |-> ClipWall(ExtractWalls[WallAt(kept, k)], area)]

-----------------------------------------------------------------------------
(* The support rule and the class caps *)

TouchesWall(o) ==
  \/ \E i \in DOMAIN walls : Touch(o.cells, walls[i])
  \/ room # {} /\ \E c \in o.cells : ~(Within(c, 1) \subseteq room)

StandsOn(o, other) ==
  /\ other.id # o.id
  /\ o.cells \intersect other.cells # {}
  /\ o.bottom - other.top \in -(StackTouch - 1) .. StackTouch - 1

Supported(o, S) ==
  FloorStanding(o) \/ TouchesWall(o) \/ \E other \in S : StandsOn(o, other)

(* Dropping what nothing supports until nothing more falls leaves the largest set whose
   members support each other. *)
SupportRule(S) == UNION {T \in SUBSET S : \A o \in T : Supported(o, T)}

Rank(o, S) ==
  Cardinality({m \in S : /\ m.label = o.label
                         /\ \/ m.points > o.points
                            \/ m.points = o.points /\ Cardinality(m.hull) > Cardinality(o.hull)
                            \/ /\ m.points = o.points /\ Cardinality(m.hull) = Cardinality(o.hull)
                               /\ m.id <= o.id})
ClassCaps(S) == {o \in S : o.label \in DOMAIN Caps => Rank(o, S) <= Caps[o.label]}

-----------------------------------------------------------------------------
(* Gaps: the obstacle components are labelled again and counted like the walls. *)

(* mutant of ComponentIndex: the small components are counted too. *)
ComponentIndexAll(comp) ==
  Cardinality({x \in Components(scan.obstacle) : FirstCell(x) < FirstCell(comp)})

ComponentIndex(comp) == Cardinality({x \in WallComponents : FirstCell(x) < FirstCell(comp)})

WallSources(kept) ==
  {[id |-> <<"wall", RankIn(kept, ComponentIndex(comp))>>, mask |-> comp] :
     comp \in {comp \in WallComponents : ComponentIndex(comp) \in kept}}
Sources(kept) == WallSources(kept) \union {[id |-> <<"object", o.id>>, mask |-> o.cells] : o \in objs}

Distance(c, mask) == Min({(c[1] - d[1]) * (c[1] - d[1]) + (c[2] - d[2]) * (c[2] - d[2]) : d \in mask})
NearestSource(c, S) == CHOOSE s \in S : \A t \in S : Distance(c, s.mask) <= Distance(c, t.mask)

ComputeGaps(kept) ==
  LET S == {s \in Sources(kept) : s.mask # {}}
      open == (Cells \ scan.obstacle) \ UNION {s.mask : s \in S}
      near == [c \in open |-> NearestSource(c, S)]
      pairs == {p \in open \X open : p[2] \in {<<p[1][1] + 1, p[1][2]>>, <<p[1][1], p[1][2] + 1>>}}
  IN IF S = {} THEN {} ELSE {{near[p[1]], near[p[2]]} : p \in {p \in pairs : near[p[1]].id # near[p[2]].id}}

-----------------------------------------------------------------------------
(* The yaw: which estimate turns the scene, or "none" *)

Reconcile(hull, outline) ==
  CASE hull = "long" -> "wall_hull"
    [] hull # "long" /\ outline # "none" -> "room_polygon"
    [] OTHER -> IF hull = "none" THEN "none" ELSE "wall_hull"

Shape(S) == IF S = {} THEN "none" ELSE IF Square(S) THEN "square" ELSE "long"
Applied(area) == Reconcile(Shape(WallUnion), Shape(area))

-----------------------------------------------------------------------------
(* One run: computed in memory, then written file after file. *)

Order == <<"cameras", "gaps", "meta", "glb", "plan", "usd", "render", "report", "objects">>
BestEffort == {"cameras", "usd", "render"}
Computing == {"footprints", "merge", "small", "room", "support", "caps", "measure", "rotate"}
Things == {"objects", "walls", "room", "gaps"}

Ids(S) == {o.id : o \in S}
Took(stage, ids) == out' = [out EXCEPT ![stage] = ids]

Init ==
  /\ scan \in Scans /\ pc = "idle" /\ objs = {} /\ out = [s \in Stages |-> {}]
  /\ walls = << >> /\ room = {} /\ gaps = {} /\ frame = [t \in Things |-> "scan"]
  /\ files = [a \in Range(Order) |-> 0] /\ runs = 0

(* A run over the same output directory, of a scene that may have been rebuilt; a grid
   indexed the wrong way round ends it at once. *)
Start ==
  /\ pc = "idle" /\ runs < MaxRuns
  /\ runs' = runs + 1 /\ scan' \in Scans
  /\ pc' = IF scan'.framed THEN "footprints" ELSE "idle"
  /\ objs' = {} /\ out' = [s \in Stages |-> {}] /\ walls' = << >> /\ room' = {} /\ gaps' = {}
  /\ frame' = [t \in Things |-> "scan"] /\ UNCHANGED files

ComputeFootprints ==
  /\ pc = "footprints" /\ pc' = "merge"
  /\ objs' = Footprints(scan.objects)
  /\ Took("overhead", {o.id : o \in {o \in scan.objects : o.bottom >= Overhead}})
  /\ UNCHANGED <<scan, walls, room, gaps, frame, files, runs>>

Merge ==
  /\ pc = "merge" /\ pc' = "small"
  /\ objs' = MergeDuplicates(objs) /\ Took("merged", MergedAway(objs))
  /\ UNCHANGED <<scan, walls, room, gaps, frame, files, runs>>

DropSmall ==
  /\ pc = "small" /\ pc' = "room"
  /\ objs' = SmallKept(objs) /\ Took("small", Ids(objs \ SmallKept(objs)))
  /\ UNCHANGED <<scan, walls, room, gaps, frame, files, runs>>

DropOutside ==
  /\ pc = "room" /\ pc' = "support"
  /\ room' = RoomMask(objs)
  /\ walls' = ExportedWalls(room')
  /\ objs' = {ClipObject(o, room') : o \in {o \in objs : ~Outside(o, room')}}
  /\ Took("outside", Ids({o \in objs : Outside(o, room')}))
  /\ UNCHANGED <<scan, gaps, frame, files, runs>>

DropFloating ==
  /\ pc = "support" /\ pc' = "caps"
  /\ objs' = SupportRule(objs) /\ Took("floating", Ids(objs \ SupportRule(objs)))
  /\ UNCHANGED <<scan, walls, room, gaps, frame, files, runs>>

CapClasses ==
  /\ pc = "caps" /\ pc' = "measure"
  /\ objs' = ClassCaps(objs) /\ Took("capped", Ids(objs \ ClassCaps(objs)))
  /\ UNCHANGED <<scan, walls, room, gaps, frame, files, runs>>

MeasureGaps ==
  /\ pc = "measure" /\ pc' = "rotate"
  /\ gaps' = ComputeGaps(KeptWallIndices(room))
  /\ UNCHANGED <<scan, objs, out, walls, room, frame, files, runs>>

Rotate ==
  /\ pc = "rotate" /\ pc' = "cameras"
  /\ frame' = [t \in Things |-> IF Applied(room) = "none" THEN "scan" ELSE "room"]
  /\ UNCHANGED <<scan, objs, out, walls, room, gaps, files, runs>>

After(a) == LET i == CHOOSE i \in DOMAIN Order : Order[i] = a
            IN IF i = Len(Order) THEN "idle" ELSE Order[i + 1]

(* cameras_aligned.json is written only when the scene was turned. *)
Skipped(a) == a = "cameras" /\ frame["walls"] = "scan"

Write(a) ==
  /\ pc = a
  /\ \/ ~Skipped(a) /\ files' = [files EXCEPT ![a] = runs] /\ pc' = After(a)
     \/ Skipped(a) /\ pc' = After(a) /\ UNCHANGED files
     \/ a \in BestEffort /\ ~Skipped(a) /\ pc' = After(a) /\ UNCHANGED files
     \/ a \notin BestEffort /\ pc' = "idle" /\ UNCHANGED files
  /\ UNCHANGED <<scan, objs, out, walls, room, gaps, frame, runs>>

Next ==
  \/ Start \/ ComputeFootprints \/ Merge \/ DropSmall \/ DropOutside
  \/ DropFloating \/ CapClasses \/ MeasureGaps \/ Rotate
  \/ \E a \in Range(Order) : Write(a)

-----------------------------------------------------------------------------
(* Properties *)

TypeOK ==
  /\ scan \in Scans /\ pc \in {"idle"} \union Computing \union Range(Order)
  /\ Ids(objs) \subseteq Ids(scan.objects) /\ out \in [Stages -> SUBSET Ids(scan.objects)]
  /\ \A i \in DOMAIN walls : walls[i] # {} /\ walls[i] \subseteq scan.obstacle
  /\ room \subseteq Padded /\ frame \in [Things -> {"scan", "room"}]
  /\ files \in [Range(Order) -> 0 .. runs] /\ runs \in 0 .. MaxRuns

(* Whatever was merged, clipped and filtered, every detected object is either in the list
   or recorded by exactly one stage that took it out.  Code: the stages of run_bootstrap
   and the ids each returns for report.json. *)
EveryObjectAccounted ==
  pc \notin {"idle", "footprints"} =>
    \A id \in Ids(scan.objects) :
      Cardinality({s \in Stages : id \in out[s]}) = IF id \in Ids(objs) THEN 0 ELSE 1

(* A gap names a wall by the number it is exported under: that wall is a piece of the
   obstacle the gap was measured to, though the components are labelled a second time and
   walls were dropped and clipped in between.  Code: the renumbering in run_bootstrap. *)
GapsNameWalls ==
  \A g \in gaps : \A s \in g : s.id[1] = "wall" =>
    s.id[2] \in DOMAIN walls /\ walls[s.id[2]] \subseteq s.mask
=============================================================================
