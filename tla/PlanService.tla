---------------------------- MODULE PlanService ----------------------------
(***************************************************************************)
(* The planning side of the scene API: the navigation layer on disk, the   *)
(* caches of nav_layer.py and pathfinding.py, GET /reachability with its   *)
(* what-if moves, and POST /command from the row it creates, over the wait *)
(* for the chat model, to the row's outcome.  A backfill writes the layer  *)
(* file by file from another process; a rerun replaces the scene's object  *)
(* rows; the scene may be deleted while a command waits for the model.     *)
(***************************************************************************)
EXTENDS NavGrid, Footprint

CONSTANTS
  Layouts,      \* rooms: [heights, unseen, objects, fragments, camera, inside, gone, shift]
  Robots,       \* platforms: [radius, height]
  Moves,        \* what-if displacements
  Places,       \* world points a client may send as `from`
  Texts,        \* what the chat model makes of a typed command
  MaxRequests,  \* bound on requests
  Faults        \* which of FaultKinds may happen

(* "rerun": the scene is processed again, its object rows replaced.
   "rewrite": a backfill over a scene that already has a layer.
   "delete": the scene is deleted. *)
FaultKinds == {"rerun", "rewrite", "delete"}

ASSUME ServiceAssumption ==
  /\ MaxRequests \in Nat
  /\ Faults \subseteq FaultKinds
ASSUME LayoutsAssumption ==
  \A r \in Layouts :
    /\ r.heights \in [Cells -> Nat] /\ r.unseen \subseteq Cells
    /\ r.objects \in [DOMAIN r.objects -> Footprints]
    /\ {r.camera, r.inside, r.shift} \subseteq Int \X Int
ASSUME RobotsAssumption == Robots \subseteq [radius : Nat, height : Nat]
ASSUME ClientsAssumption ==
  /\ Places \subseteq Int \X Int
  /\ \A moves \in Moves : \A o \in DOMAIN moves : moves[o] \in Int \X Int
  /\ \A t \in Texts : t.action = "error" => t.why # "ok"

VARIABLES
  room,      \* the layout the scene was scanned from
  disk,      \* the layer's files: [grid, heights: version or 0, meta: BOOLEAN]
  scene,     \* [there, objects: a version, start: the persisted robot start]
  cellsMem,  \* nav_layer._CELLS_CACHE: <<heights version, height>> |-> cells
  reachMem,  \* _REACHABILITY_CACHE: <<grid version, robot>> |-> result
  req,       \* the request being served
  rows,      \* the commands table: sequence of rows
  used       \* requests made

vars == <<room, disk, scene, cellsMem, reachMem, req, rows, used>>

Idle == [kind |-> "none"]
Typed == [action |-> "typed"]
(* What the model may put where the name of an object belongs: a number, a list. *)
NotAName == "not_a_name"
(* A clicked object is a goto without the model. *)
Clicks == {t \in Texts : /\ t.action = "goto" /\ t.target \in DOMAIN room.objects
                         /\ t.destination = "none"}

ObjectIds == DOMAIN room.objects
(* What GET /reachability counts: _footprints leaves the fragments out. *)
Whole == ObjectIds \ room.fragments
Keep(f, S) == [o \in S |-> f[o]]

(* A cache with one entry more. *)
With(mem, key, value) == [k \in DOMAIN mem \union {key} |-> IF k = key THEN value ELSE mem[k]]

(* A rerun detects the objects again: the new rows are the old ones shifted. *)
ObjectsNow == IF scene.objects = 1 THEN room.objects
              ELSE [o \in ObjectIds |-> Translate(room.objects[o], room.shift)]

-----------------------------------------------------------------------------
(* The layer, by version: a backfill over an existing layer reads a cloud that has lost
   what stood at room.gone. *)

HeightsOf(v) == IF v = 1 THEN room.heights
                ELSE [c \in Cells |-> IF c = room.gone THEN 0 ELSE room.heights[c]]

(* heights: 0 nothing, 1 below every roof, 2 above the low robot's. *)
TriState(heights, unseen, height) ==
  [obstacle |-> {c \in Cells \ unseen : heights[c] \in 1 .. height}, unknown |-> unseen]

(* The shipped grid is the default platform's view. *)
GridOf(v) == TriState(HeightsOf(v), room.unseen, 1)

(* mutant of HasLayer: the metadata, written last, is not asked for. *)
HasGrid == disk.grid # 0

HasLayer == disk.grid # 0 /\ disk.meta

(* cells_for_height: the cells and the cache after the call. *)
CellsForHeight(h) ==
  LET key == <<disk.heights, h>>
      derived == TriState(HeightsOf(disk.heights), GridOf(disk.grid).unknown, h)
  IN IF disk.heights = 0 THEN [cells |-> GridOf(disk.grid), mem |-> cellsMem]
     ELSE IF key \in DOMAIN cellsMem THEN [cells |-> cellsMem[key], mem |-> cellsMem]
     ELSE [cells |-> derived, mem |-> With(cellsMem, key, derived)]

Anchor ==
  LET centre == CellToWorld(<<W \div 2, H \div 2>>)
      candidates == <<room.camera, scene.start, centre>>
      usable == {i \in 1 .. 3 : ClampAnchor(candidates[i]) # NoCell}
  IN candidates[Min(usable)]

-----------------------------------------------------------------------------
Init ==
  /\ room \in Layouts
  /\ disk \in {[grid |-> 0, heights |-> 0, meta |-> FALSE], [grid |-> 1, heights |-> 1, meta |-> TRUE]}
  /\ LET start == ResolveRobotStart(GridOf(1), room.inside, Keep(room.objects, Whole), 1)
     IN /\ start # NoCell  \* else the scene was never done
        /\ scene = [there |-> TRUE, objects |-> 1, start |-> start]
  /\ cellsMem = << >>
  /\ reachMem = << >>
  /\ req = Idle
  /\ rows = <<>>
  /\ used = 0

NewRequest == req.kind = "none" /\ scene.there /\ used < MaxRequests /\ used' = used + 1

(* get_reachability up to the layer's cells.  Without a layer it answers at once. *)
Reachability(robot, moves) ==
  /\ NewRequest
  /\ DOMAIN moves \subseteq Whole
  /\ IF HasLayer
     THEN LET got == CellsForHeight(robot.height)
          IN /\ cellsMem' = got.mem
             /\ req' = [kind |-> "reach", robot |-> robot, moves |-> moves, cells |-> got.cells,
                        objects |-> Keep(ObjectsNow, Whole)]
     ELSE /\ req' = [kind |-> "answered", available |-> FALSE]
          /\ UNCHANGED cellsMem
  /\ UNCHANGED <<room, disk, scene, reachMem, rows>>

WhatIf(r) ==
  LET cut == CutFootprints(r.cells, {r.objects[o] : o \in DOMAIN r.moves})
      placed == [o \in DOMAIN r.objects |->
                   IF o \in DOMAIN r.moves THEN Translate(r.objects[o], r.moves[o]) ELSE r.objects[o]]
  IN ComputeReachability(cut, Anchor, placed, r.robot.radius)

(* compute_reachability_cached, or compute_reachability for a what-if. *)
AnswerReachability ==
  /\ req.kind = "reach"
  /\ LET key == <<disk.grid, req.robot>>
         kept == DOMAIN req.moves = {} /\ key \notin DOMAIN reachMem
         result == IF DOMAIN req.moves # {} THEN WhatIf(req)
                   ELSE IF key \in DOMAIN reachMem THEN reachMem[key]
                   ELSE ComputeReachability(req.cells, Anchor, req.objects, req.robot.radius)
     IN /\ reachMem' = IF kept THEN With(reachMem, key, result) ELSE reachMem
        /\ req' = [kind |-> "answered", available |-> TRUE, robot |-> req.robot,
                   moves |-> req.moves, result |-> result, cells |-> req.cells]
  /\ UNCHANGED <<room, disk, scene, cellsMem, rows, used>>

(* post_command: 409 without a layer, else the row is committed as pending and the
   command waits: for the model if it was typed, not at all if an object was clicked. *)
PostCommand(text, robot, from) ==
  /\ NewRequest
  /\ IF HasLayer
     THEN LET got == CellsForHeight(robot.height)
          IN /\ cellsMem' = got.mem
             /\ rows' = Append(rows, [status |-> "pending", legs |-> <<>>, by |-> "none", unfit |-> FALSE])
             /\ req' = [kind |-> "command", text |-> text, robot |-> robot, cells |-> got.cells,
                        from |-> IF from = NoCell THEN scene.start ELSE from,
                        objects |-> ObjectsNow]
     ELSE req' = [kind |-> "answered", available |-> FALSE] /\ UNCHANGED <<cellsMem, rows>>
  /\ UNCHANGED <<room, disk, scene, reachMem>>

Steps(leg1, leg2) ==
  CASE ~leg1.ok -> [why |-> leg1.why, legs |-> <<>>]
    [] leg1.ok /\ ~leg2.ok -> [why |-> leg2.why, legs |-> <<>>]
    [] OTHER -> [why |-> "ok", legs |-> <<leg1.route, leg2.route>>]

Leg(r, from, object) ==
  PlanToObject(r.cells, from, r.objects[object], r.robot.radius, Range(r.objects))

SecondLeg(r, parsed, leg1) == Leg(r, CellToWorld(Last(leg1.route)), parsed.destination)

(* build_steps: one leg, or for "take" a second from where the first ends. *)
BuildSteps(r, parsed) ==
  LET leg1 == Leg(r, r.from, parsed.target)
  IN CASE parsed.action = "take" /\ parsed.destination = "none" ->
            [why |-> "no_destination", legs |-> <<>>]
       [] parsed.action # "take" ->
            [why |-> leg1.why, legs |-> IF leg1.ok THEN <<leg1.route>> ELSE <<>>]
       [] OTHER -> Steps(leg1, SecondLeg(r, parsed, leg1))

(* resolve_object: what is not a string has no strip(). *)
Resolve(r, name) == IF name = NotAName THEN "raised"
                    ELSE IF name \in DOMAIN r.objects THEN "ok" ELSE "not_found"

(* The target first; a destination that is given is resolved whatever the action. *)
Resolved(r, parsed) ==
  IF Resolve(r, parsed.target) # "ok" \/ parsed.destination = "none" THEN Resolve(r, parsed.target)
  ELSE Resolve(r, parsed.destination)

StatusFor(why) == CASE why = "ok" -> "done" [] why = "raised" -> "pending" [] OTHER -> "failed"

(* mutant of Recorded: NoPathError is not caught. *)
RecordedUncaught(built) ==
  [status |-> IF built.why = "no_path" THEN "pending" ELSE StatusFor(built.why),
   legs |-> built.legs, why |-> built.why]

(* The row's outcome; "raised": what is caught nowhere leaves the row as it is. *)
Recorded(built) == [status |-> StatusFor(built.why), legs |-> built.legs, why |-> built.why]

(* An answer that is no JSON, or whose choices or content are null, raises in chat_json. *)
Outcome(r, parsed) ==
  IF parsed.action = "error" THEN Recorded([why |-> parsed.why, legs |-> <<>>])
  ELSE IF Resolved(r, parsed) # "ok" THEN Recorded([why |-> Resolved(r, parsed), legs |-> <<>>])
  ELSE Recorded(BuildSteps(r, parsed))

(* The input execute_command has no except clause for. *)
Unfit(parsed, from) ==
  \/ parsed.action = "error" /\ parsed.why = "raised"
  \/ parsed.action # "error" /\ NotAName \in {parsed.target, parsed.destination}
  \/ ~OnGrid(from)

(* execute_command after the model's answer.  The commit fails when the row went with
   the scene. *)
ExecuteCommand(parsed) ==
  /\ req.kind = "command"
  /\ req.text = Typed \/ parsed = req.text
  /\ LET out == Outcome(req, parsed)
         i == Len(rows)
     IN /\ rows' = IF rows = <<>> THEN rows
                   ELSE [rows EXCEPT ![i] = [status |-> out.status, legs |-> out.legs,
                                             by |-> IF req.text = Typed THEN "model" ELSE "none",
                                             unfit |-> Unfit(parsed, req.from)]]
        /\ req' = [kind |-> "executed", parsed |-> parsed, robot |-> req.robot, cells |-> req.cells,
                   objects |-> req.objects, from |-> req.from, why |-> out.why,
                   saved |-> rows # <<>>]
  /\ UNCHANGED <<room, disk, scene, cellsMem, reachMem, used>>

Reply ==
  /\ req.kind \in {"answered", "executed"}
  /\ req' = Idle
  /\ UNCHANGED <<room, disk, scene, cellsMem, reachMem, rows, used>>

-----------------------------------------------------------------------------
(* Another process *)

(* backfill_one's writes: the grid, the heights, the metadata last.  Only a rewrite finds
   a layer there. *)
Backfilling == disk.grid # disk.heights \/ (disk.grid # 0 /\ ~disk.meta)

WriteGrid ==
  /\ ~Backfilling
  /\ scene.there
  /\ disk.grid = 0 \/ (disk.grid = 1 /\ "rewrite" \in Faults)
  /\ disk' = [disk EXCEPT !.grid = @ + 1]
  /\ UNCHANGED <<room, scene, cellsMem, reachMem, req, rows, used>>

WriteHeights ==
  /\ disk.grid # disk.heights
  /\ disk' = [disk EXCEPT !.heights = disk.grid]
  /\ UNCHANGED <<room, scene, cellsMem, reachMem, req, rows, used>>

WriteMeta ==
  /\ disk.grid # 0 /\ disk.grid = disk.heights /\ ~disk.meta
  /\ disk' = [disk EXCEPT !.meta = TRUE]
  /\ UNCHANGED <<room, scene, cellsMem, reachMem, req, rows, used>>

(* A rerun of the pipeline ends: replace_scene_objects, and no invalidate_grid. *)
Rerun ==
  /\ "rerun" \in Faults /\ scene.there /\ scene.objects = 1 /\ req.kind \in {"none", "command"}
  /\ scene' = [scene EXCEPT !.objects = 2]
  /\ UNCHANGED <<room, disk, cellsMem, reachMem, req, rows, used>>

(* DELETE /scenes/{id}: the caches, the directory, the row and its commands. *)
DeleteScene ==
  /\ "delete" \in Faults /\ scene.there /\ req.kind \in {"none", "command"}
  /\ scene' = [scene EXCEPT !.there = FALSE]
  /\ disk' = [grid |-> 0, heights |-> 0, meta |-> FALSE]
  /\ reachMem' = << >>
  /\ rows' = <<>>
  /\ UNCHANGED <<room, cellsMem, req, used>>

Next ==
  \/ \E robot \in Robots, moves \in Moves : Reachability(robot, moves)
  \/ AnswerReachability
  \/ \E text \in Clicks \union {Typed}, robot \in Robots, from \in Places \union {NoCell} :
       PostCommand(text, robot, from)
  \/ \E parsed \in Texts : ExecuteCommand(parsed)
  \/ Reply
  \/ WriteGrid \/ WriteHeights \/ WriteMeta
  \/ Rerun
  \/ DeleteScene

Spec == Init /\ [][Next]_vars

-----------------------------------------------------------------------------
(* Properties *)

Points == (-8 .. 2 * W + 8) \X (-8 .. 2 * H + 8)

(* What is kept between requests has its shape. *)
TypeOK ==
  /\ disk \in [grid : 0 .. 2, heights : 0 .. 2, meta : BOOLEAN]
  /\ scene \in [there : BOOLEAN, objects : 1 .. 2, start : Points]
  /\ \A k \in DOMAIN cellsMem : cellsMem[k] \in Grids
  /\ \A k \in DOMAIN reachMem : reachMem[k].reachable \subseteq Whole
  /\ \A i \in DOMAIN rows : rows[i].status \in {"pending", "done", "failed"}
  /\ used \in 0 .. MaxRequests

(* An answer without moves, on a scene that was not processed again: after a rerun the
   cached answer is the old rows' until the process restarts. *)
Answered ==
  req.kind = "answered" /\ req.available /\ DOMAIN req.moves = {} /\ scene.objects = 1

(* No route crosses a cell the robot does not fit in, nor one GET /map shows it as an
   obstacle: compute_reachability's "This is always 0" (pathfinding.py:1139), and the legs
   of a command. *)
RoutesAreClear ==
  /\ Answered => \A o \in req.result.reachable :
       RouteCells(req.result.routes[o])
         \intersect (CellsForHeight(req.robot.height).cells.obstacle
                      \union Inflate(Rasterize(req.cells, Range(Keep(ObjectsNow, Whole))),
                                     req.robot.radius).obstacle) = {}
  /\ req.kind = "executed" /\ req.saved => \A leg \in Range(Last(rows).legs) :
       RouteCells(leg)
         \intersect Inflate(Rasterize(req.cells, Range(req.objects)), req.robot.radius).obstacle = {}

(* compute_reachability agrees with plan_to_object: from the start it reports, an object
   is reachable exactly when a goto to it finds a route (no fragments, no rerun), if that
   start is near enough to the grid for plan_to_object to take it. *)
ReachableMeansRoutable ==
  Answered /\ OnGrid(req.result.start.point) => \A o \in Whole :
    (o \in req.result.reachable) <=>
      PlanToObject(req.cells, req.result.start.point, ObjectsNow[o], req.robot.radius,
                   Range(Keep(ObjectsNow, Whole))).ok

(* The caches never answer for another layer, another robot or a what-if: an answer
   without moves is what the scene's files and rows give now, a backfill of a scene
   without a layer included. *)
AnswerIsCurrent ==
  Answered => req.result = ComputeReachability(CellsForHeight(req.robot.height).cells, Anchor,
                                               Keep(ObjectsNow, Whole), req.robot.radius)

(* Of execute_command's "success or failure, never discarded", what holds: once its request
   is over a command has its route if it is done and none otherwise, and it is left pending
   only by the model's malformed answer or by a start off the grid, whatever else goes wrong:
   no route, a second leg without one, an object that is not there, a destination left out. *)
CommandRecorded ==
  req.kind # "command" => \A i \in DOMAIN rows :
    /\ rows[i].status = "pending" => rows[i].unfit
    /\ rows[i].status = "done" <=> rows[i].legs # <<>>
    /\ rows[i].status = "done" => ~rows[i].unfit

(* Every way three cells by two may be open, and dear to enter. *)
CornerGrids ==
  UNION {[open : {open}, dear : SUBSET open] : open \in SUBSET (Cells \intersect ((0 .. 2) \X (0 .. 1)))}

(* The grids of the rooms and robots, before anything is cut from them. *)
RoomGrids ==
  {CostGrid(Inflate(TriState(r.heights, r.unseen, robot.height), robot.radius)) :
     r \in Layouts, robot \in Robots}

SearchedRight ==
  \A cost \in CornerGrids \union RoomGrids :
    /\ RegionsAreSound(cost)
    /\ \A start \in cost.open \intersect ((0 .. 2) \X (0 .. 1)) : SearchIsRight(cost, start)

(* astar finds a route exactly to the cells of the start's component ("the goal cell is in
   the start's component, so astar always finds a route"), a cheapest one, which smoothing
   keeps on cells the robot may enter: in every corner and on the rooms' own grids. *)
AstarFindsCheapest == used = 0 => SearchedRight

(* Whatever the fixed-heading flood of footprint.py reports reachable, the search over
   headings reaches from that heading: the simplification errs on one side only. *)
RectangleIsSound ==
  used = 0 =>
    LET cells == TriState(room.heights, room.unseen, 1)
        cost == CostGrid(cells)
        fits == PosesFree(cost, 4, 1)
        found == FootprintReachability(cells, room.camera, room.points, 4, 1)
    IN \A o \in DOMAIN found : \A k \in found[o].headings :
         LET from == <<found[o].start, k>>
         IN from \in fits /\ <<found[o].goal, k>> \in Se2Flood(cost, fits, from)

-----------------------------------------------------------------------------
(* What the repository says of itself and the model contradicts: README, "Disagreements
   found".  No run is spent on it. *)

(* "persist the result on the Command row - success or failure, never discarded"
   (command_service.py:180): an answer of the model that is no JSON, a target that is no
   string and a `from` off the grid raise what no except clause there names. *)
NeverDiscarded == req.kind # "command" => \A i \in DOMAIN rows : rows[i].status # "pending"

(* The same (pathfinding.py:1129) of a goto from the start that is reported, which may be a
   first camera pose up to a metre outside: beyond two cells plan_to_object raises. *)
StartIsRoutable == Answered => OnGrid(req.result.start.point)

(* "It never reports an object reachable that a real goto would then fail to reach, or
   vice versa" (pathfinding.py:1129): of a goto from the scene's start. *)
GotoAgrees ==
  (req.kind = "executed" /\ req.parsed.action = "goto" /\ req.from = scene.start) =>
    ((req.why = "ok") <=>
       req.parsed.target \in ComputeReachability(req.cells, Anchor, Keep(ObjectsNow, Whole),
                                                 req.robot.radius).reachable)
=============================================================================
