------------------------------ MODULE NavGrid ------------------------------
(***************************************************************************)
(* The planner of app/services/pathfinding.py and                          *)
(* app/services/goal_resolution.py: goal and start rules, plans and        *)
(* reachability of a round robot.                                          *)
(***************************************************************************)
EXTENDS NavSearch

-----------------------------------------------------------------------------
(* Snapping and regions *)

(* NoCell stands for NoPathError. *)
NearestFree(cost, c, radius) ==
  LET near == {n \in cost.open : Chebyshev(n, c) <= radius}
      Key(n) == Chebyshev(n, c) * 1000 + D2(n, c)
  IN IF near = {} THEN NoCell ELSE FirstBy(near, Key)

SnapIfBlocked(cost, c, radius) == IF Passable(cost, c) THEN c ELSE NearestFree(cost, c, radius)

(* max(..., key=len): of equal ones the first the scan meets. *)
Largest(cost) ==
  LET comps == AllComponents(cost)
      Rank(comp) == Min({ScanRank(c) : c \in comp})
  IN IF comps = {} THEN {}
     ELSE CHOOSE x \in comps : \A y \in comps :
            \/ Cardinality(x) > Cardinality(y)
            \/ Cardinality(x) = Cardinality(y) /\ Rank(x) <= Rank(y)

NearestMember(comp, c) == LET Key(n) == D2(n, c) IN FirstBy(comp, Key)

RelocateIfIsolated(cost, c) ==
  LET largest == Largest(cost)
  IN IF Cardinality(Component(cost, c)) > Isolated \/ largest = {} THEN c
     ELSE NearestMember(largest, c)

-----------------------------------------------------------------------------
(* Goal rule: app/services/goal_resolution.py *)

(* distance_transform_edt >= need; every grid asked about has an obstacle. *)
Clear(grid, c, need) == \A o \in grid.obstacle : 4 * D2(c, o) >= need * need

TargetD2(c, fp) ==
  LET p == CellToWorld(c)
      dx == Higher(0, Higher(fp.x0 - p[1], p[1] - fp.x1))
      dz == Higher(0, Higher(fp.z0 - p[2], p[2] - fp.z1))
  IN dx * dx + dz * dz

OverlapsGrid(fp) == fp.x0 <= 2 * W /\ fp.x1 >= 0 /\ fp.z0 <= 2 * H /\ fp.z1 >= 0

(* start = NoCell: start_cell not given. *)
GoalAmong(clear, drivable, fp, start) ==
  LET ok == IF start = NoCell THEN clear ELSE clear \intersect LabelFrom(drivable, start)
      Key(c) == TargetD2(c, fp)
      Fails(why) == [why |-> why, cell |-> NoCell]
  IN CASE ~OverlapsGrid(fp) -> Fails("outside_grid")
       [] OverlapsGrid(fp) /\ clear = {} -> Fails("no_free_cell_within_2m")
       [] OverlapsGrid(fp) /\ clear # {} /\ start # NoCell /\ start \notin drivable ->
            Fails("start_disconnected")
       [] OTHER -> IF ok = {} THEN Fails("disconnected")
                   ELSE [why |-> "ok", cell |-> FirstBy(ok, Key)]

ResolveGoal(grid, fp, radius, start) ==
  GoalAmong({c \in Cells : TargetD2(c, fp) <= Search * Search /\ Clear(grid, c, radius + Margin)},
            {c \in Cells : Clear(grid, c, radius)}, fp, start)

-----------------------------------------------------------------------------
(* Planning and reachability *)

NoRoute(why) == [ok |-> FALSE, why |-> why, route |-> <<>>]

RouteAlong(cost, path) ==
  IF path = <<>> THEN NoRoute("no_path")
  ELSE [ok |-> TRUE, why |-> "ok", route |-> SmoothPath(cost, path)]

RouteTo(cost, start, goal) ==
  CASE goal.why = "ok" -> RouteAlong(cost, Astar(cost, start, goal.cell))
    [] goal.why = "start_disconnected" -> NoRoute("raised")
    [] OTHER -> NoRoute("no_path")

(* mutant of PlanOn: the goal is chosen without the start. *)
PlanAnyGoal(obstacles, cost, start, fp, radius) ==
  RouteTo(cost, start, ResolveGoal(obstacles, fp, radius, NoCell))

PlanOn(obstacles, cost, start, fp, radius) ==
  RouteTo(cost, start, ResolveGoal(obstacles, fp, radius, start))

PlanIn(obstacles, cost, from, fp, radius) ==
  LET snapped == SnapIfBlocked(cost, from, Snap)
  IN IF from = NoCell THEN NoRoute("raised")
     ELSE IF snapped = NoCell THEN NoRoute("no_path")
     ELSE PlanOn(obstacles, cost, RelocateIfIsolated(cost, snapped), fp, radius)

CostOf(obstacles, radius) == CostGrid(Inflate(obstacles, radius))

(* [ok, why, route]: plan_to_object; why is "raised" where what it raises is not
   NoPathError. *)
PlanToObject(grid, from, fp, radius, fps) ==
  PlanIn(Rasterize(grid, fps), CostOf(Rasterize(grid, fps), radius), WorldToCell(from), fp, radius)

(* NoCell with status "none"; the anchor itself is kept where its cell fits. *)
StartIn(largest, anchor, at) ==
  LET cell == NearestMember(largest, at)
  IN IF largest = {} THEN [status |-> "none", cell |-> NoCell, point |-> anchor]
     ELSE IF cell = at THEN [status |-> "original", cell |-> cell, point |-> anchor]
     ELSE [status |-> "moved", cell |-> cell, point |-> CellToWorld(cell)]

StartForRadius(cost, anchor) == StartIn(Largest(cost), anchor, ClampAnchor(anchor))

(* resolve_robot_start's point; NoCell where it raises.  Its snap is half the planner's. *)
BusierPoint(cost, from, given, snapped, goals) ==
  LET start == RelocateIfIsolated(cost, snapped)
      untouched == snapped = given /\ Cardinality(Component(cost, given)) > Isolated
      Reached(comp) == Cardinality({o \in DOMAIN goals : goals[o] \in comp})
      here == Reached(Component(cost, start))
  IN IF 2 * here >= Cardinality(DOMAIN goals) \/ Reached(Largest(cost)) <= here
     THEN IF untouched THEN from ELSE CellToWorld(start)
     ELSE CellToWorld(NearestMember(Largest(cost), start))

ResolveRobotStartIn(obstacles, cost, from, objs, radius) ==
  LET given == WorldToCell(from)
      snapped == SnapIfBlocked(cost, given, CeilHalf(Snap))
  IN IF given = NoCell \/ snapped = NoCell THEN NoCell
     ELSE BusierPoint(cost, from, given, snapped,
            [o \in DOMAIN objs |-> ResolveGoal(obstacles, objs[o], radius, NoCell).cell])

ResolveRobotStart(grid, from, objs, radius) ==
  ResolveRobotStartIn(Rasterize(grid, Range(objs)), CostOf(Rasterize(grid, Range(objs)), radius),
                      from, objs, radius)

(* objs: object id |-> footprint. *)
ReachedFrom(cost, start, comp, goal) ==
  LET reach == {o \in DOMAIN goal : goal[o].why = "ok" /\ goal[o].cell \in comp}
  IN [start |-> start, reachable |-> reach, component |-> comp,
      routes |-> [o \in reach |-> SmoothPath(cost, Astar(cost, start.cell, goal[o].cell))],
      why |-> [o \in DOMAIN goal \ reach |->
                 IF goal[o].why = "ok" THEN "disconnected" ELSE goal[o].why]]

ReachabilityFrom(obstacles, cost, start, objs, radius) ==
  IF start.cell = NoCell
  THEN [start |-> start, reachable |-> {}, component |-> {}, routes |-> << >>,
        why |-> [o \in DOMAIN objs |-> "robot_does_not_fit"]]
  ELSE ReachedFrom(cost, start, Component(cost, start.cell),
         [o \in DOMAIN objs |-> ResolveGoal(obstacles, objs[o], radius, start.cell)])

ReachabilityIn(obstacles, cost, anchor, objs, radius) ==
  ReachabilityFrom(obstacles, cost, StartForRadius(cost, anchor), objs, radius)

ComputeReachability(grid, anchor, objs, radius) ==
  ReachabilityIn(Rasterize(grid, Range(objs)), CostOf(Rasterize(grid, Range(objs)), radius),
                 anchor, objs, radius)

=============================================================================
