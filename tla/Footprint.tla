----------------------------- MODULE Footprint -----------------------------
(***************************************************************************)
(* The rectangular robot of app/services/footprint.py, with four headings, *)
(* so that a heading turns the rectangle's axes onto the grid's.           *)
(***************************************************************************)
EXTENDS NavSearch

Headings == 0 .. 3

FootprintOffsets(len, wid, k) ==
  LET hx == IF k \in {0, 2} THEN len ELSE wid
      hz == IF k \in {0, 2} THEN wid ELSE len
      r == CeilHalf(len + wid) + 1
  IN {d \in (-r .. r) \X (-r .. r) : 4 * Abs(d[1]) <= hx + 2 /\ 4 * Abs(d[2]) <= hz + 2}

(* The poses <<cell, heading>> in which the rectangle covers no blocked cell. *)
PosesFree(cost, len, wid) ==
  UNION {LET offsets == FootprintOffsets(len, wid, k)
         IN {<<c, k>> : c \in {c \in Cells :
               \A d \in offsets : Passable(cost, <<c[1] + d[1], c[2] + d[2]>>)}} : k \in Headings}

(* Edges of the SE(2) search: turn in place, or move without turning. *)
Se2Neighbors(cost, fits, p) ==
  ({<<p[1], (p[2] + d) % 4>> : d \in {1, 3}} \union {<<n, p[2]>> : n \in Neighbors8(cost, p[1])})
    \intersect fits

(* The poses A* over (ix, iz, theta) can reach. *)
Se2Flood(cost, fits, from) == Flood([p \in fits |-> Se2Neighbors(cost, fits, p)], from)

NearestFitting(fits, c, radius) ==
  LET near == {n \in {p[1] : p \in fits} : Chebyshev(n, c) <= radius}
      Key(n) == Chebyshev(n, c) * 1000 + D2(n, c)
  IN IF near = {} THEN NoCell ELSE FirstBy(near, Key)

(* mutant of FixedHeadingComponents: a cell counts where any heading fits. *)
AnyHeadingComponents(fits, start) ==
  [k \in Headings |-> Component([open |-> {p[1] : p \in fits}, dear |-> {}], start)]

FixedHeadingComponents(fits, start) ==
  [k \in Headings |->
     Component([open |-> {c \in Cells : <<c, k>> \in fits}, dear |-> {}], start)]

(* Per object [level, headings]; points: object id |-> centroid. *)
FootprintReachability(grid, from, points, len, wid) ==
  LET fits == PosesFree(CostGrid(grid), len, wid)
      given == WorldToCell(from)
      start == IF given = NoCell THEN NoCell ELSE NearestFitting(fits, given, 12)
      comps == FixedHeadingComponents(fits, start)
      Fails(why) == [level |-> why, headings |-> {}, goal |-> NoCell, start |-> start]
      Of(p) ==
        LET at == WorldToCell(p)
            goal == IF at = NoCell THEN NoCell ELSE NearestFitting(fits, at, Snap)
            hs == {k \in Headings : goal \in comps[k]}
        IN IF at = NoCell THEN Fails("outside_grid")
           ELSE IF goal = NoCell THEN Fails("robot_does_not_fit")
           ELSE IF hs = {} THEN Fails("disconnected")
           ELSE [level |-> IF hs = Headings THEN "any_orientation" ELSE "requires_alignment",
                 headings |-> hs, goal |-> goal, start |-> start]
  IN [o \in DOMAIN points |->
        IF given = NoCell THEN Fails("outside_grid")
        ELSE IF start = NoCell THEN Fails("robot_does_not_fit")
        ELSE Of(points[o])]
=============================================================================
