------------------------------ MODULE NavCells ------------------------------
(***************************************************************************)
(* The grid of app/services/pathfinding.py and nav_layer.py: coordinates,  *)
(* obstacles, inflation and the costs of entering a cell.                  *)
(*                                                                         *)
(* Lengths are in half cells, so a cell's centre and a cell's edge are     *)
(* integers; costs are in tenths, with 14 for the code's SQRT2.            *)
(***************************************************************************)
EXTENDS Integers, Sequences, FiniteSets, Functions, FiniteSetsExt, SequencesExt

CONSTANTS
  W, H,          \* the grid's width and height in cells
  Margin,        \* CLEARANCE_MARGIN_M
  Search,        \* SEARCH_RADIUS_M
  Snap,          \* cells a blocked start may be snapped over
  AnchorMargin,  \* ANCHOR_CLAMP_MARGIN_M
  Isolated       \* ISOLATED_COMPONENT_MAX_CELLS

ASSUME GridAssumption ==
  /\ {W, H, Snap, Search, Isolated} \subseteq Nat \ {0}
  /\ {Margin, AnchorMargin} \subseteq Nat

Cells == (0 .. W - 1) \X (0 .. H - 1)
NoCell == <<-1, -1>>

Abs(x) == IF x < 0 THEN -x ELSE x
Lower(x, y) == IF x < y THEN x ELSE y
Higher(x, y) == IF x < y THEN y ELSE x
Clamp(x, lo, hi) == Higher(lo, Lower(x, hi))
CeilHalf(x) == (x + 1) \div 2

D2(a, b) == (a[1] - b[1]) * (a[1] - b[1]) + (a[2] - b[2]) * (a[2] - b[2])
Chebyshev(a, b) == Higher(Abs(a[1] - b[1]), Abs(a[2] - b[2]))

(* np.argmin's and the scans' order: the smallest key, then ix, then iz. *)
ScanRank(c) == c[1] * H + c[2]
FirstBy(S, Key(_)) ==
  LET best == Min({Key(c) : c \in S})
      ties == {c \in S : Key(c) = best}
  IN CHOOSE c \in ties : \A d \in ties : ScanRank(c) <= ScanRank(d)

-----------------------------------------------------------------------------
(* Coordinates *)

CellOf(p) == <<p[1] \div 2, p[2] \div 2>>
ClampedCell(p) == <<Clamp(p[1] \div 2, 0, W - 1), Clamp(p[2] \div 2, 0, H - 1)>>
WithinMargin(p, m) == /\ -m <= p[1] /\ p[1] <= 2 * W + m
                      /\ -m <= p[2] /\ p[2] <= 2 * H + m

(* Outside by more than two cells world_to_cell raises: NoCell here. *)
WorldToCell(p) ==
  IF CellOf(p) \in Cells THEN CellOf(p)
  ELSE IF WithinMargin(p, 4) THEN ClampedCell(p) ELSE NoCell

OnGrid(p) == WorldToCell(p) # NoCell

ClampAnchor(p) == IF WithinMargin(p, AnchorMargin) THEN ClampedCell(p) ELSE NoCell

CellToWorld(c) == <<2 * c[1] + 1, 2 * c[2] + 1>>

-----------------------------------------------------------------------------
(* Footprints [x0, z0, x1, z1], and grids [obstacle, unknown]: what is neither is free. *)

Grids == {g \in [obstacle : SUBSET Cells, unknown : SUBSET Cells] : g.obstacle \intersect g.unknown = {}}

Footprints == [x0 : Int, z0 : Int, x1 : Int, z1 : Int]

Inside(c, fp) == LET p == CellToWorld(c)
                 IN fp.x0 <= p[1] /\ p[1] <= fp.x1 /\ fp.z0 <= p[2] /\ p[2] <= fp.z1
Covered(fps) == {c \in Cells : \E fp \in fps : Inside(c, fp)}

Block(grid, cs) == [obstacle |-> grid.obstacle \union cs, unknown |-> grid.unknown \ cs]

Rasterize(grid, fps) == Block(grid, Covered(fps))

CutFootprints(grid, fps) ==
  LET cut == Covered(fps) IN [obstacle |-> grid.obstacle \ cut, unknown |-> grid.unknown \ cut]

Translate(fp, d) == [x0 |-> fp.x0 + d[1], z0 |-> fp.z0 + d[2],
                     x1 |-> fp.x1 + d[1], z1 |-> fp.z1 + d[2]]

Inflate(grid, radius) ==
  LET rc == CeilHalf(radius)
  IN Block(grid, {c \in Cells : \E o \in grid.obstacle : D2(c, o) <= rc * rc})

(* The finite part of build_cost_grid, and where entering costs half as much again. *)
CostGrid(inflated) == [open |-> Cells \ inflated.obstacle, dear |-> inflated.unknown]

CostGrids == [open : SUBSET Cells, dear : SUBSET Cells]

Passable(cost, c) == c \in cost.open
=============================================================================
