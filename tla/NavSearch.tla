----------------------------- MODULE NavSearch -----------------------------
(***************************************************************************)
(* What the planner of pathfinding.py searches with: A* over a heap,       *)
(* string pulling, lines of sight, connected components, and the labels    *)
(* goal_resolution.py asks ndimage for.                                    *)
(***************************************************************************)
EXTENDS NavCells

(* A loop's states round by round. *)
Rounds(Turn(_), first, n) ==
  LET after[i \in 0 .. n] == IF i = 0 THEN first ELSE Turn(after[i - 1]) IN after

-----------------------------------------------------------------------------
(* A* *)

EnterCost(cost, c) == IF c \in cost.dear THEN 15 ELSE 10

Diagonal(a, b) == a[1] # b[1] /\ a[2] # b[2]

Around(c) == (c[1] - 1 .. c[1] + 1) \X (c[2] - 1 .. c[2] + 1)

Neighbors8(cost, c) ==
  {n \in Around(c) :
     /\ n # c
     /\ Passable(cost, n)
     /\ Diagonal(c, n) => Passable(cost, <<n[1], c[2]>>) /\ Passable(cost, <<c[1], n[2]>>)}

MoveCost(cost, c, n) ==
  IF Diagonal(c, n) THEN (EnterCost(cost, n) * 14) \div 10 ELSE EnterCost(cost, n)

Octile(a, b) == LET dx == Abs(a[1] - b[1]) dz == Abs(a[2] - b[2])
                IN 10 * (dx + dz) - 6 * Lower(dx, dz)

(* Heap entries <<f, g, cell>>. *)
HeapBefore(a, b) ==
  \/ a[1] < b[1]
  \/ a[1] = b[1] /\ a[2] < b[2]
  \/ a[1] = b[1] /\ a[2] = b[2] /\ ScanRank(a[3]) <= ScanRank(b[3])
HeapTop(heap) == CHOOSE a \in heap : \A b \in heap : HeapBefore(a, b)

(* A dict with the same value, or one of its own, written under each of some keys. *)
Written(dict, keys, Value(_)) ==
  [k \in keys \union DOMAIN dict |-> IF k \in keys THEN Value(k) ELSE dict[k]]

(* mutant of Expand: a cell met once is never improved. *)
ExpandOnce(cost, goal, s) ==
  LET top == HeapTop(s.heap)
      at == top[3]
      To(n) == top[2] + MoveCost(cost, at, n)
      From(n) == at
      better == Neighbors8(cost, at) \ (s.visited \union DOMAIN s.g)
  IN [heap |-> {e \in s.heap : e[3] # at}
                 \union {<<To(n) + Octile(n, goal), To(n), n>> : n \in better},
      came |-> Written(s.came, better, From),
      g |-> Written(s.g, better, To),
      visited |-> s.visited \union {at}]

(* One cell is visited: s is [heap, came, g, visited].  What else the heap has of the cell,
   a pop would skip: it leaves with the visit. *)
Expand(cost, goal, s) ==
  LET top == HeapTop(s.heap)
      at == top[3]
      To(n) == top[2] + MoveCost(cost, at, n)
      From(n) == at
      better == {n \in Neighbors8(cost, at) \ s.visited : n \in DOMAIN s.g => To(n) < s.g[n]}
  IN [heap |-> {e \in s.heap : e[3] # at}
                 \union {<<To(n) + Octile(n, goal), To(n), n>> : n \in better},
      came |-> Written(s.came, better, From),
      g |-> Written(s.g, better, To),
      visited |-> s.visited \union {at}]

SearchTurn(cost, goal, s) ==
  IF s.heap = {} \/ HeapTop(s.heap)[3] = goal THEN s ELSE Expand(cost, goal, s)

SearchFirst(start, goal) ==
  [heap |-> {<<Octile(start, goal), 0, start>>}, came |-> << >>, g |-> [c \in {start} |-> 0],
   visited |-> {}]

(* No cell is visited twice: as many rounds as there are cells to visit end it. *)
Searched(cost, start, goal) ==
  Rounds(LAMBDA s : SearchTurn(cost, goal, s), SearchFirst(start, goal), Cardinality(cost.open))

Back(came, path) == IF path[1] \in DOMAIN came THEN <<came[path[1]]>> \o path ELSE path

WalkBack(came, c) == Rounds(LAMBDA path : Back(came, path), <<c>>, Cardinality(DOMAIN came))

(* <<>> stands for NoPathError. *)
Astar(cost, start, goal) ==
  LET end == Searched(cost, start, goal)[Cardinality(cost.open)]
  IN IF ~Passable(cost, start) \/ ~Passable(cost, goal) \/ end.heap = {} THEN <<>>
     ELSE WalkBack(end.came, goal)[Cardinality(DOMAIN end.came)]

-----------------------------------------------------------------------------
(* Lines and smoothing *)

(* One step of the line from a to b, d long: s is [at, err, cells]. *)
LineTurn(a, b, d, s) ==
  LET stepX == 2 * s.err > -d[2]
      stepZ == 2 * s.err < d[1]
      next == <<IF stepX THEN s.at[1] + (IF a[1] < b[1] THEN 1 ELSE -1) ELSE s.at[1],
                IF stepZ THEN s.at[2] + (IF a[2] < b[2] THEN 1 ELSE -1) ELSE s.at[2]>>
  IN IF s.at = b THEN s
     ELSE [at |-> next,
           err |-> s.err - (IF stepX THEN d[2] ELSE 0) + (IF stepZ THEN d[1] ELSE 0),
           cells |-> s.cells \union {next}]

Line(a, b, d) ==
  Rounds(LAMBDA s : LineTurn(a, b, d, s), [at |-> a, err |-> d[1] - d[2], cells |-> {a}], d[1] + d[2])

Offsets(a, b) == <<Abs(b[1] - a[1]), Abs(b[2] - a[2])>>

SegmentCells(a, b) ==
  LET d == Offsets(a, b) IN Line(a, b, d)[d[1] + d[2]].cells

LineOfSight(cost, a, b) == \A c \in SegmentCells(a, b) : Passable(cost, c)

(* s is [kept, at]: the points kept and where on the path the last of them is. *)
SmoothTurn(cost, path, s) ==
  LET ahead == {j \in s.at + 1 .. Len(path) : j = s.at + 1 \/ LineOfSight(cost, path[s.at], path[j])}
      j == Max(ahead)
  IN IF s.at = Len(path) THEN s ELSE [kept |-> Append(s.kept, path[j]), at |-> j]

Pulled(cost, path) ==
  Rounds(LAMBDA s : SmoothTurn(cost, path, s), [kept |-> <<path[1]>>, at |-> 1], Len(path))

(* mutant of SmoothPath: straight to the goal. *)
JumpPath(cost, path) == IF Len(path) <= 2 THEN path ELSE <<path[1], path[Len(path)]>>

SmoothPath(cost, path) ==
  IF Len(path) <= 2 THEN path ELSE Pulled(cost, path)[Len(path)].kept

RouteCells(path) ==
  IF path = <<>> THEN {}
  ELSE {path[1]} \union UNION {SegmentCells(path[i], path[i + 1]) : i \in 1 .. Len(path) - 1}

-----------------------------------------------------------------------------
(* Components *)

(* What the queue reaches, layer by layer: s is [seen, front], near[c] what c leads to. *)
Spread(near, s) ==
  LET next == (UNION {near[c] : c \in s.front}) \ s.seen
  IN IF s.front = {} THEN s ELSE [seen |-> s.seen \union next, front |-> next]

Flooding(near, c) ==
  Rounds(LAMBDA s : Spread(near, s), [seen |-> {c}, front |-> {c}], Cardinality(DOMAIN near))

Flood(near, c) == Flooding(near, c)[Cardinality(DOMAIN near)].seen

Component(cost, c) ==
  IF Passable(cost, c) THEN Flood([n \in cost.open |-> Neighbors8(cost, n)], c) ELSE {}

(* s is [comps, left]: the components found and the cells of none of them. *)
ScanTurn(cost, s) ==
  LET comp == Component(cost, CHOOSE c \in s.left : TRUE)
  IN IF s.left = {} THEN s ELSE [comps |-> s.comps \union {comp}, left |-> s.left \ comp]

Scanned(cost) ==
  Rounds(LAMBDA s : ScanTurn(cost, s), [comps |-> {}, left |-> cost.open], Cardinality(cost.open))

AllComponents(cost) == Scanned(cost)[Cardinality(cost.open)].comps

(* ndimage.label with a full structure: corners connect. *)
LabelFrom(mask, start) == Flood([c \in mask |-> Around(c) \intersect mask], start)

-----------------------------------------------------------------------------
(* What the planner relies on *)

(* A route exactly to the cells of the start's component: from start to goal by moves a
   robot can make, and still from start to goal over cells it may enter when smoothed. *)
RouteIsSound(cost, start, goal) ==
  LET path == Astar(cost, start, goal)
      smooth == SmoothPath(cost, path)
  IN /\ path # <<>> <=> goal \in Component(cost, start)
     /\ path # <<>> =>
          /\ path[1] = start /\ path[Len(path)] = goal
          /\ \A i \in 1 .. Len(path) - 1 : path[i + 1] \in Neighbors8(cost, path[i])
          /\ smooth \in Seq(cost.open) /\ smooth # <<>>
          /\ smooth[1] = start /\ smooth[Len(smooth)] = goal
          /\ RouteCells(smooth) \subseteq cost.open

(* The components cut the open cells into parts, each the component of all its cells. *)
RegionsAreSound(cost) ==
  /\ UNION AllComponents(cost) = cost.open
  /\ \A region \in AllComponents(cost) :
       region # {} /\ \A c \in region : Component(cost, c) = region

(* The cheapest costs from a cell, by relaxing every edge in every round: what A* has to
   find without looking everywhere. *)
Relaxed(cost, dist) ==
  LET To(n) == {dist[c] + MoveCost(cost, c, n) :
                  c \in {m \in Around(n) \intersect DOMAIN dist : n \in Neighbors8(cost, m)}}
      known == DOMAIN dist \union UNION {Neighbors8(cost, c) : c \in DOMAIN dist}
      next == [n \in known |-> Min(To(n) \union (IF n \in DOMAIN dist THEN {dist[n]} ELSE {}))]
  IN IF next = dist THEN dist ELSE next

Relaxation(cost, start) ==
  Rounds(LAMBDA dist : Relaxed(cost, dist), [c \in {start} |-> 0], Cardinality(cost.open))

Distances(cost, start) == Relaxation(cost, start)[Cardinality(cost.open)]

PathCost(cost, path) ==
  LET paid[i \in 1 .. Len(path)] == IF i = 1 THEN 0 ELSE paid[i - 1] + MoveCost(cost, path[i - 1], path[i])
  IN paid[Len(path)]

(* From a start: a sound route to every cell of its component, and a cheapest one. *)
SearchIsRight(cost, start) ==
  LET dist == Distances(cost, start)
  IN /\ DOMAIN dist = Component(cost, start)
     /\ \A goal \in Cells :
          /\ RouteIsSound(cost, start, goal)
          /\ goal \in DOMAIN dist => PathCost(cost, Astar(cost, start, goal)) = dist[goal]
=============================================================================
