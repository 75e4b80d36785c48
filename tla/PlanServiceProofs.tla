-------------------------- MODULE PlanServiceProofs --------------------------
(***************************************************************************)
(* PlanService for every room, robot and series of requests: an answer is  *)
(* what the files and rows give now, the routes are clear, reachability    *)
(* and planning agree, and no command stays pending.  First what its       *)
(* searches compute on every grid: components are parts, A* finds a        *)
(* cheapest route wherever there is one, smoothing keeps a route open.     *)
(***************************************************************************)
EXTENDS PlanService, FiniteSetTheorems, WellFoundedInduction, TLAPS

LEMMA NatMin ==
  ASSUME NEW S, S \subseteq Nat, S # {}
  PROVE  Min(S) \in S /\ \A n \in S : Min(S) <= n
<1>1. \E n \in S : \A m \in S : ~ (<<m, n>> \in OpToRel(<, Nat))
  BY NatLessThanWellFounded, WFMin
<1>2. \E n \in S : \A m \in S : n <= m
  <2>1. PICK n \in S : \A m \in S : ~ (<<m, n>> \in OpToRel(<, Nat))
    BY <1>1
  <2>2. ASSUME NEW m \in S PROVE n <= m
    <3>1. m \in Nat /\ n \in Nat
      OBVIOUS
    <3>2. ~ (m < n)
      BY <2>1, <3>1 DEF OpToRel
    <3>3. QED
      BY <3>1, <3>2
  <2>3. QED
    BY <2>2
<1>3. QED
  BY <1>2 DEF Min

-----------------------------------------------------------------------------
(* Loops, round by round *)

LEMMA RoundByRound ==
  ASSUME NEW N \in Nat, NEW P, 0 \in P, \A i \in 1 .. N : i - 1 \in P => i \in P
  PROVE  \A i \in 0 .. N : i \in P
<1> DEFINE T == (0 .. N) \ P
<1>1. SUFFICES ASSUME T # {} PROVE FALSE
  OBVIOUS
<1>2. T \subseteq Nat
  OBVIOUS
<1> DEFINE m == Min(T)
<1>3. m \in T /\ \A n \in T : m <= n
  <2> HIDE DEF T
  <2>1. QED
    BY <1>1, <1>2, NatMin
<1> HIDE DEF m
<1>4. m \in 1 .. N /\ m - 1 \in 0 .. N /\ ~ (m <= m - 1)
  BY <1>3
<1>5. m - 1 \in P
  BY <1>3, <1>4
<1>6. QED
  BY <1>3, <1>4, <1>5

\* f is what n rounds of a loop go through, all of it in X.
IsLoop(f, X, first, turn, n) ==
  f \in [0 .. n -> X] /\ f[0] = first /\ \A i \in 1 .. n : f[i] = turn[f[i - 1]]

\* A loop that stays in a set has its states.
LEMMA RoundsExist ==
  ASSUME NEW X, NEW first \in X, NEW turn \in [X -> X], NEW N \in Nat
  PROVE  \E f : IsLoop(f, X, first, turn, N)
<1> DEFINE P == {n \in Nat : \E f : IsLoop(f, X, first, turn, n)}
<1>1. 0 \in P
  <2> DEFINE f == [i \in 0 .. 0 |-> first]
  <2>1. f \in [0 .. 0 -> X] /\ f[0] = first
    OBVIOUS
  <2>2. IsLoop(f, X, first, turn, 0)
    BY <2>1 DEF IsLoop
  <2>3. QED
    BY <2>2
<1>2. ASSUME NEW m \in 1 .. N, m - 1 \in P PROVE m \in P
  <2>0. PICK f : IsLoop(f, X, first, turn, m - 1)
    BY <1>2
  <2>1. /\ f \in [0 .. m - 1 -> X] /\ f[0] = first
        /\ \A i \in 1 .. m - 1 : f[i] = turn[f[i - 1]]
    BY <2>0 DEF IsLoop
  <2> DEFINE g == [i \in 0 .. m |-> IF i = m THEN turn[f[m - 1]] ELSE f[i]]
  <2>2. /\ m \in Nat /\ m # 0 /\ m - 1 \in 0 .. m - 1 /\ 0 \in 0 .. m
        /\ \A i \in 0 .. m : i # m => i \in 0 .. m - 1
        /\ \A i \in 1 .. m : i # m => i \in 1 .. m - 1
        /\ \A i \in 1 .. m : i \in 0 .. m /\ i - 1 \in 0 .. m /\ i - 1 # m
    OBVIOUS
  <2>3. g \in [0 .. m -> X] /\ g[0] = first
    BY <2>1, <2>2
  <2>4. ASSUME NEW i \in 1 .. m PROVE g[i] = turn[g[i - 1]]
    <3>1. g[i - 1] = f[i - 1]
      BY <2>2
    <3>2. CASE i = m
      BY <2>2, <3>1, <3>2
    <3>3. CASE i # m
      BY <2>1, <2>2, <3>1, <3>3
    <3>4. QED
      BY <3>2, <3>3
  <2>5. IsLoop(g, X, first, turn, m)
    <3> HIDE DEF g
    <3>1. QED
      BY <2>3, <2>4 DEF IsLoop
  <2>6. QED
    BY <2>2, <2>5
<1>3. N \in 0 .. N
  OBVIOUS
<1>4. N \in P
  <2> HIDE DEF P
  <2>1. QED
    BY <1>1, <1>2, <1>3, RoundByRound
<1>5. QED
  BY <1>4

-----------------------------------------------------------------------------
(* Cells and points *)

LEMMA Sizes == W \in Nat /\ H \in Nat /\ W > 0 /\ H > 0 /\ Margin \in Nat /\ AnchorMargin \in Nat
  BY GridAssumption

LEMMA Squares == \A x \in Int : x * x \in Nat
<1>1. ASSUME NEW x \in Int PROVE x * x \in Nat
  <2>1. CASE x >= 0
    BY <2>1
  <2>2. CASE x < 0
    BY <2>2
  <2>3. QED
    BY <2>1, <2>2
<1>2. QED
  BY <1>1

LEMMA CellTyped == \A c \in Cells : c \in Int \X Int /\ c[1] \in Nat /\ c[2] \in Nat /\ c = <<c[1], c[2]>>
  BY Sizes DEF Cells

LEMMA D2Typed == \A c \in Int \X Int : \A d \in Int \X Int : D2(c, d) \in Nat
<1> SUFFICES ASSUME NEW c \in Int \X Int, NEW d \in Int \X Int PROVE D2(c, d) \in Nat
  OBVIOUS
<1>1. c[1] - d[1] \in Int /\ c[2] - d[2] \in Int
  OBVIOUS
<1>2. QED
  BY <1>1, Squares DEF D2

LEMMA D2Zero == \A c \in Cells : \A d \in Cells : D2(c, c) = 0 /\ (D2(c, d) = 0 => c = d)
<1> SUFFICES ASSUME NEW c \in Cells, NEW d \in Cells PROVE D2(c, c) = 0 /\ (D2(c, d) = 0 => c = d)
  OBVIOUS
<1>1. /\ c[1] \in Int /\ c[2] \in Int /\ d[1] \in Int /\ d[2] \in Int
      /\ c = <<c[1], c[2]>> /\ d = <<d[1], d[2]>>
  BY CellTyped
<1>2. D2(c, c) = 0
  BY <1>1 DEF D2
<1> DEFINE x == c[1] - d[1]
           y == c[2] - d[2]
<1>3. ASSUME D2(c, d) = 0 PROVE x = 0 /\ y = 0
  <2>1. x \in Int /\ y \in Int /\ x * x + y * y = 0
    BY <1>1, <1>3 DEF D2
  <2> HIDE DEF x, y
  <2>2. x * x \in Nat /\ y * y \in Nat
    BY <2>1, Squares
  <2>3. x * x = 0 /\ y * y = 0
    BY <2>1, <2>2
  <2>4. QED
    BY <2>1, <2>3
<1>4. QED
  BY <1>1, <1>2, <1>3

LEMMA CellOfCentre == \A c \in Cells : WorldToCell(CellToWorld(c)) = c /\ OnGrid(CellToWorld(c))
<1> SUFFICES ASSUME NEW c \in Cells PROVE WorldToCell(CellToWorld(c)) = c /\ c # NoCell
  BY DEF OnGrid
<1>1. c[1] \in Nat /\ c[2] \in Nat /\ c = <<c[1], c[2]>>
  BY CellTyped
<1>2. CellOf(CellToWorld(c)) = <<(2 * c[1] + 1) \div 2, (2 * c[2] + 1) \div 2>>
  BY DEF CellOf, CellToWorld
<1>3. (2 * c[1] + 1) \div 2 = c[1] /\ (2 * c[2] + 1) \div 2 = c[2]
  BY <1>1
<1>4. QED
  BY <1>1, <1>2, <1>3 DEF WorldToCell, NoCell

LEMMA ClampedTyped == \A p \in Int \X Int : ClampedCell(p) \in Cells
<1> SUFFICES ASSUME NEW p \in Int \X Int PROVE ClampedCell(p) \in Cells
  OBVIOUS
<1>1. p[1] \div 2 \in Int /\ p[2] \div 2 \in Int
  OBVIOUS
<1>2. QED
  BY <1>1, Sizes DEF ClampedCell, Clamp, Higher, Lower, Cells

LEMMA CellOfPoint ==
  \A p \in Int \X Int : /\ WorldToCell(p) \in Cells \union {NoCell}
                        /\ OnGrid(p) => WorldToCell(p) \in Cells
                        /\ OnGrid(p) => ClampedCell(p) = WorldToCell(p)
                        /\ ClampAnchor(p) \in Cells \union {NoCell}
                        /\ ClampAnchor(p) # NoCell => ClampAnchor(p) = ClampedCell(p)
<1> SUFFICES ASSUME NEW p \in Int \X Int
             PROVE  /\ WorldToCell(p) \in Cells \union {NoCell}
                    /\ OnGrid(p) => WorldToCell(p) \in Cells
                    /\ OnGrid(p) => ClampedCell(p) = WorldToCell(p)
                    /\ ClampAnchor(p) \in Cells \union {NoCell}
                    /\ ClampAnchor(p) # NoCell => ClampAnchor(p) = ClampedCell(p)
  OBVIOUS
<1>1. ClampedCell(p) \in Cells
  BY ClampedTyped
<1>2. CellOf(p) \in Cells => ClampedCell(p) = CellOf(p)
  <2>1. p[1] \div 2 \in Int /\ p[2] \div 2 \in Int
    OBVIOUS
  <2>2. QED
    BY <2>1, Sizes DEF ClampedCell, CellOf, Clamp, Higher, Lower, Cells
<1>3. QED
  BY <1>1, <1>2 DEF WorldToCell, OnGrid, ClampAnchor

LEMMA NoCellOutside == NoCell \notin Cells
  BY Sizes DEF NoCell, Cells

LEMMA CellsFinite == IsFiniteSet(Cells)
<1>1. IsFiniteSet(0 .. W - 1) /\ IsFiniteSet(0 .. H - 1)
  BY FS_Interval, Sizes
<1>2. QED
  BY <1>1, FS_Product DEF Cells

LEMMA OpenFinite ==
  ASSUME NEW cost \in CostGrids
  PROVE  /\ cost.open \subseteq Cells /\ IsFiniteSet(cost.open) /\ Cardinality(cost.open) \in Nat
<1>1. cost.open \subseteq Cells
  BY DEF CostGrids
<1>2. QED
  BY <1>1, CellsFinite, FS_Subset, FS_CardinalityType

-----------------------------------------------------------------------------
(* Floods and components *)

LEMMA FloodingRounds ==
  ASSUME NEW V, IsFiniteSet(V), NEW near \in [V -> SUBSET V], NEW c \in V
  PROVE  LET f == Flooding(near, c)
             N == Cardinality(V)
         IN /\ N \in Nat
            /\ f[0] = [seen |-> {c}, front |-> {c}]
            /\ \A i \in 1 .. N : i - 1 \in 0 .. N /\ f[i] = Spread(near, f[i - 1])
<1> DEFINE N == Cardinality(V)
           X == [seen : SUBSET V, front : SUBSET V]
           first == [seen |-> {c}, front |-> {c}]
           turn == [s \in X |-> Spread(near, s)]
           f == Flooding(near, c)
<1>1. N \in Nat /\ DOMAIN near = V
  BY FS_CardinalityType
<1>2. ASSUME NEW s \in X PROVE Spread(near, s) \in X
  <2>1. \A x \in s.front : near[x] \subseteq V
    OBVIOUS
  <2>2. UNION {near[x] : x \in s.front} \subseteq V
    BY <2>1
  <2>3. QED
    BY <2>2 DEF Spread
<1>3. first \in X /\ turn \in [X -> X]
  BY <1>2
<1> HIDE DEF N
<1>4. PICK g : IsLoop(g, X, first, turn, N)
  <2> HIDE DEF X, first, turn
  <2>1. QED
    BY <1>1, <1>3, RoundsExist
<1>5. ASSUME NEW i \in 1 .. N PROVE g[i] = Spread(near, g[i - 1])
  <2>1. i - 1 \in 0 .. N
    BY <1>1
  <2>2. g[i - 1] \in X /\ g[i] = turn[g[i - 1]]
    <3> HIDE DEF X, turn
    <3>1. QED
      BY <1>4, <2>1 DEF IsLoop
  <2>3. QED
    BY <2>2
<1>6. /\ g = [i \in 0 .. N |-> g[i]]
      /\ \A i \in 0 .. N : g[i] = IF i = 0 THEN first ELSE Spread(near, g[i - 1])
  <2> HIDE DEF X, first
  <2>1. QED
    BY <1>1, <1>4, <1>5 DEF IsLoop
<1>7. g = [i \in 0 .. N |-> IF i = 0 THEN first ELSE Spread(near, g[i - 1])]
  <2> HIDE DEF X, first
  <2>1. QED
    BY <1>6
<1>8. f = CHOOSE h : h = [i \in 0 .. N |-> IF i = 0 THEN first ELSE Spread(near, h[i - 1])]
  BY <1>1 DEF Flooding, Rounds, N
<1>9. f = [i \in 0 .. N |-> IF i = 0 THEN first ELSE Spread(near, f[i - 1])]
  <2> HIDE DEF f, first
  <2>1. QED
    BY <1>7, <1>8
<1>10. QED
  <2> HIDE DEF f, first
  <2>1. f[0] = first /\ \A i \in 1 .. N : i - 1 \in 0 .. N /\ f[i] = Spread(near, f[i - 1])
    BY <1>1, <1>9
  <2>2. QED
    BY <1>1, <2>1 DEF N, f, first

\* Flood is the least set with the cell that leads nowhere else.
LEMMA FloodIsClosure ==
  ASSUME NEW V, IsFiniteSet(V), NEW near \in [V -> SUBSET V], NEW c \in V
  PROVE  /\ c \in Flood(near, c) /\ Flood(near, c) \subseteq V
         /\ \A x \in Flood(near, c) : near[x] \subseteq Flood(near, c)
         /\ \A S : c \in S /\ (\A x \in S \intersect V : near[x] \subseteq S) => Flood(near, c) \subseteq S
<1> DEFINE N == Cardinality(V)
           f == Flooding(near, c)
           Inv(s, i) == /\ s = [seen |-> s.seen, front |-> s.front]
                        /\ c \in s.seen /\ s.seen \subseteq V /\ s.front \subseteq s.seen
                        /\ \A x \in s.seen \ s.front : near[x] \subseteq s.seen
                        /\ \A S : c \in S /\ (\A x \in S \intersect V : near[x] \subseteq S) => s.seen \subseteq S
                        /\ s.front # {} => Cardinality(s.seen) > i
           P == {i \in Nat : Inv(f[i], i)}
<1>1. /\ N \in Nat /\ f[0] = [seen |-> {c}, front |-> {c}]
      /\ \A i \in 1 .. N : i - 1 \in 0 .. N /\ f[i] = Spread(near, f[i - 1])
  BY FloodingRounds
<1> HIDE DEF f, N
<1>2. 0 \in P
  <2>1. f[0].seen = {c} /\ f[0].front = {c}
    BY <1>1
  <2>2. Cardinality({c}) = 1
    BY FS_Singleton
  <2>3. Inv(f[0], 0)
    BY <1>1, <2>1, <2>2
  <2>4. QED
    BY <2>3
<1>3. ASSUME NEW i \in 1 .. N, i - 1 \in P PROVE i \in P
  <2> DEFINE s == f[i - 1]
             next == (UNION {near[x] : x \in s.front}) \ s.seen
  <2>1. Inv(s, i - 1) /\ f[i] = Spread(near, s)
    BY <1>1, <1>3
  <2> HIDE DEF s
  <2>2. CASE s.front = {}
    <3>1. f[i] = s
      BY <2>1, <2>2 DEF Spread
    <3>2. QED
      BY <2>1, <2>2, <3>1
  <2>3. CASE s.front # {}
    <3>1. f[i] = [seen |-> s.seen \union next, front |-> next]
      BY <2>1, <2>3 DEF Spread
    <3>2. next \subseteq V
      BY <2>1
    <3>3. ASSUME NEW x \in (s.seen \union next) \ next PROVE near[x] \subseteq s.seen \union next
      <4>1. CASE x \in s.front
        BY <4>1
      <4>2. CASE x \notin s.front
        BY <2>1, <3>3, <4>2
      <4>3. QED
        BY <4>1, <4>2
    <3>4. ASSUME NEW S, c \in S, \A x \in S \intersect V : near[x] \subseteq S
          PROVE  s.seen \union next \subseteq S
      <4>1. s.seen \subseteq S /\ s.front \subseteq S \intersect V
        BY <2>1, <3>4
      <4>2. next \subseteq S
        BY <3>4, <4>1
      <4>3. QED
        BY <4>1, <4>2
    <3>5. ASSUME next # {} PROVE Cardinality(s.seen \union next) > i
      <4>1. IsFiniteSet(s.seen \union next) /\ IsFiniteSet(s.seen)
        BY <2>1, <3>2, FS_Subset
      <4>2. s.seen \subseteq s.seen \union next /\ s.seen # s.seen \union next
        BY <3>5
      <4>3. Cardinality(s.seen) < Cardinality(s.seen \union next)
        <5>1. /\ Cardinality(s.seen) <= Cardinality(s.seen \union next)
              /\ Cardinality(s.seen) # Cardinality(s.seen \union next)
          <6> HIDE DEF next
          <6>1. QED
            BY <4>1, <4>2, FS_Subset
        <5>2. QED
          BY <4>1, <5>1, FS_CardinalityType
      <4>4. Cardinality(s.seen) > i - 1 /\ Cardinality(s.seen) \in Nat /\ Cardinality(s.seen \union next) \in Nat
        BY <2>1, <2>3, <4>1, FS_CardinalityType
      <4>5. QED
        BY <4>3, <4>4
    <3> HIDE DEF next
    <3>6. Inv(f[i], i)
      BY <2>1, <3>1, <3>2, <3>3, <3>4, <3>5
    <3>7. QED
      BY <3>6
  <2>4. QED
    BY <2>2, <2>3
<1>4. N \in 0 .. N
  BY <1>1
<1>5. N \in P
  <2> HIDE DEF P
  <2>1. QED
    BY <1>1, <1>2, <1>3, <1>4, RoundByRound
<1>6. Inv(f[N], N) /\ Flood(near, c) = f[N].seen
  BY <1>5 DEF Flood, f, N
<1>7. f[N].front = {}
  <2>1. Cardinality(f[N].seen) <= N
    BY <1>6, FS_Subset DEF N
  <2>2. Cardinality(f[N].seen) \in Nat
    BY <1>6, FS_Subset, FS_CardinalityType
  <2>3. QED
    BY <1>1, <1>6, <2>1, <2>2
<1>8. QED
  BY <1>6, <1>7

LEMMA NeighborsOpen ==
  ASSUME NEW cost \in CostGrids, NEW c
  PROVE  Neighbors8(cost, c) \subseteq cost.open
  BY DEF Neighbors8, Passable

LEMMA NeighborsMutual ==
  ASSUME NEW cost \in CostGrids, NEW c \in cost.open, NEW n \in Neighbors8(cost, c)
  PROVE  c \in Neighbors8(cost, n)
<1>1. n \in cost.open /\ n \in Around(c) /\ n # c
      /\ (Diagonal(c, n) => <<n[1], c[2]>> \in cost.open /\ <<c[1], n[2]>> \in cost.open)
  BY DEF Neighbors8, Passable
<1>2. c[1] \in Int /\ c[2] \in Int /\ n[1] \in Int /\ n[2] \in Int /\ c = <<c[1], c[2]>>
  BY <1>1, OpenFinite, CellTyped
<1>3. c \in Around(n)
  <2>1. n[1] \in c[1] - 1 .. c[1] + 1 /\ n[2] \in c[2] - 1 .. c[2] + 1
    BY <1>1 DEF Around
  <2>2. c[1] \in n[1] - 1 .. n[1] + 1 /\ c[2] \in n[2] - 1 .. n[2] + 1
    BY <1>2, <2>1
  <2>3. QED
    BY <1>2, <2>2 DEF Around
<1>4. Diagonal(n, c) => Diagonal(c, n)
  BY DEF Diagonal
<1>5. QED
  BY <1>1, <1>3, <1>4 DEF Neighbors8, Passable

\* A component is the least set with the cell that no move leaves.
LEMMA ComponentIsClosure ==
  ASSUME NEW cost \in CostGrids, NEW c \in cost.open
  PROVE  /\ c \in Component(cost, c) /\ Component(cost, c) \subseteq cost.open
         /\ \A x \in Component(cost, c) : Neighbors8(cost, x) \subseteq Component(cost, c)
         /\ \A S : c \in S /\ (\A x \in S \intersect cost.open : Neighbors8(cost, x) \subseteq S)
              => Component(cost, c) \subseteq S
<1> DEFINE near == [n \in cost.open |-> Neighbors8(cost, n)]
<1>1. IsFiniteSet(cost.open) /\ near \in [cost.open -> SUBSET cost.open]
  BY OpenFinite, NeighborsOpen
<1>2. Component(cost, c) = Flood(near, c)
  BY DEF Component, Passable
<1> DEFINE F == Flood(near, c)
<1>3. /\ c \in F /\ F \subseteq cost.open
      /\ \A x \in F : near[x] \subseteq F
      /\ \A S : c \in S /\ (\A x \in S \intersect cost.open : near[x] \subseteq S) => F \subseteq S
  <2> HIDE DEF near
  <2>1. QED
    BY <1>1, FloodIsClosure
<1>4. \A x \in cost.open : near[x] = Neighbors8(cost, x)
  OBVIOUS
<1> HIDE DEF near, F
<1>5. QED
  BY <1>2, <1>3, <1>4 DEF F

LEMMA ComponentOfBlocked ==
  ASSUME NEW cost \in CostGrids, NEW c, c \notin cost.open PROVE Component(cost, c) = {}
  BY DEF Component, Passable

\* Whatever is in a cell's component has that component.
LEMMA ComponentShared ==
  ASSUME NEW cost \in CostGrids, NEW c \in cost.open, NEW d \in Component(cost, c)
  PROVE  d \in cost.open /\ Component(cost, d) = Component(cost, c)
<1>1. d \in cost.open
  BY ComponentIsClosure
<1>2. \A e \in cost.open : \A x \in Component(cost, e) :
        x \in cost.open /\ Component(cost, x) \subseteq Component(cost, e)
  BY ComponentIsClosure
<1> DEFINE S == {e \in cost.open : c \in Component(cost, e)}
<1>3. c \in S
  BY ComponentIsClosure
<1>4. ASSUME NEW x \in S, NEW n \in Neighbors8(cost, x) PROVE n \in S
  <2>1. n \in cost.open /\ x \in Neighbors8(cost, n)
    BY NeighborsOpen, NeighborsMutual
  <2>2. n \in Component(cost, n) /\ x \in Component(cost, n)
    BY <2>1, ComponentIsClosure
  <2>3. Component(cost, x) \subseteq Component(cost, n)
    BY <1>2, <2>1, <2>2
  <2>4. QED
    BY <2>1, <2>3
<1>5. Component(cost, c) \subseteq S
  <2>1. \A x \in S \intersect cost.open : Neighbors8(cost, x) \subseteq S
    <3> HIDE DEF S
    <3>1. QED
      BY <1>4
  <2> HIDE DEF S
  <2>2. QED
    BY <1>3, <2>1, ComponentIsClosure
<1>6. c \in Component(cost, d)
  BY <1>5
<1>7. QED
  BY <1>1, <1>2, <1>6

\* What the scan keeps: the cells it is past are cut into components.
Parted(cost, s) ==
  /\ s = [comps |-> s.comps, left |-> s.left]
  /\ s.left \subseteq cost.open /\ s.comps \subseteq SUBSET cost.open
  /\ UNION s.comps = cost.open \ s.left
  /\ \A region \in s.comps : region # {} /\ \A c \in region : Component(cost, c) = region

LEMMA ScanKeeps ==
  ASSUME NEW cost \in CostGrids, NEW s, Parted(cost, s)
  PROVE  /\ Parted(cost, ScanTurn(cost, s))
         /\ ScanTurn(cost, s).left # {} => ScanTurn(cost, s).left \subseteq s.left
                                           /\ ScanTurn(cost, s).left # s.left
<1> DEFINE c == CHOOSE c \in s.left : TRUE
           comp == Component(cost, c)
<1>1. CASE s.left = {}
  BY <1>1 DEF ScanTurn
<1>2. CASE s.left # {}
  <2>1. c \in s.left /\ c \in cost.open
    BY <1>2 DEF Parted
  <2> HIDE DEF c
  <2>2. c \in comp /\ comp \subseteq cost.open
    BY <2>1, ComponentIsClosure
  <2>3. \A d \in comp : Component(cost, d) = comp
    BY <2>1, ComponentShared
  <2> HIDE DEF comp
  <2>4. ScanTurn(cost, s) = [comps |-> s.comps \union {comp}, left |-> s.left \ comp]
    BY <1>2 DEF ScanTurn, comp, c
  <2>5. UNION (s.comps \union {comp}) = cost.open \ (s.left \ comp)
    BY <2>2 DEF Parted
  <2>6. QED
    BY <2>1, <2>2, <2>3, <2>4, <2>5 DEF Parted
<1>3. QED
  BY <1>1, <1>2

LEMMA ScannedRounds ==
  ASSUME NEW cost \in CostGrids
  PROVE  LET f == Scanned(cost)
             N == Cardinality(cost.open)
         IN /\ f[0] = [comps |-> {}, left |-> cost.open]
            /\ \A i \in 1 .. N : i - 1 \in 0 .. N /\ f[i] = ScanTurn(cost, f[i - 1])
<1> DEFINE N == Cardinality(cost.open)
           X == {s \in [comps : SUBSET SUBSET cost.open, left : SUBSET cost.open] : Parted(cost, s)}
           first == [comps |-> {}, left |-> cost.open]
           turn == [s \in X |-> ScanTurn(cost, s)]
           f == Scanned(cost)
<1>1. N \in Nat
  BY OpenFinite
<1>2. ASSUME NEW s \in X PROVE ScanTurn(cost, s) \in X
  <2>1. Parted(cost, ScanTurn(cost, s))
    BY ScanKeeps
  <2>2. QED
    BY <2>1 DEF Parted
<1>3. first \in X /\ turn \in [X -> X]
  <2>1. Parted(cost, first)
    BY DEF Parted
  <2>2. first \in X
    BY <2>1
  <2> HIDE DEF X
  <2>3. QED
    BY <1>2, <2>2
<1> HIDE DEF N
<1>4. PICK g : IsLoop(g, X, first, turn, N)
  <2> HIDE DEF X, first, turn
  <2>1. QED
    BY <1>1, <1>3, RoundsExist
<1>5. ASSUME NEW i \in 1 .. N PROVE g[i] = ScanTurn(cost, g[i - 1])
  <2>1. i - 1 \in 0 .. N
    BY <1>1
  <2>2. g[i - 1] \in X /\ g[i] = turn[g[i - 1]]
    <3> HIDE DEF X, turn
    <3>1. QED
      BY <1>4, <2>1 DEF IsLoop
  <2> HIDE DEF X
  <2>3. QED
    BY <2>2
<1>6. /\ g = [i \in 0 .. N |-> g[i]]
      /\ \A i \in 0 .. N : g[i] = IF i = 0 THEN first ELSE ScanTurn(cost, g[i - 1])
  <2> HIDE DEF X, first
  <2>1. QED
    BY <1>1, <1>4, <1>5 DEF IsLoop
<1>7. g = [i \in 0 .. N |-> IF i = 0 THEN first ELSE ScanTurn(cost, g[i - 1])]
  <2> HIDE DEF X, first
  <2>1. QED
    BY <1>6
<1>8. f = CHOOSE h : h = [i \in 0 .. N |-> IF i = 0 THEN first ELSE ScanTurn(cost, h[i - 1])]
  BY DEF Scanned, Rounds, N
<1>9. f = [i \in 0 .. N |-> IF i = 0 THEN first ELSE ScanTurn(cost, f[i - 1])]
  <2> HIDE DEF f, first
  <2>1. QED
    BY <1>7, <1>8
<1>10. QED
  <2> HIDE DEF f, first
  <2>1. f[0] = first /\ \A i \in 1 .. N : i - 1 \in 0 .. N /\ f[i] = ScanTurn(cost, f[i - 1])
    BY <1>1, <1>9
  <2>2. QED
    BY <2>1 DEF N, f, first

LEMMA RegionsPart == ASSUME NEW cost \in CostGrids PROVE RegionsAreSound(cost)
<1> DEFINE N == Cardinality(cost.open)
           f == Scanned(cost)
           P == {i \in Nat : Parted(cost, f[i]) /\ (f[i].left # {} => Cardinality(f[i].left) <= N - i)}
<1>1. /\ N \in Nat /\ f[0] = [comps |-> {}, left |-> cost.open]
      /\ \A i \in 1 .. N : i - 1 \in 0 .. N /\ f[i] = ScanTurn(cost, f[i - 1])
  BY ScannedRounds, OpenFinite
<1>2. 0 \in P
  BY <1>1 DEF Parted
<1> HIDE DEF f
<1>3. ASSUME NEW i \in 1 .. N, i - 1 \in P PROVE i \in P
  <2>1. Parted(cost, f[i - 1]) /\ f[i] = ScanTurn(cost, f[i - 1]) /\ i \in Nat
    BY <1>1, <1>3
  <2>2. Parted(cost, f[i])
    BY <2>1, ScanKeeps
  <2>3. ASSUME f[i].left # {} PROVE Cardinality(f[i].left) <= N - i
    <3>1. f[i].left \subseteq f[i - 1].left /\ f[i].left # f[i - 1].left /\ f[i - 1].left \subseteq cost.open
      BY <2>1, <2>3, ScanKeeps DEF Parted
    <3>2. IsFiniteSet(f[i - 1].left) /\ f[i - 1].left # {}
      BY <2>3, <3>1, OpenFinite, FS_Subset
    <3>3. /\ IsFiniteSet(f[i].left) /\ Cardinality(f[i].left) <= Cardinality(f[i - 1].left)
          /\ Cardinality(f[i].left) # Cardinality(f[i - 1].left)
      BY <3>1, <3>2, FS_Subset
    <3>4. Cardinality(f[i].left) \in Nat /\ Cardinality(f[i - 1].left) \in Nat
      BY <3>2, <3>3, FS_CardinalityType
    <3>5. Cardinality(f[i - 1].left) <= N - (i - 1)
      BY <1>3, <3>2
    <3> HIDE DEF N
    <3>6. QED
      BY <1>1, <3>3, <3>4, <3>5
  <2>4. QED
    BY <2>1, <2>2, <2>3
<1>4. N \in 0 .. N /\ N \in P
  <2>1. N \in 0 .. N
    BY <1>1
  <2> HIDE DEF P, N
  <2>2. QED
    BY <1>1, <1>2, <1>3, <2>1, RoundByRound
<1>5. f[N].left = {}
  <2>1. SUFFICES ASSUME f[N].left # {} PROVE FALSE
    OBVIOUS
  <2>2. f[N].left \subseteq cost.open /\ Cardinality(f[N].left) <= N - N
    BY <1>4, <2>1 DEF Parted
  <2>3. IsFiniteSet(f[N].left) /\ Cardinality(f[N].left) \in Nat
    BY <2>2, OpenFinite, FS_Subset, FS_CardinalityType
  <2>4. Cardinality(f[N].left) # 0
    BY <2>1, <2>3, FS_EmptySet
  <2> HIDE DEF N
  <2>5. QED
    BY <1>1, <2>2, <2>3, <2>4
<1>6. AllComponents(cost) = f[N].comps
  BY DEF AllComponents, f
<1>7. QED
  BY <1>4, <1>5, <1>6 DEF RegionsAreSound, Parted

-----------------------------------------------------------------------------
(* A*: moves, the heuristic and the heap *)

LEMMA MoveCosts ==
  ASSUME NEW cost, NEW c, NEW n
  PROVE  /\ MoveCost(cost, c, n) \in Nat
         /\ MoveCost(cost, c, n) >= (IF Diagonal(c, n) THEN 14 ELSE 10)
<1>1. (15 * 14) \div 10 = 21 /\ (10 * 14) \div 10 = 14
  OBVIOUS
<1>2. EnterCost(cost, n) = 15 \/ EnterCost(cost, n) = 10
  BY DEF EnterCost
<1>3. QED
  BY <1>1, <1>2 DEF MoveCost

LEMMA OctileTyped == ASSUME NEW a \in Int \X Int, NEW b \in Int \X Int PROVE Octile(a, b) \in Nat
<1>1. Abs(a[1] - b[1]) \in Nat /\ Abs(a[2] - b[2]) \in Nat
  BY DEF Abs
<1>2. ASSUME NEW dx \in Nat, NEW dz \in Nat PROVE 10 * (dx + dz) - 6 * Lower(dx, dz) \in Nat
  BY DEF Lower
<1>3. QED
  BY <1>1, <1>2 DEF Octile

\* The heuristic never promises more than a move gains.
LEMMA OctileConsistent ==
  ASSUME NEW cost, NEW c \in Int \X Int, NEW n \in Around(c), NEW goal \in Int \X Int
  PROVE  Octile(c, goal) <= MoveCost(cost, c, n) + Octile(n, goal)
<1> DEFINE dx == Abs(c[1] - goal[1])
           dz == Abs(c[2] - goal[2])
           ex == Abs(n[1] - goal[1])
           ez == Abs(n[2] - goal[2])
<1>1. /\ c[1] \in Int /\ c[2] \in Int /\ goal[1] \in Int /\ goal[2] \in Int
      /\ n[1] \in c[1] - 1 .. c[1] + 1 /\ n[2] \in c[2] - 1 .. c[2] + 1
  BY DEF Around
<1>2. /\ dx \in Nat /\ dz \in Nat /\ ex \in Nat /\ ez \in Nat
      /\ dx <= ex + 1 /\ dz <= ez + 1
      /\ n[1] = c[1] => dx = ex
      /\ n[2] = c[2] => dz = ez
  BY <1>1 DEF Abs
<1>3. MoveCost(cost, c, n) \in Nat /\ MoveCost(cost, c, n) >= (IF Diagonal(c, n) THEN 14 ELSE 10)
  BY MoveCosts
<1>4. Octile(c, goal) = 10 * (dx + dz) - 6 * Lower(dx, dz)
      /\ Octile(n, goal) = 10 * (ex + ez) - 6 * Lower(ex, ez)
  BY DEF Octile
<1> HIDE DEF dx, dz, ex, ez
<1>5. CASE Diagonal(c, n)
  <2>1. MoveCost(cost, c, n) >= 14
    BY <1>3, <1>5
  <2>2. QED
    BY <1>2, <1>3, <1>4, <2>1 DEF Lower
<1>6. CASE ~Diagonal(c, n)
  <2>1. MoveCost(cost, c, n) >= 10 /\ (n[1] = c[1] \/ n[2] = c[2])
    BY <1>3, <1>6 DEF Diagonal
  <2>2. QED
    BY <1>2, <1>3, <1>4, <2>1 DEF Lower
<1>7. QED
  BY <1>5, <1>6

-----------------------------------------------------------------------------
(* The costs of getting somewhere *)

\* d is what the cells of the start's component cost: no move undercuts it, and all of it is
\* paid by moves.
Measures(d, cost, start) ==
  /\ d \in [Component(cost, start) -> Nat]
  /\ d[start] = 0
  /\ \A c \in Component(cost, start) : \A n \in Neighbors8(cost, c) : d[n] <= d[c] + MoveCost(cost, c, n)
  /\ \A n \in Component(cost, start) \ {start} : \E c \in Component(cost, start) :
       n \in Neighbors8(cost, c) /\ d[n] = d[c] + MoveCost(cost, c, n)

LEMMA MeasureExists ==
  ASSUME NEW cost \in CostGrids, NEW start \in cost.open
  PROVE  \E d : Measures(d, cost, start)
<1> DEFINE comp == Component(cost, start)
           Closed(S) == /\ <<start, 0>> \in S
                        /\ \A c \in comp, k \in Nat : <<c, k>> \in S =>
                             \A n \in Neighbors8(cost, c) : <<n, k + MoveCost(cost, c, n)>> \in S
           All == comp \X Nat
           Reach == {p \in All : \A S \in SUBSET All : Closed(S) => p \in S}
           Costs(c) == {k \in Nat : <<c, k>> \in Reach}
           d == [c \in comp |-> Min(Costs(c))]
<1>1. start \in comp /\ comp \subseteq cost.open /\ \A c \in comp : Neighbors8(cost, c) \subseteq comp
  BY ComponentIsClosure
<1>2. \A c, n : MoveCost(cost, c, n) \in Nat /\ MoveCost(cost, c, n) > 0
  <2>1. ASSUME NEW c, NEW n PROVE MoveCost(cost, c, n) \in Nat /\ MoveCost(cost, c, n) > 0
    BY MoveCosts
  <2>2. QED
    BY <2>1
<1> HIDE DEF comp
<1>3. Reach \subseteq All
  OBVIOUS
<1>4. Closed(Reach)
  <2>1. <<start, 0>> \in Reach
    BY <1>1
  <2>2. ASSUME NEW c \in comp, NEW k \in Nat, <<c, k>> \in Reach, NEW n \in Neighbors8(cost, c)
        PROVE  <<n, k + MoveCost(cost, c, n)>> \in Reach
    <3>1. n \in comp /\ k + MoveCost(cost, c, n) \in Nat
      BY <1>1, <1>2
    <3>2. ASSUME NEW S \in SUBSET All, Closed(S) PROVE <<n, k + MoveCost(cost, c, n)>> \in S
      <4>1. <<c, k>> \in S
        BY <2>2, <3>2
      <4>2. QED
        BY <3>2, <4>1
    <3> HIDE DEF Closed
    <3>3. QED
      BY <3>1, <3>2
  <2>3. QED
    BY <2>1, <2>2
<1>5. \A c \in comp : Costs(c) # {}
  <2> DEFINE S == {c \in comp : Costs(c) # {}}
  <2>1. start \in S
    BY <1>1, <1>4
  <2>2. ASSUME NEW c \in S, NEW n \in Neighbors8(cost, c) PROVE n \in S
    <3>1. c \in comp
      OBVIOUS
    <3>2. PICK k \in Nat : <<c, k>> \in Reach
      OBVIOUS
    <3> HIDE DEF Reach
    <3>3. <<n, k + MoveCost(cost, c, n)>> \in Reach /\ k + MoveCost(cost, c, n) \in Nat /\ n \in comp
      BY <1>1, <1>2, <1>4, <3>1, <3>2
    <3>4. QED
      BY <3>3
  <2>3. comp \subseteq S
    <3>1. \A x \in S \intersect cost.open : Neighbors8(cost, x) \subseteq S
      <4> HIDE DEF S
      <4>1. QED
        BY <2>2
    <3> HIDE DEF S
    <3>2. QED
      BY <2>1, <3>1, ComponentIsClosure DEF comp
  <2>4. QED
    BY <2>3
<1> HIDE DEF Reach
<1>6. \A c \in comp : d[c] \in Nat /\ <<c, d[c]>> \in Reach /\ \A k \in Nat : <<c, k>> \in Reach => d[c] <= k
  <2>1. ASSUME NEW c \in comp PROVE d[c] \in Costs(c) /\ \A k \in Costs(c) : d[c] <= k
    <3>1. Costs(c) \subseteq Nat /\ Costs(c) # {} /\ d[c] = Min(Costs(c))
      BY <1>5
    <3> HIDE DEF Costs, d
    <3>2. QED
      BY <3>1, NatMin
  <2> HIDE DEF d
  <2>2. QED
    BY <2>1
<1>7. d \in [comp -> Nat]
  <2>1. d = [c \in comp |-> d[c]] /\ \A c \in comp : d[c] \in Nat
    BY <1>6
  <2> HIDE DEF d
  <2>2. QED
    BY <2>1
<1> HIDE DEF d
<1>8. d[start] = 0
  <2>1. <<start, 0>> \in Reach
    BY <1>4
  <2>2. d[start] \in Nat /\ d[start] <= 0
    BY <1>1, <1>6, <2>1
  <2>3. QED
    BY <2>2
<1>9. ASSUME NEW c \in comp, NEW n \in Neighbors8(cost, c) PROVE d[n] <= d[c] + MoveCost(cost, c, n)
  <2>1. n \in comp /\ d[c] \in Nat /\ d[c] + MoveCost(cost, c, n) \in Nat
    <3>1. n \in comp
      BY <1>1
    <3>2. d[c] \in Nat /\ MoveCost(cost, c, n) \in Nat
      BY <1>6, MoveCosts
    <3>3. QED
      BY <3>1, <3>2
  <2>2. <<n, d[c] + MoveCost(cost, c, n)>> \in Reach
    BY <1>4, <1>6
  <2>3. QED
    BY <1>6, <2>1, <2>2
<1>10. ASSUME NEW n \in comp \ {start}
       PROVE  \E c \in comp : n \in Neighbors8(cost, c) /\ d[n] = d[c] + MoveCost(cost, c, n)
  <2>1. \E c \in comp, k \in Nat : <<c, k>> \in Reach /\ n \in Neighbors8(cost, c)
                                   /\ k + MoveCost(cost, c, n) = d[n]
    <3>1. SUFFICES ASSUME \A c \in comp, k \in Nat : <<c, k>> \in Reach /\ n \in Neighbors8(cost, c)
                            => k + MoveCost(cost, c, n) # d[n]
                   PROVE  FALSE
      OBVIOUS
    <3> DEFINE S == Reach \ {<<n, d[n]>>}
    <3>2. S \in SUBSET All
      BY <1>3
    <3>3. Closed(S)
      BY <1>4, <3>1
    <3>4. <<n, d[n]>> \in S
      <4>1. <<n, d[n]>> \in Reach
        BY <1>6
      <4> HIDE DEF S, Closed
      <4>2. QED
        BY <3>2, <3>3, <4>1 DEF Reach
    <3>5. QED
      BY <3>4
  <2>2. PICK c \in comp, k \in Nat : <<c, k>> \in Reach /\ n \in Neighbors8(cost, c)
                                     /\ k + MoveCost(cost, c, n) = d[n]
    BY <2>1
  <2>3. d[c] <= k /\ d[c] \in Nat /\ d[n] <= d[c] + MoveCost(cost, c, n) /\ MoveCost(cost, c, n) \in Nat
    BY <1>2, <1>6, <1>9, <2>2
  <2>4. QED
    BY <2>2, <2>3
<1>11. QED
  BY <1>7, <1>8, <1>9, <1>10 DEF Measures, comp

Entries == Nat \X Nat \X Cells

LEMMA TopIsFirst ==
  ASSUME NEW heap, heap \subseteq Entries, heap # {}
  PROVE  HeapTop(heap) \in heap /\ \A b \in heap : HeapBefore(HeapTop(heap), b)
<1> DEFINE F == {e[1] : e \in heap}
           A == {e \in heap : e[1] = Min(F)}
           G == {e[2] : e \in A}
           B == {e \in A : e[2] = Min(G)}
           K == {ScanRank(e[3]) : e \in B}
<1>1. \A e \in heap : e[1] \in Nat /\ e[2] \in Nat /\ ScanRank(e[3]) \in Nat
  <2>1. ASSUME NEW e \in heap PROVE e[1] \in Nat /\ e[2] \in Nat /\ e[3] \in Cells
    BY DEF Entries
  <2>2. ASSUME NEW c \in Cells PROVE ScanRank(c) \in Nat
    <3>1. c[1] \in Nat /\ c[2] \in Nat /\ H \in Nat
      BY CellTyped, Sizes
    <3>2. QED
      BY <3>1 DEF ScanRank
  <2>3. QED
    BY <2>1, <2>2
<1>2. Min(F) \in F /\ \A n \in F : Min(F) <= n
  <2>1. F \subseteq Nat /\ F # {}
    BY <1>1
  <2> HIDE DEF F
  <2>2. QED
    BY <2>1, NatMin
<1>3. A \subseteq heap /\ A # {}
  BY <1>2
<1>4. Min(G) \in G /\ \A n \in G : Min(G) <= n
  <2>1. G \subseteq Nat /\ G # {}
    <3> HIDE DEF A
    <3>1. QED
      BY <1>1, <1>3
  <2> HIDE DEF G
  <2>2. QED
    BY <2>1, NatMin
<1>5. B \subseteq A /\ B # {}
  <2> HIDE DEF A
  <2>1. QED
    BY <1>4
<1>6. Min(K) \in K /\ \A n \in K : Min(K) <= n
  <2>1. K \subseteq Nat /\ K # {}
    <3> HIDE DEF B, A
    <3>1. QED
      BY <1>1, <1>3, <1>5
  <2> HIDE DEF K
  <2>2. QED
    BY <2>1, NatMin
<1>7. PICK a \in B : ScanRank(a[3]) = Min(K)
  <2> HIDE DEF B
  <2>1. QED
    BY <1>6
<1>8. ASSUME NEW b \in heap PROVE HeapBefore(a, b)
  <2>1. a \in heap /\ a[1] = Min(F) /\ a[2] = Min(G)
    BY <1>3, <1>5
  <2>2. a[1] <= b[1]
    BY <1>2, <2>1
  <2>3. b[1] = a[1] => b \in A
    BY <2>1
  <2>4. b \in A => a[2] <= b[2]
    <3> HIDE DEF A
    <3>1. QED
      BY <1>4, <2>1
  <2>5. b \in A /\ b[2] = a[2] => b \in B
    BY <2>1
  <2>6. b \in B => ScanRank(a[3]) <= ScanRank(b[3])
    <3> HIDE DEF B
    <3>1. QED
      BY <1>6, <1>7
  <2> HIDE DEF A, B, F, G, K
  <2>7. QED
    BY <1>1, <2>1, <2>2, <2>3, <2>4, <2>5, <2>6 DEF HeapBefore
<1>9. QED
  <2>1. a \in heap
    BY <1>3, <1>5
  <2>2. \E x \in heap : \A b \in heap : HeapBefore(x, b)
    <3> HIDE DEF A, B
    <3>1. QED
      BY <1>8, <2>1
  <2>3. QED
    BY <2>2 DEF HeapTop

-----------------------------------------------------------------------------
(* A*, round by round *)

\* What is known of the cells met: each entry of the heap promises no less than its cell was
\* reached for, a visited cell's cost is the least there is, and all its moves were tried.
Searching(cost, start, goal, d, s) ==
  /\ s = [heap |-> s.heap, came |-> s.came, g |-> s.g, visited |-> s.visited]
  /\ s.g \in [DOMAIN s.g -> Nat] /\ DOMAIN s.g \subseteq Component(cost, start)
  /\ start \in DOMAIN s.g /\ s.g[start] = 0
  /\ s.visited \subseteq DOMAIN s.g /\ goal \notin s.visited
  /\ s.heap \subseteq Entries
  /\ \A e \in s.heap : /\ e[3] \in DOMAIN s.g \ s.visited
                       /\ e[2] >= s.g[e[3]] /\ e[1] = e[2] + Octile(e[3], goal)
  /\ \A c \in DOMAIN s.g \ s.visited : <<s.g[c] + Octile(c, goal), s.g[c], c>> \in s.heap
  /\ s.came \in [DOMAIN s.g \ {start} -> s.visited]
  /\ \A c \in DOMAIN s.g \ {start} :
       c \in Neighbors8(cost, s.came[c]) /\ s.g[c] = s.g[s.came[c]] + MoveCost(cost, s.came[c], c)
  /\ \A c \in s.visited : \A n \in Neighbors8(cost, c) :
       n \in DOMAIN s.g /\ (n \notin s.visited => s.g[n] <= s.g[c] + MoveCost(cost, c, n))
  /\ \A c \in DOMAIN s.g : d[c] <= s.g[c] /\ (c \in s.visited => s.g[c] = d[c])

\* The entry popped is the one its cell was last reached by, and the cheapest way to the cell.
LEMMA PopIsShortest ==
  ASSUME NEW cost \in CostGrids, NEW start \in cost.open, NEW goal \in Cells, NEW d, Measures(d, cost, start),
         NEW s, Searching(cost, start, goal, d, s), s.heap # {}
  PROVE  LET at == HeapTop(s.heap)[3]
         IN /\ at \in DOMAIN s.g \ s.visited /\ at \in Component(cost, start) /\ at \in cost.open
            /\ HeapTop(s.heap)[2] = s.g[at] /\ s.g[at] = d[at]
<1> DEFINE top == HeapTop(s.heap)
           at == top[3]
           comp == Component(cost, start)
           h(c) == Octile(c, goal)
<1>0. comp \subseteq cost.open /\ comp \subseteq Cells
  BY ComponentIsClosure, OpenFinite
<1>1. top \in s.heap /\ \A b \in s.heap : HeapBefore(top, b)
  BY TopIsFirst DEF Searching
<1>2. at \in DOMAIN s.g \ s.visited /\ at \in comp /\ top[1] = top[2] + h(at) /\ top[2] >= s.g[at]
      /\ top[1] \in Nat /\ top[2] \in Nat
  BY <1>1 DEF Searching, Entries
<1>3. \A c \in comp : h(c) \in Nat
  <2>1. ASSUME NEW c \in comp PROVE h(c) \in Nat
    <3>1. c \in Int \X Int /\ goal \in Int \X Int
      BY <1>0, CellTyped
    <3>2. QED
      BY <3>1, OctileTyped
  <2>2. QED
    BY <2>1
<1>4. ASSUME NEW c \in DOMAIN s.g \ s.visited PROVE top[1] <= s.g[c] + h(c)
  <2>1. <<s.g[c] + h(c), s.g[c], c>> \in s.heap
    BY DEF Searching
  <2>2. HeapBefore(top, <<s.g[c] + h(c), s.g[c], c>>)
    BY <1>1, <2>1
  <2>3. top[1] < s.g[c] + h(c) \/ top[1] = s.g[c] + h(c)
    BY <2>2 DEF HeapBefore
  <2>4. s.g[c] \in Nat /\ h(c) \in Nat
    BY <1>3 DEF Searching
  <2> HIDE DEF top, h
  <2>5. QED
    BY <1>2, <2>3, <2>4
<1>5. s.g[at] \in Nat /\ d[at] \in Nat /\ d[at] <= s.g[at] /\ h(at) \in Nat
  BY <1>2, <1>3 DEF Searching, Measures
<1> HIDE DEF top, at, h
<1>6. top[2] = s.g[at]
  BY <1>2, <1>4, <1>5
<1>7. s.g[at] = d[at]
  <2>1. SUFFICES ASSUME d[at] < s.g[at] PROVE FALSE
    BY <1>5
  <2> DEFINE T == {z \in comp \ s.visited : d[z] + h(z) <= d[at] + h(at)}
             D == {d[z] : z \in T}
  <2>2. at \in T /\ \A z \in comp : d[z] \in Nat
    BY <1>2, <1>5 DEF Measures
  <2>3. Min(D) \in D /\ \A n \in D : Min(D) <= n
    <3>1. D \subseteq Nat /\ D # {}
      BY <2>2
    <3> HIDE DEF D
    <3>2. QED
      BY <3>1, NatMin
  <2>4. PICK z \in T : d[z] = Min(D)
    <3> HIDE DEF T
    <3>1. QED
      BY <2>3
  <2>5. \A c \in T : d[z] <= d[c]
    <3> HIDE DEF T
    <3>1. QED
      BY <2>3, <2>4
  <2> HIDE DEF D
  <2>6. z \in DOMAIN s.g /\ s.g[z] = d[z]
    <3>1. CASE z = start
      BY <3>1 DEF Searching, Measures
    <3>2. CASE z # start
      <4>1. PICK c \in comp : z \in Neighbors8(cost, c) /\ d[z] = d[c] + MoveCost(cost, c, z)
        BY <3>2 DEF Measures
      <4>2. MoveCost(cost, c, z) \in Nat /\ MoveCost(cost, c, z) > 0
        BY MoveCosts
      <4>3. h(c) <= MoveCost(cost, c, z) + h(z)
        <5>1. c \in Int \X Int /\ goal \in Int \X Int /\ z \in Around(c)
          BY <1>0, <4>1, CellTyped DEF Neighbors8
        <5>2. QED
          BY <5>1, OctileConsistent DEF h
      <4>4. d[c] \in Nat /\ h(c) \in Nat /\ h(z) \in Nat /\ d[at] + h(at) \in Nat /\ d[z] \in Nat
        BY <1>3, <1>5, <2>2
      <4>5. d[c] < d[z] /\ d[c] + h(c) <= d[at] + h(at)
        <5>1. d[z] + h(z) <= d[at] + h(at)
          OBVIOUS
        <5> HIDE DEF T
        <5>2. QED
          BY <4>1, <4>2, <4>3, <4>4, <5>1
      <4>6. c \in s.visited
        <5>1. c \notin T
          <6> HIDE DEF T
          <6>1. QED
            BY <2>5, <4>4, <4>5
        <5>2. QED
          BY <4>5, <5>1
      <4>7. z \in DOMAIN s.g /\ s.g[z] <= s.g[c] + MoveCost(cost, c, z) /\ s.g[c] = d[c] /\ d[z] <= s.g[z]
        <5>1. z \notin s.visited
          OBVIOUS
        <5>2. z \in DOMAIN s.g /\ s.g[z] <= s.g[c] + MoveCost(cost, c, z)
          BY <4>1, <4>6, <5>1 DEF Searching
        <5>3. QED
          BY <4>6, <5>2 DEF Searching
      <4>8. s.g[z] \in Nat
        BY <4>7 DEF Searching
      <4>9. QED
        BY <4>1, <4>2, <4>4, <4>7, <4>8
    <3>3. QED
      BY <3>1, <3>2
  <2>7. top[1] <= d[z] + h(z)
    BY <1>4, <2>6
  <2>8. d[z] + h(z) <= d[at] + h(at) /\ d[z] \in Nat /\ h(z) \in Nat
    BY <1>3, <2>2
  <2>9. QED
    BY <1>2, <1>5, <1>6, <2>1, <2>7, <2>8
<1>8. QED
  BY <1>0, <1>2, <1>6, <1>7 DEF top, at

LEMMA ExpandKeeps ==
  ASSUME NEW cost \in CostGrids, NEW start \in cost.open, NEW goal \in Cells, NEW d, Measures(d, cost, start),
         NEW s, Searching(cost, start, goal, d, s), s.heap # {}, HeapTop(s.heap)[3] # goal
  PROVE  /\ Searching(cost, start, goal, d, Expand(cost, goal, s))
         /\ HeapTop(s.heap)[3] \in cost.open \ s.visited
         /\ Expand(cost, goal, s).visited = s.visited \union {HeapTop(s.heap)[3]}
<1> DEFINE top == HeapTop(s.heap)
           at == top[3]
           comp == Component(cost, start)
           To(n) == top[2] + MoveCost(cost, at, n)
           better == {n \in Neighbors8(cost, at) \ s.visited : n \in DOMAIN s.g => To(n) < s.g[n]}
           heap == {e \in s.heap : e[3] # at} \union {<<To(n) + Octile(n, goal), To(n), n>> : n \in better}
           came == [n \in better \union DOMAIN s.came |-> IF n \in better THEN at ELSE s.came[n]]
           g == [n \in better \union DOMAIN s.g |-> IF n \in better THEN To(n) ELSE s.g[n]]
           visited == s.visited \union {at}
           t == [heap |-> heap, came |-> came, g |-> g, visited |-> visited]
<1>1. at \in DOMAIN s.g \ s.visited /\ at \in comp /\ at \in cost.open /\ top[2] = s.g[at] /\ s.g[at] = d[at]
      /\ s.g[at] \in Nat
  <2>1. at \in DOMAIN s.g \ s.visited /\ at \in comp /\ at \in cost.open /\ top[2] = s.g[at] /\ s.g[at] = d[at]
    BY PopIsShortest
  <2> HIDE DEF top, at
  <2>2. s.g[at] \in Nat
    BY <2>1 DEF Searching
  <2>3. QED
    BY <2>1, <2>2
<1>2. Expand(cost, goal, s) = t
  BY DEF Expand, Written
<1>3. comp \subseteq cost.open /\ comp \subseteq Cells /\ \A c \in comp : Neighbors8(cost, c) \subseteq comp
  BY ComponentIsClosure, OpenFinite
<1>4. \A n : To(n) \in Nat /\ To(n) = d[at] + MoveCost(cost, at, n) /\ To(n) = s.g[at] + MoveCost(cost, at, n)
  <2>1. ASSUME NEW n PROVE To(n) \in Nat
    <3>1. MoveCost(cost, at, n) \in Nat
      BY MoveCosts
    <3>2. QED
      BY <1>1, <3>1
  <2>2. QED
    BY <1>1, <2>1
<1>5. at \notin better /\ start \notin better /\ better \subseteq comp /\ better \intersect s.visited = {}
  <2>1. at \notin better
    BY DEF Neighbors8
  <2>2. better \subseteq comp
    BY <1>1, <1>3
  <2>3. start \notin better
    <3>1. start \in DOMAIN s.g /\ s.g[start] = 0 /\ To(start) \in Nat
      BY <1>4 DEF Searching
    <3>2. ~ (To(start) < 0)
      BY <3>1
    <3> HIDE DEF To
    <3>3. QED
      BY <3>1, <3>2
  <2>4. QED
    BY <2>1, <2>2, <2>3
<1>6. /\ better \subseteq Neighbors8(cost, at)
      /\ \A n \in Neighbors8(cost, at) : n \in s.visited \/ n \in better \/ (n \in DOMAIN s.g /\ ~ (To(n) < s.g[n]))
      /\ \A n \in better : n \in DOMAIN s.g => To(n) < s.g[n]
  OBVIOUS
<1> HIDE DEF top, at, To, better
<1>7. /\ DOMAIN g = better \union DOMAIN s.g /\ \A n \in better : g[n] = To(n)
      /\ \A n \in DOMAIN s.g : n \notin better => g[n] = s.g[n]
      /\ g[at] = s.g[at] /\ g[start] = s.g[start]
      /\ \A n \in s.visited : g[n] = s.g[n]
  <2>1. start \in DOMAIN s.g /\ s.visited \subseteq DOMAIN s.g
    BY DEF Searching
  <2>2. QED
    BY <1>1, <1>5, <2>1
<1>8. g \in [DOMAIN g -> Nat] /\ DOMAIN g \subseteq comp /\ start \in DOMAIN g /\ g[start] = 0
  <2>1. \A n \in better \union DOMAIN s.g : (IF n \in better THEN To(n) ELSE s.g[n]) \in Nat
    BY <1>4 DEF Searching
  <2>2. g \in [DOMAIN g -> Nat]
    BY <2>1
  <2>3. QED
    BY <1>5, <1>7, <2>2 DEF Searching
<1>9. \A n \in DOMAIN s.g : g[n] <= s.g[n] /\ g[n] \in Nat /\ s.g[n] \in Nat
  <2>1. ASSUME NEW n \in DOMAIN s.g PROVE g[n] <= s.g[n] /\ g[n] \in Nat /\ s.g[n] \in Nat
    <3>1. s.g[n] \in Nat
      BY DEF Searching
    <3> HIDE DEF g
    <3>2. CASE n \in better
      BY <1>4, <1>6, <1>7, <3>1, <3>2
    <3>3. CASE n \notin better
      BY <1>7, <3>1, <3>3
    <3>4. QED
      BY <3>2, <3>3
  <2>2. QED
    BY <2>1
<1> DEFINE domC == better \union DOMAIN s.came
<1>10. domC = DOMAIN g \ {start} /\ DOMAIN s.came = DOMAIN s.g \ {start}
       /\ \A n \in DOMAIN s.came : s.came[n] \in s.visited
  BY <1>5, <1>7 DEF Searching
<1>11. came \in [DOMAIN g \ {start} -> visited]
  BY <1>10
<1>12. /\ \A n \in better : came[n] = at
       /\ \A n \in (DOMAIN g \ {start}) : n \notin better => n \in DOMAIN s.came /\ came[n] = s.came[n]
  BY <1>10
<1> HIDE DEF g, came
<1>13. visited \subseteq DOMAIN g /\ goal \notin visited
  <2>1. at # goal
    BY DEF at, top
  <2>2. QED
    BY <1>1, <1>7, <2>1 DEF Searching
<1>14. /\ heap \subseteq Entries
       /\ \A e \in heap : /\ e[3] \in DOMAIN g \ visited
                          /\ e[2] >= g[e[3]] /\ e[1] = e[2] + Octile(e[3], goal)
  <2>1. ASSUME NEW e \in s.heap, e[3] # at
        PROVE  e \in Entries /\ e[3] \in DOMAIN g \ visited /\ e[2] >= g[e[3]] /\ e[1] = e[2] + Octile(e[3], goal)
    <3>1. e \in Entries /\ e[3] \in DOMAIN s.g \ s.visited /\ e[2] >= s.g[e[3]] /\ e[1] = e[2] + Octile(e[3], goal)
      BY DEF Searching
    <3>2. e[2] \in Nat
      BY <3>1 DEF Entries
    <3>3. g[e[3]] <= s.g[e[3]] /\ g[e[3]] \in Nat /\ s.g[e[3]] \in Nat
      BY <1>9, <3>1
    <3>4. e[2] >= g[e[3]]
      BY <3>1, <3>2, <3>3
    <3>5. QED
      BY <1>7, <2>1, <3>1, <3>4
  <2>2. ASSUME NEW n \in better
        PROVE  /\ <<To(n) + Octile(n, goal), To(n), n>> \in Entries /\ n \in DOMAIN g \ visited /\ To(n) >= g[n]
    <3>1. n \in Cells /\ n \in Int \X Int /\ goal \in Int \X Int
      BY <1>3, <1>5, CellTyped
    <3>2. Octile(n, goal) \in Nat /\ To(n) \in Nat /\ g[n] = To(n)
      BY <1>4, <1>7, <3>1, OctileTyped
    <3>3. <<To(n) + Octile(n, goal), To(n), n>> \in Entries
      BY <3>1, <3>2 DEF Entries
    <3>4. n \in DOMAIN g \ visited /\ To(n) >= g[n]
      BY <1>5, <1>7, <3>2
    <3>5. QED
      BY <3>3, <3>4
  <2>3. ASSUME NEW e \in heap
        PROVE e \in Entries /\ e[3] \in DOMAIN g \ visited /\ e[2] >= g[e[3]] /\ e[1] = e[2] + Octile(e[3], goal)
    <3>1. CASE e \in s.heap /\ e[3] # at
      BY <2>1, <3>1
    <3>2. CASE ~(e \in s.heap /\ e[3] # at)
      <4>1. PICK n \in better : e = <<To(n) + Octile(n, goal), To(n), n>>
        BY <3>2
      <4>2. e[1] = To(n) + Octile(n, goal) /\ e[2] = To(n) /\ e[3] = n
        BY <4>1
      <4> HIDE DEF visited
      <4>3. QED
        BY <2>2, <4>1, <4>2
    <3>3. QED
      BY <3>1, <3>2
  <2> HIDE DEF heap
  <2>4. QED
    BY <2>3
<1>15. ASSUME NEW c \in DOMAIN g \ visited PROVE <<g[c] + Octile(c, goal), g[c], c>> \in heap
  <2>1. CASE c \in better
    BY <1>7, <2>1
  <2>2. CASE c \notin better
    <3>1. c \in DOMAIN s.g \ s.visited /\ c # at /\ g[c] = s.g[c]
      BY <1>7, <2>2
    <3>2. <<s.g[c] + Octile(c, goal), s.g[c], c>> \in s.heap
      BY <3>1 DEF Searching
    <3>3. QED
      BY <3>1, <3>2
  <2>3. QED
    BY <2>1, <2>2
<1>16. ASSUME NEW c \in DOMAIN g \ {start}
       PROVE  c \in Neighbors8(cost, came[c]) /\ g[c] = g[came[c]] + MoveCost(cost, came[c], c)
  <2>1. CASE c \in better
    <3>1. came[c] = at /\ g[c] = To(c) /\ g[at] = s.g[at]
      BY <1>7, <1>12, <2>1
    <3>2. QED
      BY <1>4, <1>6, <2>1, <3>1
  <2>2. CASE c \notin better
    <3>1. came[c] = s.came[c] /\ c \in DOMAIN s.g \ {start} /\ g[c] = s.g[c] /\ s.came[c] \in s.visited
      BY <1>7, <1>10, <1>12, <2>2
    <3>2. g[s.came[c]] = s.g[s.came[c]]
      BY <1>7, <3>1
    <3>3. c \in Neighbors8(cost, s.came[c]) /\ s.g[c] = s.g[s.came[c]] + MoveCost(cost, s.came[c], c)
      BY <3>1 DEF Searching
    <3>4. QED
      BY <3>1, <3>2, <3>3
  <2>3. QED
    BY <2>1, <2>2
<1>17. ASSUME NEW c \in visited, NEW n \in Neighbors8(cost, c)
       PROVE  n \in DOMAIN g /\ (n \notin visited => g[n] <= g[c] + MoveCost(cost, c, n))
  <2>1. CASE c = at
    <3>1. CASE n \in s.visited
      BY <1>7, <3>1 DEF Searching
    <3>2. CASE n \in better
      <4>1. n \in DOMAIN g /\ g[n] = To(n) /\ g[at] = s.g[at] /\ To(n) \in Nat /\ To(n) = s.g[at] + MoveCost(cost, at, n)
        BY <1>4, <1>7, <3>2
      <4>2. QED
        BY <2>1, <4>1
    <3>3. CASE n \notin s.visited /\ n \notin better
      <4>1. n \in DOMAIN s.g /\ ~ (To(n) < s.g[n])
        BY <1>6, <2>1, <3>3
      <4>2. n \in DOMAIN g /\ g[n] = s.g[n] /\ g[at] = s.g[at] /\ To(n) \in Nat
            /\ To(n) = s.g[at] + MoveCost(cost, at, n) /\ s.g[n] \in Nat
        BY <1>4, <1>7, <1>9, <3>3, <4>1
      <4>3. QED
        BY <2>1, <4>1, <4>2
    <3>4. QED
      BY <3>1, <3>2, <3>3
  <2>2. CASE c # at
    <3>1. c \in s.visited /\ g[c] = s.g[c]
      BY <1>7, <2>2
    <3>2. n \in DOMAIN s.g /\ (n \notin s.visited => s.g[n] <= s.g[c] + MoveCost(cost, c, n))
      BY <3>1 DEF Searching
    <3>3. n \in DOMAIN g /\ g[n] <= s.g[n] /\ g[n] \in Nat /\ s.g[n] \in Nat /\ g[c] \in Nat
          /\ MoveCost(cost, c, n) \in Nat
      <4>1. c \in DOMAIN s.g
        BY <3>1 DEF Searching
      <4>2. QED
        BY <1>7, <1>9, <3>2, <4>1, MoveCosts
    <3>4. QED
      BY <3>1, <3>2, <3>3
  <2>3. QED
    BY <2>1, <2>2
<1>18. ASSUME NEW c \in DOMAIN g PROVE d[c] <= g[c] /\ (c \in visited => g[c] = d[c])
  <2>1. CASE c \in better
    <3>1. d[c] <= d[at] + MoveCost(cost, at, c) /\ g[c] = To(c)
      BY <1>1, <1>6, <1>7, <2>1 DEF Measures
    <3>2. c \notin visited
      BY <1>5, <2>1
    <3>3. QED
      BY <1>4, <3>1, <3>2
  <2>2. CASE c \notin better
    <3>1. c \in DOMAIN s.g /\ g[c] = s.g[c]
      BY <1>7, <2>2
    <3>2. QED
      BY <1>1, <3>1 DEF Searching
  <2>3. QED
    BY <2>1, <2>2
<1> HIDE DEF heap, visited
<1>19. Searching(cost, start, goal, d, t)
  BY <1>8, <1>11, <1>13, <1>14, <1>15, <1>16, <1>17, <1>18 DEF Searching
<1>20. QED
  BY <1>1, <1>2, <1>19 DEF at, top, visited

Maps(S) == UNION {[keys -> S] : keys \in SUBSET Cells}
Searches == [heap : SUBSET Entries, came : Maps(Cells), g : Maps(Nat), visited : SUBSET Cells]

LEMMA SearchingTyped ==
  ASSUME NEW cost \in CostGrids, NEW start \in cost.open, NEW goal, NEW d, NEW s,
         Searching(cost, start, goal, d, s)
  PROVE  s \in Searches
<1>1. Component(cost, start) \subseteq Cells
  BY ComponentIsClosure, OpenFinite
<1>2. DOMAIN s.g \in SUBSET Cells /\ s.g \in [DOMAIN s.g -> Nat]
      /\ DOMAIN s.g \ {start} \in SUBSET Cells /\ s.came \in [DOMAIN s.g \ {start} -> Cells]
  BY <1>1 DEF Searching
<1>3. s.g \in Maps(Nat) /\ s.came \in Maps(Cells)
  BY <1>2 DEF Maps
<1>4. s = [heap |-> s.heap, came |-> s.came, g |-> s.g, visited |-> s.visited]
      /\ s.heap \subseteq Entries /\ s.visited \subseteq Cells
  BY <1>1 DEF Searching
<1>5. QED
  BY <1>3, <1>4 DEF Searches

LEMMA SearchTurnKeeps ==
  ASSUME NEW cost \in CostGrids, NEW start \in cost.open, NEW goal \in Cells, NEW d, Measures(d, cost, start),
         NEW s, Searching(cost, start, goal, d, s)
  PROVE  Searching(cost, start, goal, d, SearchTurn(cost, goal, s))
<1>1. CASE s.heap = {} \/ HeapTop(s.heap)[3] = goal
  BY <1>1 DEF SearchTurn
<1>2. CASE ~(s.heap = {} \/ HeapTop(s.heap)[3] = goal)
  BY <1>2, ExpandKeeps DEF SearchTurn
<1>3. QED
  BY <1>1, <1>2

LEMMA SearchStarts ==
  ASSUME NEW cost \in CostGrids, NEW start \in cost.open, NEW goal \in Cells, NEW d, Measures(d, cost, start)
  PROVE  Searching(cost, start, goal, d, SearchFirst(start, goal))
<1> DEFINE s == SearchFirst(start, goal)
<1>1. start \in Component(cost, start) /\ start \in Cells /\ d[start] = 0
  BY ComponentIsClosure, OpenFinite DEF Measures
<1>2. Octile(start, goal) \in Nat
  BY <1>1, CellTyped, OctileTyped
<1>3. s = [heap |-> {<<Octile(start, goal), 0, start>>}, came |-> << >>, g |-> [c \in {start} |-> 0],
           visited |-> {}]
  BY DEF SearchFirst
<1>4. s.heap = {<<Octile(start, goal), 0, start>>} /\ s.came = << >> /\ s.g = [c \in {start} |-> 0] /\ s.visited = {}
      /\ s = [heap |-> s.heap, came |-> s.came, g |-> s.g, visited |-> s.visited]
  BY <1>3
<1> HIDE DEF s
<1>5. /\ DOMAIN s.g = {start} /\ s.g \in [DOMAIN s.g -> Nat] /\ s.g[start] = 0
  BY <1>4
<1>6. s.heap \subseteq Entries
  BY <1>1, <1>2, <1>4 DEF Entries
<1>7. \A e \in s.heap : /\ e[3] \in DOMAIN s.g \ s.visited
                        /\ e[2] >= s.g[e[3]] /\ e[1] = e[2] + Octile(e[3], goal)
  BY <1>2, <1>4, <1>5
<1>8. \A c \in DOMAIN s.g \ s.visited : <<s.g[c] + Octile(c, goal), s.g[c], c>> \in s.heap
  BY <1>2, <1>4, <1>5
<1>9. s.came \in [DOMAIN s.g \ {start} -> s.visited]
  <2>1. << >> = [x \in {} |-> x]
    BY SMT
  <2>2. DOMAIN s.g \ {start} = {}
    BY <1>5
  <2>3. QED
    BY <1>4, <2>1, <2>2
<1>10. \A c \in DOMAIN s.g : d[c] <= s.g[c] /\ (c \in s.visited => s.g[c] = d[c])
  BY <1>1, <1>4, <1>5
<1>11. QED
  BY <1>1, <1>4, <1>5, <1>6, <1>7, <1>8, <1>9, <1>10 DEF Searching, s

LEMMA SearchedRounds ==
  ASSUME NEW cost \in CostGrids, NEW start \in cost.open, NEW goal \in Cells, NEW d, Measures(d, cost, start)
  PROVE  LET f == Searched(cost, start, goal)
             N == Cardinality(cost.open)
         IN /\ f[0] = SearchFirst(start, goal)
            /\ \A i \in 1 .. N : i - 1 \in 0 .. N /\ f[i] = SearchTurn(cost, goal, f[i - 1])
<1> DEFINE N == Cardinality(cost.open)
           X == {s \in Searches : Searching(cost, start, goal, d, s)}
           first == SearchFirst(start, goal)
           turn == [s \in X |-> SearchTurn(cost, goal, s)]
           f == Searched(cost, start, goal)
<1>1. N \in Nat
  BY OpenFinite
<1>2. ASSUME NEW s \in X PROVE SearchTurn(cost, goal, s) \in X
  <2>1. Searching(cost, start, goal, d, SearchTurn(cost, goal, s))
    BY SearchTurnKeeps
  <2>2. QED
    BY <2>1, SearchingTyped
<1>3. first \in X /\ turn \in [X -> X]
  <2>1. first \in X
    BY SearchStarts, SearchingTyped
  <2> HIDE DEF X
  <2>2. QED
    BY <1>2, <2>1
<1> HIDE DEF N, first
<1>4. PICK g : IsLoop(g, X, first, turn, N)
  <2> HIDE DEF X, turn
  <2>1. QED
    BY <1>1, <1>3, RoundsExist
<1>5. ASSUME NEW i \in 1 .. N PROVE g[i] = SearchTurn(cost, goal, g[i - 1])
  <2>1. i - 1 \in 0 .. N
    BY <1>1
  <2>2. g[i - 1] \in X /\ g[i] = turn[g[i - 1]]
    <3> HIDE DEF X, turn
    <3>1. QED
      BY <1>4, <2>1 DEF IsLoop
  <2> HIDE DEF X
  <2>3. QED
    BY <2>2
<1>6. /\ g = [i \in 0 .. N |-> g[i]]
      /\ \A i \in 0 .. N : g[i] = IF i = 0 THEN first ELSE SearchTurn(cost, goal, g[i - 1])
  <2> HIDE DEF X
  <2>1. QED
    BY <1>1, <1>4, <1>5 DEF IsLoop
<1>7. g = [i \in 0 .. N |-> IF i = 0 THEN first ELSE SearchTurn(cost, goal, g[i - 1])]
  <2> HIDE DEF X
  <2>1. QED
    BY <1>6
<1>8. f = CHOOSE h : h = [i \in 0 .. N |-> IF i = 0 THEN first ELSE SearchTurn(cost, goal, h[i - 1])]
  BY DEF Searched, Rounds, N, first
<1>9. f = [i \in 0 .. N |-> IF i = 0 THEN first ELSE SearchTurn(cost, goal, f[i - 1])]
  <2> HIDE DEF f
  <2>1. QED
    BY <1>7, <1>8
<1>10. QED
  <2> HIDE DEF f
  <2>1. f[0] = first /\ \A i \in 1 .. N : i - 1 \in 0 .. N /\ f[i] = SearchTurn(cost, goal, f[i - 1])
    BY <1>1, <1>9
  <2>2. QED
    BY <2>1 DEF N, f, first

\* The rounds are enough: in the end the goal is the cheapest left, or nothing is left and
\* the goal is nowhere.
LEMMA SearchEnds ==
  ASSUME NEW cost \in CostGrids, NEW start \in cost.open, NEW goal \in Cells, NEW d, Measures(d, cost, start)
  PROVE  LET end == Searched(cost, start, goal)[Cardinality(cost.open)]
         IN /\ Searching(cost, start, goal, d, end)
            /\ end.heap = {} => goal \notin Component(cost, start)
            /\ end.heap # {} => goal \in DOMAIN end.g /\ goal \in Component(cost, start) /\ end.g[goal] = d[goal]
<1> DEFINE N == Cardinality(cost.open)
           f == Searched(cost, start, goal)
           Done(s) == s.heap = {} \/ HeapTop(s.heap)[3] = goal
           P == {i \in Nat : Searching(cost, start, goal, d, f[i])
                             /\ (Done(f[i]) \/ Cardinality(f[i].visited) = i)}
<1>1. /\ N \in Nat /\ f[0] = SearchFirst(start, goal)
      /\ \A i \in 1 .. N : i - 1 \in 0 .. N /\ f[i] = SearchTurn(cost, goal, f[i - 1])
  BY SearchedRounds, OpenFinite
<1>2. 0 \in P
  <2>1. f[0].visited = {}
    BY <1>1 DEF SearchFirst
  <2>2. Cardinality(f[0].visited) = 0
    BY <2>1, FS_EmptySet
  <2>3. QED
    BY <1>1, <2>2, SearchStarts
<1> HIDE DEF f
<1>0. ASSUME NEW s, Searching(cost, start, goal, d, s) PROVE s.visited \subseteq cost.open /\ IsFiniteSet(s.visited)
  <2>1. s.visited \subseteq cost.open
    BY <1>0, ComponentIsClosure DEF Searching
  <2>2. QED
    BY <2>1, OpenFinite, FS_Subset
<1>3. ASSUME NEW i \in 1 .. N, i - 1 \in P PROVE i \in P
  <2>1. Searching(cost, start, goal, d, f[i - 1]) /\ f[i] = SearchTurn(cost, goal, f[i - 1]) /\ i \in Nat
    BY <1>1, <1>3
  <2>2. Searching(cost, start, goal, d, f[i])
    BY <2>1, SearchTurnKeeps
  <2>3. CASE Done(f[i - 1])
    <3>1. f[i] = f[i - 1]
      BY <2>1, <2>3 DEF SearchTurn
    <3>2. QED
      BY <2>1, <2>2, <2>3, <3>1
  <2>4. CASE ~Done(f[i - 1])
    <3>1. f[i] = Expand(cost, goal, f[i - 1])
      BY <2>1, <2>4 DEF SearchTurn
    <3> DEFINE at == HeapTop(f[i - 1].heap)[3]
    <3>2. at \notin f[i - 1].visited /\ f[i].visited = f[i - 1].visited \union {at}
      BY <2>1, <2>4, <3>1, ExpandKeeps
    <3> HIDE DEF at
    <3>3. Cardinality(f[i].visited) = Cardinality(f[i - 1].visited) + 1
      BY <1>0, <2>1, <3>2, FS_AddElement
    <3>4. Cardinality(f[i - 1].visited) = i - 1
      BY <1>3, <2>4
    <3>5. QED
      BY <2>1, <2>2, <3>3, <3>4
  <2>5. QED
    BY <2>3, <2>4
<1>4. N \in 0 .. N /\ N \in P
  <2>1. N \in 0 .. N
    BY <1>1
  <2> HIDE DEF P, N
  <2>2. QED
    BY <1>1, <1>2, <1>3, <2>1, RoundByRound
<1> DEFINE end == f[N]
<1>5. Searching(cost, start, goal, d, end) /\ (Done(end) \/ Cardinality(end.visited) = N)
  BY <1>4
<1> HIDE DEF end
<1>6. Done(end)
  <2>1. SUFFICES ASSUME Cardinality(end.visited) = N, end.heap # {} PROVE FALSE
    BY <1>5
  <2>2. end.visited = cost.open
    <3>1. end.visited \subseteq cost.open /\ IsFiniteSet(cost.open)
      BY <1>0, <1>5, OpenFinite
    <3>2. QED
      BY <2>1, <3>1, FS_Subset DEF N
  <2>3. PICK e \in end.heap : TRUE
    BY <2>1
  <2>4. e[3] \in DOMAIN end.g \ end.visited /\ DOMAIN end.g \subseteq cost.open
    BY <1>5, ComponentIsClosure DEF Searching
  <2>5. QED
    BY <2>2, <2>4
<1>7. ASSUME end.heap = {} PROVE goal \notin Component(cost, start)
  <2>1. DOMAIN end.g \subseteq end.visited /\ start \in DOMAIN end.g /\ goal \notin end.visited
        /\ end.visited \subseteq DOMAIN end.g
    BY <1>5, <1>7 DEF Searching
  <2>2. \A c \in end.visited : Neighbors8(cost, c) \subseteq end.visited
    BY <1>5, <2>1 DEF Searching
  <2>3. start \in end.visited /\ \A x \in end.visited \intersect cost.open : Neighbors8(cost, x) \subseteq end.visited
    BY <2>1, <2>2
  <2>4. Component(cost, start) \subseteq end.visited
    BY <2>3, ComponentIsClosure
  <2>5. QED
    BY <2>1, <2>4
<1>8. ASSUME end.heap # {}
      PROVE  goal \in DOMAIN end.g /\ goal \in Component(cost, start) /\ end.g[goal] = d[goal]
  <2>1. HeapTop(end.heap)[3] = goal
    BY <1>6, <1>8
  <2>2. QED
    BY <1>5, <1>8, <2>1, PopIsShortest
<1>9. QED
  BY <1>5, <1>7, <1>8 DEF end, f, N

-----------------------------------------------------------------------------
(* The way back *)

\* A way back from the goal, as far as it was followed.
Walked(cost, start, goal, s, path) ==
  /\ path \in Seq(DOMAIN s.g) /\ Len(path) \in Nat \ {0} /\ path[Len(path)] = goal
  /\ \A i \in 1 .. Len(path) - 1 :
       /\ path[i + 1] \in Neighbors8(cost, path[i]) /\ path[i + 1] # start
       /\ s.g[path[i + 1]] = s.g[path[i]] + MoveCost(cost, path[i], path[i + 1])
  /\ \A i \in 1 .. Len(path) : s.g[path[1]] <= s.g[path[i]]
  /\ Cardinality({path[i] : i \in 1 .. Len(path)}) = Len(path)

LEMMA OneLong ==
  ASSUME NEW S, NEW h \in S
  PROVE  <<h>> \in Seq(S) /\ Len(<<h>>) = 1 /\ <<h>>[1] = h
  OBVIOUS

LEMMA Headed ==
  ASSUME NEW S, NEW h \in S, NEW path \in Seq(S), NEW new, new = <<h>> \o path
  PROVE  /\ new \in Seq(S) /\ Len(new) = Len(path) + 1
         /\ new[1] = h
         /\ \A i \in 1 .. Len(path) : new[i + 1] = path[i]
         /\ \A i \in 2 .. Len(path) + 1 : new[i] = path[i - 1]
  OBVIOUS

LEMMA BackKeeps ==
  ASSUME NEW cost \in CostGrids, NEW start \in cost.open, NEW goal \in Cells, NEW d,
         NEW s, Searching(cost, start, goal, d, s), NEW path, Walked(cost, start, goal, s, path)
  PROVE  /\ Walked(cost, start, goal, s, Back(s.came, path))
         /\ path[1] # start => Len(Back(s.came, path)) = Len(path) + 1
         /\ path[1] = start => Back(s.came, path) = path
<1> DEFINE h == s.came[path[1]]
           new == <<h>> \o path
           R == {path[i] : i \in 1 .. Len(path)}
<1>0. /\ s.came \in [DOMAIN s.g \ {start} -> s.visited] /\ s.visited \subseteq DOMAIN s.g
      /\ s.g \in [DOMAIN s.g -> Nat]
  BY DEF Searching
<1>1. path[1] \in DOMAIN s.g /\ path \in Seq(DOMAIN s.g) /\ Len(path) \in Nat \ {0}
      /\ \A i \in 1 .. Len(path) : path[i] \in DOMAIN s.g
  <2>1. path \in Seq(DOMAIN s.g) /\ Len(path) \in Nat \ {0}
    BY DEF Walked
  <2>2. \A i \in 1 .. Len(path) : path[i] \in DOMAIN s.g
    BY <2>1
  <2>3. QED
    BY <2>1, <2>2
<1>2. CASE path[1] = start
  <2>1. path[1] \notin DOMAIN s.came
    BY <1>0, <1>2
  <2>2. QED
    BY <1>2, <2>1 DEF Back
<1>3. CASE path[1] # start
  <2>1. path[1] \in DOMAIN s.came /\ h \in DOMAIN s.g
    BY <1>0, <1>1, <1>3
  <2>2. Back(s.came, path) = new
    BY <2>1 DEF Back
  <2>3. path[1] \in Neighbors8(cost, h) /\ s.g[path[1]] = s.g[h] + MoveCost(cost, h, path[1])
    BY <1>1, <1>3 DEF Searching
  <2> HIDE DEF h
  <2>4. /\ new \in Seq(DOMAIN s.g) /\ Len(new) = Len(path) + 1 /\ new[1] = h
        /\ \A i \in 1 .. Len(path) : new[i + 1] = path[i]
        /\ \A i \in 2 .. Len(path) + 1 : new[i] = path[i - 1]
    <3> DEFINE D == DOMAIN s.g
    <3>1. h \in D /\ path \in Seq(D) /\ new = <<h>> \o path
      BY <1>1, <2>1
    <3> HIDE DEF D, new
    <3>2. /\ new \in Seq(D) /\ Len(new) = Len(path) + 1 /\ new[1] = h
          /\ \A i \in 1 .. Len(path) : new[i + 1] = path[i]
          /\ \A i \in 2 .. Len(path) + 1 : new[i] = path[i - 1]
      BY <3>1, Headed
    <3>3. QED
      BY <3>2 DEF D
  <2> HIDE DEF new
  <2>5. s.g[h] \in Nat /\ s.g[path[1]] \in Nat /\ s.g[h] < s.g[path[1]]
    <3>1. MoveCost(cost, h, path[1]) \in Nat /\ MoveCost(cost, h, path[1]) > 0
      BY MoveCosts
    <3>2. s.g[h] \in Nat
      BY <1>0, <2>1
    <3>3. QED
      BY <2>3, <3>1, <3>2
  <2>6. Len(new) \in Nat \ {0} /\ new[Len(new)] = goal
    <3>1. new[Len(path) + 1] = path[Len(path)]
      BY <1>1, <2>4
    <3>2. path[Len(path)] = goal
      BY DEF Walked
    <3>3. Len(new) = Len(path) + 1 /\ Len(path) \in Nat
      BY <1>1, <2>4
    <3>4. QED
      BY <3>1, <3>2, <3>3
  <2>7. ASSUME NEW i \in 1 .. Len(new) - 1
        PROVE  /\ new[i + 1] \in Neighbors8(cost, new[i]) /\ new[i + 1] # start
               /\ s.g[new[i + 1]] = s.g[new[i]] + MoveCost(cost, new[i], new[i + 1])
    <3>1. CASE i = 1
      <4>1. new[i + 1] = path[1] /\ new[i] = h
        BY <1>1, <2>4, <3>1
      <4>2. QED
        BY <1>3, <2>3, <4>1
    <3>2. CASE i # 1
      <4>1. i - 1 \in 1 .. Len(path) - 1 /\ i \in 2 .. Len(path) + 1 /\ i \in 1 .. Len(path)
        BY <1>1, <2>4, <3>2
      <4>2. new[i + 1] = path[i] /\ new[i] = path[i - 1]
        BY <2>4, <4>1
      <4>3. (i - 1) + 1 = i
        OBVIOUS
      <4>4. /\ path[i] \in Neighbors8(cost, path[i - 1]) /\ path[i] # start
            /\ s.g[path[i]] = s.g[path[i - 1]] + MoveCost(cost, path[i - 1], path[i])
        BY <4>1, <4>3 DEF Walked
      <4>5. QED
        BY <4>2, <4>4
    <3>3. QED
      BY <3>1, <3>2
  <2>8. ASSUME NEW i \in 1 .. Len(path) PROVE s.g[h] < s.g[path[i]]
    <3>1. s.g[path[1]] <= s.g[path[i]] /\ s.g[path[i]] \in Nat
      BY <1>0, <1>1 DEF Walked
    <3>2. QED
      BY <2>5, <3>1
  <2>9. ASSUME NEW i \in 1 .. Len(new) PROVE s.g[new[1]] <= s.g[new[i]]
    <3>1. CASE i = 1
      BY <2>4, <2>5, <3>1
    <3>2. CASE i # 1
      <4>1. i - 1 \in 1 .. Len(path) /\ new[i] = path[i - 1]
        BY <1>1, <2>4, <3>2
      <4>2. s.g[h] < s.g[path[i - 1]] /\ s.g[path[i - 1]] \in Nat
        BY <1>0, <1>1, <2>8, <4>1
      <4>3. QED
        BY <2>4, <2>5, <4>1, <4>2
    <3>3. QED
      BY <3>1, <3>2
  <2>10. Cardinality({new[i] : i \in 1 .. Len(new)}) = Len(new)
    <3>1. {new[i] : i \in 1 .. Len(new)} = R \union {h}
      <4>1. ASSUME NEW i \in 1 .. Len(new) PROVE new[i] \in R \union {h}
        <5>1. i = 1 \/ (i - 1 \in 1 .. Len(path) /\ i \in 2 .. Len(path) + 1)
          BY <1>1, <2>4
        <5>2. QED
          BY <2>4, <5>1
      <4>2. ASSUME NEW i \in 1 .. Len(path) PROVE path[i] \in {new[j] : j \in 1 .. Len(new)}
        <5>1. i + 1 \in 1 .. Len(new) /\ new[i + 1] = path[i]
          BY <1>1, <2>4
        <5>2. QED
          BY <5>1
      <4>3. 1 \in 1 .. Len(new) /\ new[1] = h
        BY <1>1, <2>4
      <4>4. QED
        BY <4>1, <4>2, <4>3
    <3>2. h \notin R
      <4>1. SUFFICES ASSUME NEW i \in 1 .. Len(path), h = path[i] PROVE FALSE
        OBVIOUS
      <4>2. s.g[h] < s.g[h]
        BY <2>8, <4>1
      <4>3. QED
        BY <2>5, <4>2
    <3>3. IsFiniteSet(R)
      <4>1. R \subseteq cost.open
        BY <1>1, ComponentIsClosure DEF Searching
      <4>2. QED
        BY <4>1, OpenFinite, FS_Subset
    <3>4. Cardinality(R \union {h}) = Cardinality(R) + 1
      <4> HIDE DEF R
      <4>1. QED
        BY <3>2, <3>3, FS_AddElement
    <3>5. Cardinality(R) = Len(path)
      BY DEF Walked
    <3> HIDE DEF R
    <3>6. QED
      BY <2>4, <3>1, <3>4, <3>5
  <2>11. Walked(cost, start, goal, s, new)
    BY <2>4, <2>6, <2>7, <2>9, <2>10 DEF Walked
  <2>12. QED
    BY <1>3, <2>2, <2>4, <2>11
<1>4. QED
  BY <1>2, <1>3

LEMMA WalkStarts ==
  ASSUME NEW cost, NEW start, NEW goal, NEW d, NEW s, Searching(cost, start, goal, d, s), goal \in DOMAIN s.g
  PROVE  Walked(cost, start, goal, s, <<goal>>)
<1> DEFINE p == <<goal>>
<1> DEFINE D == DOMAIN s.g
<1>0. goal \in D
  OBVIOUS
<1>1. p \in Seq(D) /\ Len(p) = 1 /\ p[1] = goal
  <2> HIDE DEF D
  <2>1. QED
    BY <1>0, OneLong
<1>2. s.g[goal] \in Nat
  BY DEF Searching
<1> HIDE DEF p
<1>3. {p[i] : i \in 1 .. Len(p)} = {goal}
  <2>1. 1 .. Len(p) = {1}
    BY <1>1
  <2>2. QED
    BY <1>1, <2>1
<1>4. Cardinality({p[i] : i \in 1 .. Len(p)}) = Len(p)
  BY <1>1, <1>3, FS_Singleton
<1>5. 1 .. Len(p) - 1 = {} /\ \A i \in 1 .. Len(p) : i = 1
  BY <1>1
<1>6. Walked(cost, start, goal, s, p)
  BY <1>1, <1>2, <1>4, <1>5 DEF Walked
<1>7. QED
  BY <1>6 DEF p

LEMMA WalkRounds ==
  ASSUME NEW cost \in CostGrids, NEW start \in cost.open, NEW goal \in Cells, NEW d,
         NEW s, Searching(cost, start, goal, d, s), goal \in DOMAIN s.g
  PROVE  LET f == WalkBack(s.came, goal)
             N == Cardinality(DOMAIN s.came)
         IN /\ N \in Nat /\ IsFiniteSet(DOMAIN s.came)
            /\ Walked(cost, start, goal, s, f[0]) /\ Len(f[0]) = 1
            /\ \A i \in 1 .. N : i - 1 \in 0 .. N /\ f[i] = Back(s.came, f[i - 1])
<1> DEFINE N == Cardinality(DOMAIN s.came)
           X == {path \in Seq(DOMAIN s.g) : Walked(cost, start, goal, s, path)}
           first == <<goal>>
           turn == [path \in X |-> Back(s.came, path)]
           f == WalkBack(s.came, goal)
<1>1. N \in Nat /\ IsFiniteSet(DOMAIN s.came)
  <2>1. DOMAIN s.came \subseteq cost.open
    BY ComponentIsClosure DEF Searching
  <2>2. QED
    BY <2>1, OpenFinite, FS_Subset, FS_CardinalityType
<1>2. ASSUME NEW path \in X PROVE Back(s.came, path) \in X
  <2>1. Walked(cost, start, goal, s, Back(s.came, path))
    BY BackKeeps
  <2>2. QED
    BY <2>1 DEF Walked
<1>3. first \in X /\ turn \in [X -> X]
  <2>1. Walked(cost, start, goal, s, first)
    BY WalkStarts
  <2>2. first \in X
    BY <2>1 DEF Walked
  <2> HIDE DEF X, first
  <2>3. QED
    BY <1>2, <2>2
<1> HIDE DEF N, first
<1>4. PICK g : IsLoop(g, X, first, turn, N)
  <2> HIDE DEF X, turn
  <2>1. QED
    BY <1>1, <1>3, RoundsExist
<1>5. ASSUME NEW i \in 1 .. N PROVE g[i] = Back(s.came, g[i - 1])
  <2>1. i - 1 \in 0 .. N
    BY <1>1
  <2>2. g[i - 1] \in X /\ g[i] = turn[g[i - 1]]
    <3> HIDE DEF X, turn
    <3>1. QED
      BY <1>4, <2>1 DEF IsLoop
  <2> HIDE DEF X
  <2>3. QED
    BY <2>2
<1>6. /\ g = [i \in 0 .. N |-> g[i]]
      /\ \A i \in 0 .. N : g[i] = IF i = 0 THEN first ELSE Back(s.came, g[i - 1])
  <2> HIDE DEF X
  <2>1. QED
    BY <1>1, <1>4, <1>5 DEF IsLoop
<1>7. g = [i \in 0 .. N |-> IF i = 0 THEN first ELSE Back(s.came, g[i - 1])]
  <2> HIDE DEF X
  <2>1. QED
    BY <1>6
<1>8. f = CHOOSE h : h = [i \in 0 .. N |-> IF i = 0 THEN first ELSE Back(s.came, h[i - 1])]
  BY DEF WalkBack, Rounds, N, first
<1>9. f = [i \in 0 .. N |-> IF i = 0 THEN first ELSE Back(s.came, f[i - 1])]
  <2> HIDE DEF f
  <2>1. QED
    BY <1>7, <1>8
<1>10. QED
  <2> HIDE DEF f
  <2>1. f[0] = first /\ \A i \in 1 .. N : i - 1 \in 0 .. N /\ f[i] = Back(s.came, f[i - 1])
    BY <1>1, <1>9
  <2>2. Walked(cost, start, goal, s, first) /\ Len(first) = 1
    BY WalkStarts DEF first
  <2>3. QED
    BY <1>1, <2>1, <2>2 DEF N, f

\* The way back gets to the start.
LEMMA WalkEnds ==
  ASSUME NEW cost \in CostGrids, NEW start \in cost.open, NEW goal \in Cells, NEW d,
         NEW s, Searching(cost, start, goal, d, s), goal \in DOMAIN s.g
  PROVE  LET path == WalkBack(s.came, goal)[Cardinality(DOMAIN s.came)]
         IN Walked(cost, start, goal, s, path) /\ path[1] = start
<1> DEFINE N == Cardinality(DOMAIN s.came)
           f == WalkBack(s.came, goal)
           P == {i \in Nat : Walked(cost, start, goal, s, f[i]) /\ (f[i][1] = start \/ Len(f[i]) = i + 1)}
<1>1. /\ N \in Nat /\ IsFiniteSet(DOMAIN s.came)
      /\ Walked(cost, start, goal, s, f[0]) /\ Len(f[0]) = 1
      /\ \A i \in 1 .. N : i - 1 \in 0 .. N /\ f[i] = Back(s.came, f[i - 1])
  BY WalkRounds
<1> HIDE DEF f
<1>2. 0 \in P
  <2>1. Walked(cost, start, goal, s, f[0]) /\ Len(f[0]) = 0 + 1
    BY <1>1
  <2>2. QED
    BY <2>1
<1>3. ASSUME NEW i \in 1 .. N, i - 1 \in P PROVE i \in P
  <2>1. Walked(cost, start, goal, s, f[i - 1]) /\ f[i] = Back(s.came, f[i - 1]) /\ i \in Nat
        /\ (f[i - 1][1] = start \/ Len(f[i - 1]) = i)
    BY <1>1, <1>3
  <2>2. Walked(cost, start, goal, s, f[i])
    BY <2>1, BackKeeps
  <2>3. f[i][1] = start \/ Len(f[i]) = i + 1
    <3>1. CASE f[i - 1][1] = start
      BY <2>1, <3>1, BackKeeps
    <3>2. CASE f[i - 1][1] # start
      BY <2>1, <3>2, BackKeeps
    <3>3. QED
      BY <3>1, <3>2
  <2>4. QED
    BY <2>1, <2>2, <2>3
<1>4. N \in 0 .. N /\ N \in P
  <2>1. N \in 0 .. N
    BY <1>1
  <2> HIDE DEF P, N
  <2>2. QED
    BY <1>1, <1>2, <1>3, <2>1, RoundByRound
<1> DEFINE path == f[N]
<1>5. Walked(cost, start, goal, s, path) /\ (path[1] = start \/ Len(path) = N + 1)
  BY <1>4
<1> HIDE DEF path
<1>6. path[1] = start
  <2>1. SUFFICES ASSUME path[1] # start, Len(path) = N + 1 PROVE FALSE
    BY <1>5
  <2> DEFINE R == {path[i] : i \in 1 .. Len(path)}
  <2>2. R \subseteq DOMAIN s.came
    <3>1. DOMAIN s.came = DOMAIN s.g \ {start}
      BY DEF Searching
    <3>2. ASSUME NEW i \in 1 .. Len(path) PROVE path[i] \in DOMAIN s.g \ {start}
      <4>1. path[i] \in DOMAIN s.g
        <5>1. path \in Seq(DOMAIN s.g)
          BY <1>5 DEF Walked
        <5>2. QED
          BY <5>1
      <4>2. CASE i = 1
        BY <2>1, <4>1, <4>2
      <4>3. CASE i # 1
        <5>1. i - 1 \in 1 .. Len(path) - 1 /\ (i - 1) + 1 = i
          BY <1>1, <2>1, <4>3
        <5>2. path[(i - 1) + 1] # start
          BY <1>5, <5>1 DEF Walked
        <5>3. QED
          BY <4>1, <5>2
      <4>4. QED
        BY <4>2, <4>3
    <3>3. QED
      BY <3>1, <3>2
  <2>3. Cardinality(R) = N + 1
    BY <1>5, <2>1 DEF Walked
  <2> HIDE DEF R
  <2>4. Cardinality(R) <= N
    BY <1>1, <2>2, FS_Subset DEF N
  <2>5. QED
    BY <1>1, <2>3, <2>4
<1>7. QED
  BY <1>5, <1>6 DEF path, f, N

\* A path costs what its moves add up to.
LEMMA PathCostFollows ==
  ASSUME NEW cost, NEW S, NEW g \in [S -> Nat], NEW path \in Seq(S), Len(path) \in Nat \ {0}, g[path[1]] = 0,
         \A i \in 1 .. Len(path) - 1 : g[path[i + 1]] = g[path[i]] + MoveCost(cost, path[i], path[i + 1])
  PROVE  PathCost(cost, path) = g[path[Len(path)]]
<1> DEFINE L == Len(path)
           Paid(h, i) == IF i = 1 THEN 0 ELSE h[i - 1] + MoveCost(cost, path[i - 1], path[i])
           paid == CHOOSE h : h = [i \in 1 .. L |-> Paid(h, i)]
           f == [i \in 1 .. L |-> g[path[i]]]
<1>1. L \in Nat \ {0} /\ \A i \in 1 .. L : path[i] \in S
  OBVIOUS
<1> HIDE DEF L
<1>2. ASSUME NEW i \in 1 .. L, i # 1 PROVE i - 1 \in 1 .. L /\ g[path[i]] = g[path[i - 1]] + MoveCost(cost, path[i - 1], path[i])
  <2>1. i - 1 \in 1 .. Len(path) - 1 /\ (i - 1) + 1 = i
    BY <1>1, <1>2 DEF L
  <2>2. i - 1 \in 1 .. L
    BY <1>1, <1>2
  <2>3. QED
    BY <2>1, <2>2
<1>3. f = [i \in 1 .. L |-> Paid(f, i)]
  <2>1. ASSUME NEW i \in 1 .. L PROVE f[i] = Paid(f, i)
    <3>1. CASE i = 1
      BY <1>1, <3>1
    <3>2. CASE i # 1
      BY <1>2, <3>2
    <3>3. QED
      BY <3>1, <3>2
  <2>2. QED
    BY <2>1
<1>4. paid = [i \in 1 .. L |-> Paid(paid, i)]
  <2> HIDE DEF f, Paid
  <2>1. QED
    BY <1>3
<1> HIDE DEF paid
<1>5. paid[1] = 0 /\ \A i \in 1 .. L : i # 1 => paid[i] = paid[i - 1] + MoveCost(cost, path[i - 1], path[i])
  BY <1>1, <1>4
<1> DEFINE P == {i \in Nat : paid[i + 1] = g[path[i + 1]]}
<1>6. 0 \in P
  BY <1>5
<1>7. ASSUME NEW i \in 1 .. L - 1, i - 1 \in P PROVE i \in P
  <2>1. i + 1 \in 1 .. L /\ i + 1 # 1 /\ (i + 1) - 1 = i /\ i \in Nat /\ (i - 1) + 1 = i
    BY <1>1
  <2>2. paid[i + 1] = paid[i] + MoveCost(cost, path[i], path[i + 1])
    BY <1>5, <2>1
  <2>3. paid[i] = g[path[i]]
    BY <1>7, <2>1
  <2>4. g[path[i + 1]] = g[path[i]] + MoveCost(cost, path[i], path[i + 1])
    BY <1>2, <2>1
  <2>5. QED
    BY <2>1, <2>2, <2>3, <2>4
<1>8. L - 1 \in P
  <2>1. L - 1 \in Nat /\ L - 1 \in 0 .. L - 1
    BY <1>1
  <2> HIDE DEF P
  <2>2. QED
    BY <1>6, <1>7, <2>1, RoundByRound
<1>9. paid[L] = g[path[L]]
  <2>1. (L - 1) + 1 = L
    BY <1>1
  <2>2. QED
    BY <1>8, <2>1
<1>10. PathCost(cost, path) = paid[L]
  BY DEF PathCost, paid, L
<1>11. QED
  BY <1>9, <1>10 DEF L

\* A route from start to goal, cell by cell.
Route(cost, start, goal, path) ==
  /\ path \in Seq(cost.open) /\ Len(path) \in Nat \ {0}
  /\ path[1] = start /\ path[Len(path)] = goal
  /\ \A i \in 1 .. Len(path) - 1 : path[i + 1] \in Neighbors8(cost, path[i])

\* A* finds a route to the cells of the start's component, and pays what they cost.
LEMMA AstarRoutes ==
  ASSUME NEW cost \in CostGrids, NEW start \in cost.open, NEW goal \in Cells, NEW d, Measures(d, cost, start)
  PROVE  LET path == Astar(cost, start, goal)
         IN /\ path # <<>> <=> goal \in Component(cost, start)
            /\ path # <<>> => Route(cost, start, goal, path) /\ PathCost(cost, path) = d[goal]
<1> DEFINE end == Searched(cost, start, goal)[Cardinality(cost.open)]
           path == WalkBack(end.came, goal)[Cardinality(DOMAIN end.came)]
<1>1. /\ Searching(cost, start, goal, d, end)
      /\ end.heap = {} => goal \notin Component(cost, start)
      /\ end.heap # {} => goal \in DOMAIN end.g /\ goal \in Component(cost, start) /\ end.g[goal] = d[goal]
  BY SearchEnds
<1>2. Component(cost, start) \subseteq cost.open
  BY ComponentIsClosure
<1>3. Astar(cost, start, goal) = IF goal \notin cost.open \/ end.heap = {} THEN <<>> ELSE path
  BY DEF Astar, Passable
<1> HIDE DEF end
<1>4. CASE end.heap = {}
  BY <1>1, <1>3, <1>4
<1>5. CASE end.heap # {}
  <2>1. goal \in DOMAIN end.g /\ goal \in Component(cost, start) /\ end.g[goal] = d[goal]
    BY <1>1, <1>5
  <2>2. Astar(cost, start, goal) = path
    BY <1>2, <1>3, <1>5, <2>1
  <2>3. Walked(cost, start, goal, end, path) /\ path[1] = start
    BY <1>1, <2>1, WalkEnds
  <2> HIDE DEF path
  <2>4. /\ end.g \in [DOMAIN end.g -> Nat] /\ end.g[start] = 0 /\ DOMAIN end.g \subseteq cost.open
    BY <1>1, <1>2 DEF Searching
  <2>5. path \in Seq(DOMAIN end.g) /\ Len(path) \in Nat \ {0} /\ path[Len(path)] = goal
    BY <2>3 DEF Walked
  <2>6. path \in Seq(cost.open) /\ path # <<>>
    <3> DEFINE D == DOMAIN end.g
    <3>1. path \in Seq(D) /\ D \subseteq cost.open
      BY <2>4, <2>5
    <3> HIDE DEF D
    <3>2. QED
      BY <2>5, <3>1
  <2>7. Route(cost, start, goal, path)
    BY <2>3, <2>5, <2>6 DEF Route, Walked
  <2>8. PathCost(cost, path) = d[goal]
    <3> DEFINE D == DOMAIN end.g
               g == end.g
    <3>1. g \in [D -> Nat] /\ path \in Seq(D) /\ Len(path) \in Nat \ {0} /\ g[path[1]] = 0
      BY <2>3, <2>4, <2>5
    <3>2. \A i \in 1 .. Len(path) - 1 : g[path[i + 1]] = g[path[i]] + MoveCost(cost, path[i], path[i + 1])
      BY <2>3 DEF Walked
    <3>3. g[path[Len(path)]] = d[goal]
      BY <2>1, <2>5
    <3> HIDE DEF D, g
    <3>4. QED
      BY <3>1, <3>2, <3>3, PathCostFollows
  <2>9. QED
    BY <2>1, <2>2, <2>6, <2>7, <2>8
<1>6. QED
  BY <1>4, <1>5

-----------------------------------------------------------------------------
(* Lines and smoothing *)

LEMMA LineRounds ==
  ASSUME NEW a \in Int \X Int, NEW b \in Int \X Int, NEW d \in Nat \X Nat
  PROVE  LET f == Line(a, b, d)
             N == d[1] + d[2]
         IN /\ f[0] = [at |-> a, err |-> d[1] - d[2], cells |-> {a}]
            /\ \A i \in 1 .. N : f[i] = LineTurn(a, b, d, f[i - 1])
<1> DEFINE N == d[1] + d[2]
           X == [at : Int \X Int, err : Int, cells : SUBSET (Int \X Int)]
           first == [at |-> a, err |-> d[1] - d[2], cells |-> {a}]
           turn == [s \in X |-> LineTurn(a, b, d, s)]
           f == Line(a, b, d)
<1>1. N \in Nat /\ d[1] \in Nat /\ d[2] \in Nat
  OBVIOUS
<1>2. ASSUME NEW s \in X PROVE LineTurn(a, b, d, s) \in X
  <2> DEFINE next == <<IF 2 * s.err > -d[2] THEN s.at[1] + (IF a[1] < b[1] THEN 1 ELSE -1) ELSE s.at[1],
                       IF 2 * s.err < d[1] THEN s.at[2] + (IF a[2] < b[2] THEN 1 ELSE -1) ELSE s.at[2]>>
             err == s.err - (IF 2 * s.err > -d[2] THEN d[2] ELSE 0) + (IF 2 * s.err < d[1] THEN d[1] ELSE 0)
  <2>1. s.at[1] \in Int /\ s.at[2] \in Int /\ s.err \in Int /\ s.cells \subseteq Int \X Int
    OBVIOUS
  <2>2. next \in Int \X Int
    BY <2>1
  <2>3. err \in Int
    BY <1>1, <2>1
  <2>4. LineTurn(a, b, d, s) = IF s.at = b THEN s ELSE [at |-> next, err |-> err, cells |-> s.cells \union {next}]
    BY DEF LineTurn
  <2> HIDE DEF next, err
  <2>5. [at |-> next, err |-> err, cells |-> s.cells \union {next}] \in X
    BY <2>1, <2>2, <2>3
  <2> HIDE DEF X
  <2>6. QED
    BY <2>4, <2>5
<1>3. first \in X /\ turn \in [X -> X]
  <2>1. first \in X
    BY <1>1
  <2> HIDE DEF X
  <2>2. QED
    BY <1>2, <2>1
<1> HIDE DEF N, first
<1>4. PICK g : IsLoop(g, X, first, turn, N)
  <2> HIDE DEF X, turn
  <2>1. QED
    BY <1>1, <1>3, RoundsExist
<1>5. ASSUME NEW i \in 1 .. N PROVE g[i] = LineTurn(a, b, d, g[i - 1])
  <2>1. i - 1 \in 0 .. N
    BY <1>1
  <2>2. g[i - 1] \in X /\ g[i] = turn[g[i - 1]]
    <3> HIDE DEF X, turn
    <3>1. QED
      BY <1>4, <2>1 DEF IsLoop
  <2> HIDE DEF X
  <2>3. QED
    BY <2>2
<1>6. /\ g = [i \in 0 .. N |-> g[i]]
      /\ \A i \in 0 .. N : g[i] = IF i = 0 THEN first ELSE LineTurn(a, b, d, g[i - 1])
  <2> HIDE DEF X
  <2>1. QED
    BY <1>1, <1>4, <1>5 DEF IsLoop
<1>7. g = [i \in 0 .. N |-> IF i = 0 THEN first ELSE LineTurn(a, b, d, g[i - 1])]
  <2> HIDE DEF X
  <2>1. QED
    BY <1>6
<1>8. f = CHOOSE h : h = [i \in 0 .. N |-> IF i = 0 THEN first ELSE LineTurn(a, b, d, h[i - 1])]
  BY DEF Line, Rounds, N, first
<1>9. f = [i \in 0 .. N |-> IF i = 0 THEN first ELSE LineTurn(a, b, d, f[i - 1])]
  <2> HIDE DEF f
  <2>1. QED
    BY <1>7, <1>8
<1>10. QED
  <2> HIDE DEF f
  <2>1. f[0] = first /\ \A i \in 1 .. N : f[i] = LineTurn(a, b, d, f[i - 1])
    BY <1>1, <1>9
  <2>2. QED
    BY <2>1 DEF N, f, first

\* The line between neighbours has no cell but them.
LEMMA NeighborLine ==
  ASSUME NEW a \in Int \X Int, NEW b \in Around(a), a # b
  PROVE  SegmentCells(a, b) = {a, b}
<1> DEFINE d == Offsets(a, b)
           f == Line(a, b, d)
<1>1. /\ a[1] \in Int /\ a[2] \in Int /\ a = <<a[1], a[2]>> /\ b \in Int \X Int /\ b = <<b[1], b[2]>>
      /\ b[1] \in a[1] - 1 .. a[1] + 1 /\ b[2] \in a[2] - 1 .. a[2] + 1 /\ b[1] \in Int /\ b[2] \in Int
  BY DEF Around
<1>2. a[1] # b[1] \/ a[2] # b[2]
  BY <1>1
<1>3. /\ d[1] = (IF a[1] = b[1] THEN 0 ELSE 1) /\ d[2] = (IF a[2] = b[2] THEN 0 ELSE 1)
      /\ d \in Nat \X Nat
  <2>1. Abs(b[1] - a[1]) = (IF a[1] = b[1] THEN 0 ELSE 1)
    BY <1>1 DEF Abs
  <2>2. Abs(b[2] - a[2]) = (IF a[2] = b[2] THEN 0 ELSE 1)
    BY <1>1 DEF Abs
  <2>3. QED
    BY <2>1, <2>2 DEF Offsets
<1> HIDE DEF d
<1> DEFINE N == d[1] + d[2]
<1>4. /\ f[0] = [at |-> a, err |-> d[1] - d[2], cells |-> {a}]
      /\ \A i \in 1 .. N : f[i] = LineTurn(a, b, d, f[i - 1])
  BY <1>1, <1>3, LineRounds
<1> HIDE DEF f
<1>5. N = 1 \/ N = 2
  BY <1>2, <1>3
<1>6. f[1].at = b /\ f[1].cells = {a, b}
  <2> DEFINE s == f[0]
             next == <<IF 2 * s.err > -d[2] THEN s.at[1] + (IF a[1] < b[1] THEN 1 ELSE -1) ELSE s.at[1],
                       IF 2 * s.err < d[1] THEN s.at[2] + (IF a[2] < b[2] THEN 1 ELSE -1) ELSE s.at[2]>>
  <2>1. f[1] = LineTurn(a, b, d, s)
    <3>1. 1 \in 1 .. N /\ 1 - 1 = 0
      BY <1>5
    <3> HIDE DEF N
    <3>2. f[1] = LineTurn(a, b, d, f[1 - 1])
      BY <1>4, <3>1
    <3>3. QED
      BY <3>1, <3>2
  <2>2. s.at = a /\ s.err = d[1] - d[2] /\ s.cells = {a}
    BY <1>4
  <2> HIDE DEF s
  <2>3. LineTurn(a, b, d, s).at = next /\ LineTurn(a, b, d, s).cells = {a} \union {next}
    BY <2>2 DEF LineTurn
  <2>4. next[1] = b[1] /\ next[2] = b[2]
    <3>1. 2 * s.err > -d[2] <=> a[1] # b[1]
      BY <1>2, <1>3, <2>2
    <3>2. 2 * s.err < d[1] <=> a[2] # b[2]
      BY <1>2, <1>3, <2>2
    <3>3. a[1] # b[1] => b[1] = a[1] + (IF a[1] < b[1] THEN 1 ELSE -1)
      BY <1>1
    <3>4. a[2] # b[2] => b[2] = a[2] + (IF a[2] < b[2] THEN 1 ELSE -1)
      BY <1>1
    <3>5. QED
      BY <2>2, <3>1, <3>2, <3>3, <3>4
  <2>5. next = <<next[1], next[2]>>
    OBVIOUS
  <2>6. next = b
    BY <1>1, <2>4, <2>5
  <2>7. QED
    BY <2>1, <2>3, <2>6
<1>7. f[N].cells = {a, b}
  <2>1. CASE N = 1
    BY <1>6, <2>1
  <2>2. CASE N = 2
    <3>1. 2 \in 1 .. N /\ 2 - 1 = 1
      BY <2>2
    <3> HIDE DEF N
    <3>2. f[2] = LineTurn(a, b, d, f[2 - 1])
      BY <1>4, <3>1
    <3>3. f[2] = f[1]
      BY <1>6, <3>1, <3>2 DEF LineTurn
    <3>4. QED
      BY <1>6, <2>2, <3>3
  <2>3. QED
    BY <1>5, <2>1, <2>2
<1>8. QED
  BY <1>7 DEF SegmentCells, d, f

LEMMA NeighborClear ==
  ASSUME NEW cost \in CostGrids, NEW a \in cost.open, NEW b \in Neighbors8(cost, a)
  PROVE  SegmentCells(a, b) \subseteq cost.open
<1>1. a \in Int \X Int /\ b \in Around(a) /\ a # b /\ b \in cost.open
  BY OpenFinite, CellTyped DEF Neighbors8, Passable
<1>2. QED
  BY <1>1, NeighborLine

\* What pulling a route tight keeps.
Pulling(cost, path, s) ==
  /\ s \in [kept : Seq(cost.open), at : 1 .. Len(path)]
  /\ Len(s.kept) \in Nat \ {0} /\ s.kept[1] = path[1] /\ s.kept[Len(s.kept)] = path[s.at]
  /\ \A i \in 1 .. Len(s.kept) - 1 : SegmentCells(s.kept[i], s.kept[i + 1]) \subseteq cost.open

LEMMA SmoothTurnKeeps ==
  ASSUME NEW cost \in CostGrids, NEW start, NEW goal, NEW path, Route(cost, start, goal, path),
         NEW s, Pulling(cost, path, s)
  PROVE  /\ Pulling(cost, path, SmoothTurn(cost, path, s))
         /\ SmoothTurn(cost, path, s).at = Len(path) \/ SmoothTurn(cost, path, s).at > s.at
<1> DEFINE L == Len(path)
           ahead == {j \in s.at + 1 .. L : j = s.at + 1 \/ LineOfSight(cost, path[s.at], path[j])}
           j == Max(ahead)
           kept == Append(s.kept, path[j])
<1>1. /\ L \in Nat \ {0} /\ path \in Seq(cost.open)
      /\ \A i \in 1 .. L - 1 : path[i + 1] \in Neighbors8(cost, path[i])
  BY DEF Route
<1>2. s.at \in 1 .. L /\ s.kept \in Seq(cost.open) /\ s = [kept |-> s.kept, at |-> s.at]
  BY DEF Pulling
<1>3. \A i \in 1 .. L : path[i] \in cost.open
  BY <1>1
<1>4. CASE s.at = L
  BY <1>4 DEF SmoothTurn
<1>5. CASE s.at # L
  <2>0. SmoothTurn(cost, path, s) = [kept |-> kept, at |-> j]
    BY <1>5 DEF SmoothTurn
  <2>1. s.at + 1 \in ahead /\ ahead \subseteq s.at + 1 .. L
    BY <1>1, <1>2, <1>5
  <2>2. \A i \in ahead : i = s.at + 1 \/ LineOfSight(cost, path[s.at], path[i])
    OBVIOUS
  <2> HIDE DEF ahead, L
  <2>3. j \in ahead
    <3> DEFINE M == {L - i : i \in ahead}
    <3>1. M \subseteq Nat /\ M # {}
      BY <1>1, <1>2, <2>1
    <3>2. Min(M) \in M /\ \A n \in M : Min(M) <= n
      <4> HIDE DEF M
      <4>1. QED
        BY <3>1, NatMin
    <3>3. PICK i \in ahead : Min(M) = L - i
      BY <3>2
    <3>4. ASSUME NEW k \in ahead PROVE i >= k
      <4>1. L - i <= L - k
        BY <3>2, <3>3
      <4>2. i \in Int /\ k \in Int /\ L \in Int
        BY <1>1, <1>2, <2>1
      <4>3. QED
        BY <4>1, <4>2
    <3>5. \E x \in ahead : \A y \in ahead : x >= y
      BY <3>4
    <3>6. QED
      BY <3>5 DEF Max
  <2> HIDE DEF j
  <2>4. j \in s.at + 1 .. L /\ j \in 1 .. L /\ j > s.at
    BY <1>1, <1>2, <2>1, <2>3
  <2>5. SegmentCells(path[s.at], path[j]) \subseteq cost.open
    <3>1. CASE j = s.at + 1
      <4>1. s.at \in 1 .. L - 1
        BY <1>1, <1>2, <2>4, <3>1
      <4>2. path[s.at] \in cost.open /\ path[s.at + 1] \in Neighbors8(cost, path[s.at])
        BY <1>1, <1>2, <1>3, <4>1
      <4>3. QED
        BY <3>1, <4>2, NeighborClear
    <3>2. CASE j # s.at + 1
      <4>1. LineOfSight(cost, path[s.at], path[j])
        BY <2>2, <2>3, <3>2
      <4>2. QED
        BY <4>1 DEF LineOfSight, Passable
    <3>3. QED
      BY <3>1, <3>2
  <2> DEFINE e == path[j]
  <2>6. e \in cost.open
    BY <1>3, <2>4
  <2>7. /\ Len(s.kept) \in Nat \ {0} /\ s.kept[1] = path[1] /\ s.kept[Len(s.kept)] = path[s.at]
        /\ \A i \in 1 .. Len(s.kept) - 1 : SegmentCells(s.kept[i], s.kept[i + 1]) \subseteq cost.open
    BY DEF Pulling
  <2> DEFINE old == s.kept
  <2>8. old \in Seq(cost.open) /\ kept = Append(old, e)
    BY <1>2
  <2> HIDE DEF e, kept, old
  <2>9. /\ kept \in Seq(cost.open) /\ Len(kept) = Len(old) + 1 /\ kept[Len(old) + 1] = e
        /\ \A i \in 1 .. Len(old) : kept[i] = old[i]
    BY <2>6, <2>8
  <2>10. /\ Len(old) \in Nat \ {0} /\ old[1] = path[1] /\ old[Len(old)] = path[s.at]
         /\ \A i \in 1 .. Len(old) - 1 : SegmentCells(old[i], old[i + 1]) \subseteq cost.open
    BY <2>7 DEF old
  <2>11. ASSUME NEW i \in 1 .. Len(kept) - 1 PROVE SegmentCells(kept[i], kept[i + 1]) \subseteq cost.open
    <3>1. CASE i = Len(old)
      <4>1. kept[i] = path[s.at] /\ kept[i + 1] = path[j]
        BY <2>9, <2>10, <3>1 DEF e
      <4>2. QED
        BY <2>5, <4>1
    <3>2. CASE i # Len(old)
      <4>1. i \in 1 .. Len(old) - 1 /\ i \in 1 .. Len(old) /\ i + 1 \in 1 .. Len(old)
        BY <2>9, <2>10, <3>2
      <4>2. kept[i] = old[i] /\ kept[i + 1] = old[i + 1]
        BY <2>9, <4>1
      <4>3. QED
        BY <2>10, <4>1, <4>2
    <3>3. QED
      BY <3>1, <3>2
  <2>12. Len(kept) \in Nat \ {0} /\ kept[1] = path[1] /\ kept[Len(kept)] = path[j]
    <3>1. 1 \in 1 .. Len(old)
      BY <2>10
    <3>2. QED
      BY <2>9, <2>10, <3>1 DEF e
  <2> DEFINE t == [kept |-> kept, at |-> j]
  <2>13. t.kept = kept /\ t.at = j /\ t \in [kept : Seq(cost.open), at : 1 .. Len(path)]
    BY <2>4, <2>9 DEF L
  <2> HIDE DEF t
  <2>14. Pulling(cost, path, t)
    BY <2>11, <2>12, <2>13 DEF Pulling
  <2>15. QED
    BY <2>0, <2>4, <2>13, <2>14 DEF t
<1>6. QED
  BY <1>4, <1>5

LEMMA PullStarts ==
  ASSUME NEW cost \in CostGrids, NEW start, NEW goal, NEW path, Route(cost, start, goal, path)
  PROVE  Pulling(cost, path, [kept |-> <<path[1]>>, at |-> 1])
<1> DEFINE kept == <<path[1]>>
           h == path[1]
           s == [kept |-> kept, at |-> 1]
<1>0. path \in Seq(cost.open) /\ Len(path) \in Nat \ {0}
  BY DEF Route
<1>1. h \in cost.open
  BY <1>0
<1>2. kept \in Seq(cost.open) /\ Len(kept) = 1 /\ kept[1] = h
  <2> HIDE DEF h
  <2>1. <<h>> \in Seq(cost.open) /\ Len(<<h>>) = 1 /\ <<h>>[1] = h
    BY <1>1, OneLong
  <2>2. QED
    BY <2>1 DEF h
<1> HIDE DEF kept
<1>3. s.kept = kept /\ s.at = 1 /\ s \in [kept : Seq(cost.open), at : 1 .. Len(path)]
  BY <1>0, <1>2
<1> HIDE DEF s
<1>4. 1 .. Len(kept) - 1 = {}
  BY <1>2
<1>5. Pulling(cost, path, s)
  <2>1. Len(s.kept) = 1 /\ s.kept[1] = path[1] /\ s.kept[Len(s.kept)] = path[s.at]
    BY <1>2, <1>3
  <2>2. \A i \in 1 .. Len(s.kept) - 1 : SegmentCells(s.kept[i], s.kept[i + 1]) \subseteq cost.open
    BY <1>3, <1>4
  <2> HIDE DEF h
  <2>3. QED
    BY <1>3, <2>1, <2>2 DEF Pulling
<1>6. QED
  BY <1>5 DEF s, kept

LEMMA PulledRounds ==
  ASSUME NEW cost \in CostGrids, NEW start, NEW goal, NEW path, Route(cost, start, goal, path)
  PROVE  LET f == Pulled(cost, path)
             N == Len(path)
         IN /\ Pulling(cost, path, f[0]) /\ f[0].at = 1
            /\ \A i \in 1 .. N : i - 1 \in 0 .. N /\ f[i] = SmoothTurn(cost, path, f[i - 1])
<1> DEFINE N == Len(path)
           X == {s \in [kept : Seq(cost.open), at : 1 .. Len(path)] : Pulling(cost, path, s)}
           first == [kept |-> <<path[1]>>, at |-> 1]
           turn == [s \in X |-> SmoothTurn(cost, path, s)]
           f == Pulled(cost, path)
<1>1. N \in Nat
  BY DEF Route
<1>2. ASSUME NEW s \in X PROVE SmoothTurn(cost, path, s) \in X
  <2>1. Pulling(cost, path, SmoothTurn(cost, path, s))
    BY SmoothTurnKeeps
  <2>2. QED
    BY <2>1 DEF Pulling
<1>0. Pulling(cost, path, first) /\ first.at = 1
  BY PullStarts
<1>3. first \in X /\ turn \in [X -> X]
  <2>1. first \in X
    BY <1>0 DEF Pulling
  <2> HIDE DEF X, first
  <2>2. QED
    BY <1>2, <2>1
<1> HIDE DEF N, first
<1>4. PICK g : IsLoop(g, X, first, turn, N)
  <2> HIDE DEF X, turn
  <2>1. QED
    BY <1>1, <1>3, RoundsExist
<1>5. ASSUME NEW i \in 1 .. N PROVE g[i] = SmoothTurn(cost, path, g[i - 1])
  <2>1. i - 1 \in 0 .. N
    BY <1>1
  <2>2. g[i - 1] \in X /\ g[i] = turn[g[i - 1]]
    <3> HIDE DEF X, turn
    <3>1. QED
      BY <1>4, <2>1 DEF IsLoop
  <2> HIDE DEF X
  <2>3. QED
    BY <2>2
<1>6. /\ g = [i \in 0 .. N |-> g[i]]
      /\ \A i \in 0 .. N : g[i] = IF i = 0 THEN first ELSE SmoothTurn(cost, path, g[i - 1])
  <2> HIDE DEF X
  <2>1. QED
    BY <1>1, <1>4, <1>5 DEF IsLoop
<1>7. g = [i \in 0 .. N |-> IF i = 0 THEN first ELSE SmoothTurn(cost, path, g[i - 1])]
  <2> HIDE DEF X
  <2>1. QED
    BY <1>6
<1>8. f = CHOOSE h : h = [i \in 0 .. N |-> IF i = 0 THEN first ELSE SmoothTurn(cost, path, h[i - 1])]
  BY DEF Pulled, Rounds, N, first
<1>9. f = [i \in 0 .. N |-> IF i = 0 THEN first ELSE SmoothTurn(cost, path, f[i - 1])]
  <2> HIDE DEF f
  <2>1. QED
    BY <1>7, <1>8
<1>10. QED
  <2> HIDE DEF f
  <2>1. f[0] = first /\ \A i \in 1 .. N : i - 1 \in 0 .. N /\ f[i] = SmoothTurn(cost, path, f[i - 1])
    BY <1>1, <1>9
  <2>2. QED
    BY <1>0, <2>1 DEF N, f

\* A smoothed route still leads from start to goal, over cells that may be entered.
LEMMA SmoothRoutes ==
  ASSUME NEW cost \in CostGrids, NEW start, NEW goal, NEW path, Route(cost, start, goal, path)
  PROVE  LET smooth == SmoothPath(cost, path)
         IN /\ smooth \in Seq(cost.open) /\ smooth # <<>>
            /\ smooth[1] = start /\ smooth[Len(smooth)] = goal
            /\ RouteCells(smooth) \subseteq cost.open
<1> DEFINE smooth == SmoothPath(cost, path)
           N == Len(path)
           f == Pulled(cost, path)
<1>1. /\ path \in Seq(cost.open) /\ N \in Nat \ {0} /\ path[1] = start /\ path[N] = goal
      /\ \A i \in 1 .. N - 1 : path[i + 1] \in Neighbors8(cost, path[i])
  BY DEF Route
<1>2. /\ smooth \in Seq(cost.open) /\ Len(smooth) \in Nat \ {0}
      /\ smooth[1] = start /\ smooth[Len(smooth)] = goal
      /\ \A i \in 1 .. Len(smooth) - 1 : SegmentCells(smooth[i], smooth[i + 1]) \subseteq cost.open
  <2>1. CASE N <= 2
    <3>1. smooth = path
      BY <2>1 DEF SmoothPath
    <3>2. ASSUME NEW i \in 1 .. N - 1 PROVE SegmentCells(path[i], path[i + 1]) \subseteq cost.open
      <4>1. i \in 1 .. Len(path)
        BY <1>1
      <4>2. path[i] \in cost.open /\ path[i + 1] \in Neighbors8(cost, path[i])
        BY <1>1, <4>1
      <4>3. QED
        BY <4>2, NeighborClear
    <3> HIDE DEF smooth
    <3>3. QED
      BY <1>1, <3>1, <3>2
  <2>2. CASE ~(N <= 2)
    <3>1. smooth = f[N].kept
      BY <2>2 DEF SmoothPath
    <3>2. /\ Pulling(cost, path, f[0]) /\ f[0].at = 1
          /\ \A i \in 1 .. N : i - 1 \in 0 .. N /\ f[i] = SmoothTurn(cost, path, f[i - 1])
      BY PulledRounds
    <3> HIDE DEF f
    <3> DEFINE P == {i \in Nat : Pulling(cost, path, f[i]) /\ (f[i].at = N \/ f[i].at >= i + 1)}
    <3>3. 0 \in P
      BY <3>2
    <3>4. ASSUME NEW i \in 1 .. N, i - 1 \in P PROVE i \in P
      <4>1. Pulling(cost, path, f[i - 1]) /\ (f[i - 1].at = N \/ f[i - 1].at >= i) /\ i \in Nat
            /\ f[i] = SmoothTurn(cost, path, f[i - 1])
        BY <1>1, <3>2, <3>4
      <4>2. Pulling(cost, path, f[i]) /\ (f[i].at = N \/ f[i].at > f[i - 1].at)
        BY <4>1, SmoothTurnKeeps
      <4>3. f[i].at \in 1 .. N /\ f[i - 1].at \in 1 .. N
        BY <4>1, <4>2 DEF Pulling
      <4> HIDE DEF N
      <4>4. f[i].at = N \/ f[i].at >= i + 1
        BY <1>1, <4>1, <4>2, <4>3
      <4>5. QED
        BY <4>1, <4>2, <4>4
    <3>5. N \in 0 .. N /\ N \in P
      <4>1. N \in 0 .. N
        BY <1>1
      <4> HIDE DEF P, N
      <4>2. QED
        BY <1>1, <3>3, <3>4, <4>1, RoundByRound
    <3>6. Pulling(cost, path, f[N]) /\ f[N].at = N
      <4>1. Pulling(cost, path, f[N]) /\ (f[N].at = N \/ f[N].at >= N + 1)
        BY <3>5
      <4>2. f[N].at \in 1 .. N
        BY <4>1 DEF Pulling
      <4> HIDE DEF N
      <4>3. QED
        BY <1>1, <4>1, <4>2
    <3> HIDE DEF smooth, N
    <3>7. QED
      BY <1>1, <3>1, <3>6 DEF Pulling
  <2>3. QED
    BY <2>1, <2>2
<1> HIDE DEF smooth
<1>3. smooth # <<>> /\ smooth[1] \in cost.open
  BY <1>2
<1>4. RouteCells(smooth) \subseteq cost.open
  BY <1>2, <1>3 DEF RouteCells
<1>5. QED
  BY <1>2, <1>3, <1>4 DEF smooth

\* The search is sound whatever the grid.
LEMMA RoutesSound ==
  ASSUME NEW cost \in CostGrids, NEW start, NEW goal \in Cells
  PROVE  RouteIsSound(cost, start, goal)
<1>1. CASE start \notin cost.open
  BY <1>1, ComponentOfBlocked DEF RouteIsSound, Astar, Passable
<1>2. CASE start \in cost.open
  <2>1. PICK d : Measures(d, cost, start)
    BY <1>2, MeasureExists
  <2> DEFINE path == Astar(cost, start, goal)
  <2>2. /\ path # <<>> <=> goal \in Component(cost, start)
        /\ path # <<>> => Route(cost, start, goal, path)
    BY <1>2, <2>1, AstarRoutes
  <2> HIDE DEF path
  <2>3. path # <<>> => /\ path[1] = start /\ path[Len(path)] = goal
                       /\ \A i \in 1 .. Len(path) - 1 : path[i + 1] \in Neighbors8(cost, path[i])
    BY <2>2 DEF Route
  <2>4. path # <<>> => LET smooth == SmoothPath(cost, path)
                       IN /\ smooth \in Seq(cost.open) /\ smooth # <<>>
                          /\ smooth[1] = start /\ smooth[Len(smooth)] = goal
                          /\ RouteCells(smooth) \subseteq cost.open
    BY <2>2, SmoothRoutes
  <2>5. QED
    BY <2>2, <2>3, <2>4 DEF RouteIsSound, path
<1>3. QED
  BY <1>1, <1>2

-----------------------------------------------------------------------------
(* The relaxation finds the costs *)

\* No cost found is less than what the cell costs.
Relaxing(cost, start, d, dist) ==
  /\ DOMAIN dist \subseteq Component(cost, start) /\ start \in DOMAIN dist
  /\ dist \in [DOMAIN dist -> Nat] /\ dist[start] = 0
  /\ \A c \in DOMAIN dist : d[c] <= dist[c]

Costed(d, dist) == {c \in DOMAIN dist : dist[c] = d[c]}

LEMMA RelaxedKeeps ==
  ASSUME NEW cost \in CostGrids, NEW start \in cost.open, NEW d, Measures(d, cost, start),
         NEW dist, Relaxing(cost, start, d, dist)
  PROVE  /\ Relaxing(cost, start, d, Relaxed(cost, dist))
         /\ Costed(d, dist) \subseteq Costed(d, Relaxed(cost, dist))
         /\ Costed(d, dist) # Component(cost, start) => Costed(d, Relaxed(cost, dist)) # Costed(d, dist)
<1> DEFINE comp == Component(cost, start)
           From(n) == {m \in Around(n) \intersect DOMAIN dist : n \in Neighbors8(cost, m)}
           To(n) == {dist[c] + MoveCost(cost, c, n) : c \in From(n)}
           known == DOMAIN dist \union UNION {Neighbors8(cost, c) : c \in DOMAIN dist}
           Ways(n) == To(n) \union (IF n \in DOMAIN dist THEN {dist[n]} ELSE {})
           next == [n \in known |-> Min(Ways(n))]
<1>1. Relaxed(cost, dist) = next
  BY DEF Relaxed
<1>2. comp \subseteq cost.open /\ \A c \in comp : Neighbors8(cost, c) \subseteq comp
  BY ComponentIsClosure
<1>3. /\ DOMAIN dist \subseteq comp /\ start \in DOMAIN dist /\ dist[start] = 0
      /\ \A c \in DOMAIN dist : dist[c] \in Nat /\ d[c] <= dist[c]
      /\ \A c \in comp : d[c] \in Nat
      /\ \A c \in comp : \A n \in Neighbors8(cost, c) : d[n] <= d[c] + MoveCost(cost, c, n)
      /\ d[start] = 0
  BY DEF Relaxing, Measures
<1>4. known \subseteq comp /\ DOMAIN dist \subseteq known /\ start \in known
  BY <1>2, <1>3
<1>5. ASSUME NEW n \in known
      PROVE  Ways(n) \subseteq Nat /\ Ways(n) # {} /\ \A k \in Ways(n) : d[n] <= k
  <2>1. ASSUME NEW c \in From(n)
        PROVE  dist[c] + MoveCost(cost, c, n) \in Nat /\ d[n] <= dist[c] + MoveCost(cost, c, n)
    <3>1. c \in DOMAIN dist /\ c \in comp /\ n \in Neighbors8(cost, c) /\ n \in comp
      BY <1>3, <1>4
    <3>2. dist[c] \in Nat /\ d[c] \in Nat /\ d[c] <= dist[c] /\ d[n] \in Nat /\ MoveCost(cost, c, n) \in Nat
      BY <1>3, <3>1, MoveCosts
    <3>3. d[n] <= d[c] + MoveCost(cost, c, n)
      BY <1>3, <3>1
    <3> HIDE DEF From
    <3>4. QED
      BY <3>2, <3>3
  <2>2. Ways(n) # {}
    <3>1. CASE n \in DOMAIN dist
      BY <3>1
    <3>2. CASE n \notin DOMAIN dist
      <4>1. PICK c \in DOMAIN dist : n \in Neighbors8(cost, c)
        BY <3>2
      <4>2. c \in Neighbors8(cost, n)
        BY <1>2, <1>3, <4>1, NeighborsMutual
      <4>3. c \in From(n)
        BY <4>1, <4>2 DEF Neighbors8
      <4> HIDE DEF From
      <4>4. QED
        BY <4>3
    <3>3. QED
      BY <3>1, <3>2
  <2> HIDE DEF From
  <2>3. \A k \in Ways(n) : k \in Nat /\ d[n] <= k
    BY <1>3, <2>1
  <2> HIDE DEF Ways
  <2>4. QED
    BY <2>2, <2>3
<1>6. ASSUME NEW n \in known
      PROVE next[n] \in Nat /\ d[n] <= next[n] /\ \A k \in Ways(n) : next[n] <= k
  <2>1. next[n] = Min(Ways(n))
    OBVIOUS
  <2> HIDE DEF Ways, next
  <2>2. Min(Ways(n)) \in Ways(n) /\ \A k \in Ways(n) : Min(Ways(n)) <= k
    BY <1>5, NatMin
  <2>3. QED
    BY <1>5, <2>1, <2>2
<1>7. DOMAIN next = known /\ next \in [known -> Nat]
  <2>1. next = [n \in known |-> next[n]] /\ DOMAIN next = known
    OBVIOUS
  <2> HIDE DEF next
  <2>2. QED
    BY <1>6, <2>1
<1>8. \A n \in DOMAIN dist : n \in known /\ dist[n] \in Ways(n)
  BY <1>4
<1>9. \A c \in DOMAIN dist : \A n \in Neighbors8(cost, c) : n \in known /\ dist[c] + MoveCost(cost, c, n) \in Ways(n)
  <2>1. ASSUME NEW c \in DOMAIN dist, NEW n \in Neighbors8(cost, c)
        PROVE  n \in known /\ dist[c] + MoveCost(cost, c, n) \in Ways(n)
    <3>1. c \in Neighbors8(cost, n)
      BY <1>2, <1>3, NeighborsMutual
    <3>2. c \in From(n)
      BY <3>1 DEF Neighbors8
    <3> HIDE DEF From
    <3>3. QED
      BY <3>2
  <2>2. QED
    BY <2>1
<1> HIDE DEF next, known, Ways, From, To
<1>10. next[start] = 0
  <2>1. next[start] <= 0 /\ next[start] \in Nat
    BY <1>3, <1>4, <1>6, <1>8
  <2>2. QED
    BY <2>1
<1>11. Relaxing(cost, start, d, next)
  BY <1>4, <1>6, <1>7, <1>10 DEF Relaxing
<1>12. Costed(d, dist) \subseteq Costed(d, next)
  <2>1. ASSUME NEW c \in DOMAIN dist, dist[c] = d[c] PROVE c \in DOMAIN next /\ next[c] = d[c]
    <3>1. c \in known /\ dist[c] \in Ways(c) /\ dist[c] \in Nat
      BY <1>3, <1>8
    <3>2. next[c] <= dist[c] /\ d[c] <= next[c] /\ next[c] \in Nat
      BY <1>6, <3>1
    <3>3. QED
      BY <1>7, <2>1, <3>1, <3>2
  <2>2. QED
    BY <2>1 DEF Costed
<1>13. ASSUME Costed(d, dist) # comp PROVE Costed(d, next) # Costed(d, dist)
  <2> DEFINE Z == Costed(d, dist)
             D == {d[c] : c \in comp \ Z}
  <2>1. Z \subseteq DOMAIN dist /\ Z \subseteq comp /\ start \in Z /\ \A c \in Z : dist[c] = d[c]
    BY <1>3 DEF Costed
  <2> HIDE DEF Z
  <2>2. Min(D) \in D /\ \A k \in D : Min(D) <= k
    <3>1. D \subseteq Nat /\ D # {}
      BY <1>3, <1>13, <2>1 DEF Z
    <3> HIDE DEF D
    <3>2. QED
      BY <3>1, NatMin
  <2>3. PICK n \in comp \ Z : d[n] = Min(D)
    BY <2>2
  <2>4. \A c \in comp \ Z : d[n] <= d[c]
    BY <2>2, <2>3
  <2>5. PICK c \in comp : n \in Neighbors8(cost, c) /\ d[n] = d[c] + MoveCost(cost, c, n)
    BY <2>1, <2>3 DEF Measures
  <2>6. MoveCost(cost, c, n) \in Nat /\ MoveCost(cost, c, n) > 0 /\ d[c] \in Nat /\ d[n] \in Nat
    BY <1>3, <2>5, MoveCosts
  <2>7. c \in Z
    <3>1. d[c] < d[n]
      BY <2>5, <2>6
    <3>2. ~ (d[n] <= d[c])
      BY <2>6, <3>1
    <3>3. QED
      BY <2>4, <3>2
  <2>8. n \in known /\ dist[c] + MoveCost(cost, c, n) \in Ways(n) /\ dist[c] = d[c]
    BY <1>9, <2>1, <2>5, <2>7
  <2>9. next[n] <= d[n] /\ d[n] <= next[n] /\ next[n] \in Nat
    BY <1>6, <2>5, <2>8
  <2>10. n \in Costed(d, next)
    BY <1>7, <2>6, <2>8, <2>9 DEF Costed
  <2>11. QED
    BY <2>3, <2>10 DEF Z
<1>14. QED
  BY <1>1, <1>11, <1>12, <1>13

LEMMA RelaxStarts ==
  ASSUME NEW cost \in CostGrids, NEW start \in cost.open, NEW d, Measures(d, cost, start)
  PROVE  Relaxing(cost, start, d, [c \in {start} |-> 0])
<1>1. d[start] = 0 /\ start \in Component(cost, start)
  BY ComponentIsClosure DEF Measures
<1>2. QED
  BY <1>1 DEF Relaxing

LEMMA RelaxationRounds ==
  ASSUME NEW cost \in CostGrids, NEW start \in cost.open, NEW d, Measures(d, cost, start)
  PROVE  LET f == Relaxation(cost, start)
             N == Cardinality(cost.open)
         IN /\ f[0] = [c \in {start} |-> 0]
            /\ \A i \in 1 .. N : i - 1 \in 0 .. N /\ f[i] = Relaxed(cost, f[i - 1])
<1> DEFINE N == Cardinality(cost.open)
           X == {dist \in Maps(Nat) : Relaxing(cost, start, d, dist)}
           first == [c \in {start} |-> 0]
           turn == [dist \in X |-> Relaxed(cost, dist)]
           f == Relaxation(cost, start)
<1>1. N \in Nat
  BY OpenFinite
<1>0. ASSUME NEW dist, Relaxing(cost, start, d, dist) PROVE dist \in X
  <2>1. DOMAIN dist \in SUBSET Cells /\ dist \in [DOMAIN dist -> Nat]
    BY <1>0, ComponentIsClosure, OpenFinite DEF Relaxing
  <2>2. QED
    BY <1>0, <2>1 DEF Maps
<1>2. ASSUME NEW dist \in X PROVE Relaxed(cost, dist) \in X
  <2>1. Relaxing(cost, start, d, Relaxed(cost, dist))
    BY RelaxedKeeps
  <2> HIDE DEF X
  <2>2. QED
    BY <1>0, <2>1
<1>3. first \in X /\ turn \in [X -> X]
  <2> HIDE DEF X
  <2>1. first \in X
    BY <1>0, RelaxStarts
  <2>2. QED
    BY <1>2, <2>1
<1> HIDE DEF N, first
<1>4. PICK g : IsLoop(g, X, first, turn, N)
  <2> HIDE DEF X, turn
  <2>1. QED
    BY <1>1, <1>3, RoundsExist
<1>5. ASSUME NEW i \in 1 .. N PROVE g[i] = Relaxed(cost, g[i - 1])
  <2>1. i - 1 \in 0 .. N
    BY <1>1
  <2>2. g[i - 1] \in X /\ g[i] = turn[g[i - 1]]
    <3> HIDE DEF X, turn
    <3>1. QED
      BY <1>4, <2>1 DEF IsLoop
  <2> HIDE DEF X
  <2>3. QED
    BY <2>2
<1>6. /\ g = [i \in 0 .. N |-> g[i]]
      /\ \A i \in 0 .. N : g[i] = IF i = 0 THEN first ELSE Relaxed(cost, g[i - 1])
  <2> HIDE DEF X
  <2>1. QED
    BY <1>1, <1>4, <1>5 DEF IsLoop
<1>7. g = [i \in 0 .. N |-> IF i = 0 THEN first ELSE Relaxed(cost, g[i - 1])]
  <2> HIDE DEF X
  <2>1. QED
    BY <1>6
<1>8. f = CHOOSE h : h = [i \in 0 .. N |-> IF i = 0 THEN first ELSE Relaxed(cost, h[i - 1])]
  BY DEF Relaxation, Rounds, N, first
<1>9. f = [i \in 0 .. N |-> IF i = 0 THEN first ELSE Relaxed(cost, f[i - 1])]
  <2> HIDE DEF f
  <2>1. QED
    BY <1>7, <1>8
<1>10. QED
  <2> HIDE DEF f
  <2>1. f[0] = first /\ \A i \in 1 .. N : i - 1 \in 0 .. N /\ f[i] = Relaxed(cost, f[i - 1])
    BY <1>1, <1>9
  <2>2. QED
    BY <2>1 DEF N, f, first

\* As many rounds as there are open cells settle them all.
LEMMA DistancesSettle ==
  ASSUME NEW cost \in CostGrids, NEW start \in cost.open, NEW d, Measures(d, cost, start)
  PROVE  /\ DOMAIN Distances(cost, start) = Component(cost, start)
         /\ \A c \in Component(cost, start) : Distances(cost, start)[c] = d[c]
<1> DEFINE N == Cardinality(cost.open)
           comp == Component(cost, start)
           f == Relaxation(cost, start)
           P == {i \in Nat : /\ Relaxing(cost, start, d, f[i])
                             /\ Costed(d, f[i]) = comp \/ Cardinality(Costed(d, f[i])) > i}
<1>1. /\ N \in Nat /\ f[0] = [c \in {start} |-> 0]
      /\ \A i \in 1 .. N : i - 1 \in 0 .. N /\ f[i] = Relaxed(cost, f[i - 1])
  BY RelaxationRounds, OpenFinite
<1> HIDE DEF f
<1>2. ASSUME NEW dist, Relaxing(cost, start, d, dist)
      PROVE  /\ Costed(d, dist) \subseteq comp /\ IsFiniteSet(Costed(d, dist))
             /\ Cardinality(Costed(d, dist)) \in Nat /\ Cardinality(Costed(d, dist)) <= N
  <2>1. Costed(d, dist) \subseteq comp /\ comp \subseteq cost.open
    BY <1>2, ComponentIsClosure DEF Costed, Relaxing
  <2> HIDE DEF comp
  <2>2. QED
    BY <2>1, OpenFinite, FS_Subset, FS_CardinalityType
<1>3. 0 \in P
  <2>1. Relaxing(cost, start, d, f[0])
    BY <1>1, RelaxStarts
  <2>2. start \in Costed(d, f[0])
    BY <1>1 DEF Costed, Measures
  <2>3. Cardinality(Costed(d, f[0])) # 0
    BY <1>2, <2>1, <2>2, FS_EmptySet
  <2>4. QED
    BY <1>2, <2>1, <2>3
<1>4. ASSUME NEW i \in 1 .. N, i - 1 \in P PROVE i \in P
  <2> DEFINE old == Costed(d, f[i - 1])
             new == Costed(d, f[i])
  <2>1. Relaxing(cost, start, d, f[i - 1]) /\ f[i] = Relaxed(cost, f[i - 1]) /\ i \in Nat
        /\ (old = comp \/ Cardinality(old) > i - 1)
    BY <1>1, <1>4
  <2>2. Relaxing(cost, start, d, f[i]) /\ old \subseteq new /\ (old # comp => new # old)
    BY <2>1, RelaxedKeeps
  <2>3. /\ new \subseteq comp /\ IsFiniteSet(new) /\ Cardinality(new) \in Nat
        /\ IsFiniteSet(old) /\ Cardinality(old) \in Nat
    BY <1>2, <2>1, <2>2
  <2> HIDE DEF old, new
  <2>4. new = comp \/ Cardinality(new) > i
    <3>1. CASE old = comp
      BY <2>2, <2>3, <3>1
    <3>2. CASE old # comp
      <4>1. Cardinality(old) <= Cardinality(new) /\ Cardinality(old) # Cardinality(new)
        BY <2>2, <2>3, <3>2, FS_Subset
      <4>2. QED
        BY <2>1, <2>3, <3>2, <4>1
    <3>3. QED
      BY <3>1, <3>2
  <2>5. QED
    BY <2>1, <2>2, <2>4 DEF new
<1>5. N \in 0 .. N /\ N \in P
  <2>1. N \in 0 .. N
    BY <1>1
  <2> HIDE DEF P, N
  <2>2. QED
    BY <1>1, <1>3, <1>4, <2>1, RoundByRound
<1>6. Relaxing(cost, start, d, f[N]) /\ Costed(d, f[N]) = comp
  <2>1. Relaxing(cost, start, d, f[N]) /\ (Costed(d, f[N]) = comp \/ Cardinality(Costed(d, f[N])) > N)
    BY <1>5
  <2>2. Cardinality(Costed(d, f[N])) \in Nat /\ Cardinality(Costed(d, f[N])) <= N
    BY <1>2, <2>1
  <2> HIDE DEF N
  <2>3. QED
    BY <1>1, <2>1, <2>2
<1>7. Distances(cost, start) = f[N]
  BY DEF Distances, f
<1>8. QED
  BY <1>6, <1>7 DEF Relaxing, Costed

\* From every open cell of every cost grid, astar finds a route exactly to the cells of the
\* start's component and never a dearer one than relaxing every edge finds; smooth_path
\* keeps it on cells the robot may enter.
THEOREM SearchRight ==
  ASSUME NEW cost \in CostGrids, NEW start \in cost.open
  PROVE  SearchIsRight(cost, start)
<1>1. PICK d : Measures(d, cost, start)
  BY MeasureExists
<1> DEFINE dist == Distances(cost, start)
<1>2. DOMAIN dist = Component(cost, start) /\ \A c \in Component(cost, start) : dist[c] = d[c]
  BY <1>1, DistancesSettle
<1> HIDE DEF dist
<1>3. ASSUME NEW goal \in Cells
      PROVE  /\ RouteIsSound(cost, start, goal)
             /\ goal \in DOMAIN dist => PathCost(cost, Astar(cost, start, goal)) = dist[goal]
  <2>1. RouteIsSound(cost, start, goal)
    BY RoutesSound
  <2>2. goal \in Component(cost, start) => PathCost(cost, Astar(cost, start, goal)) = d[goal]
    BY <1>1, AstarRoutes
  <2>3. QED
    BY <1>2, <2>1, <2>2
<1>4. QED
  BY <1>2, <1>3 DEF SearchIsRight, dist

-----------------------------------------------------------------------------
(* The cell a scan finds first *)

LEMMA FirstRank ==
  ASSUME NEW T, T \subseteq Cells, T # {}
  PROVE  (CHOOSE c \in T : \A d \in T : ScanRank(c) <= ScanRank(d)) \in T
<1> DEFINE Ranks == {ScanRank(c) : c \in T}
<1>1. \A c \in T : ScanRank(c) \in Nat
  BY CellTyped, Sizes DEF ScanRank
<1>2. Ranks \subseteq Nat /\ Ranks # {}
  BY <1>1
<1>3. Min(Ranks) \in Ranks /\ \A n \in Ranks : Min(Ranks) <= n
  BY <1>2, NatMin
<1>4. \E c \in T : \A d \in T : ScanRank(c) <= ScanRank(d)
  BY <1>3
<1>5. QED
  BY <1>4

\* The nearest cell of a region lies in it, and is the target if that does.
LEMMA NearestMemberFound ==
  ASSUME NEW S, S \subseteq Cells, S # {}, NEW c \in Int \X Int
  PROVE  /\ NearestMember(S, c) \in S
         /\ c \in S => NearestMember(S, c) = c
<1> DEFINE Keys == {D2(n, c) : n \in S}
           ties == {n \in S : D2(n, c) = Min(Keys)}
<1>1. \A n \in S : D2(n, c) \in Nat
  BY D2Typed, CellTyped
<1>2. Keys \subseteq Nat /\ Keys # {}
  BY <1>1
<1>3. Min(Keys) \in Keys /\ \A n \in Keys : Min(Keys) <= n
  BY <1>2, NatMin
<1>4. ties \subseteq Cells /\ ties # {}
  BY <1>3
<1>5. NearestMember(S, c) = CHOOSE n \in ties : \A d \in ties : ScanRank(n) <= ScanRank(d)
  BY DEF NearestMember, FirstBy
<1>6. NearestMember(S, c) \in ties
  BY <1>4, <1>5, FirstRank
<1>7. ASSUME c \in S PROVE NearestMember(S, c) = c
  <2>1. D2(c, c) = 0 /\ D2(c, c) \in Keys
    BY <1>7, D2Zero
  <2>2. Min(Keys) = 0
    <3> HIDE DEF Keys
    <3>1. Min(Keys) \in Nat /\ Min(Keys) <= 0
      BY <1>2, <1>3, <2>1
    <3>2. QED
      BY <3>1
  <2>3. D2(NearestMember(S, c), c) = 0
    BY <1>6, <2>2
  <2>4. QED
    BY <1>6, <1>7, <2>3, D2Zero
<1>8. QED
  BY <1>6, <1>7

LEMMA NearestFreeFound ==
  ASSUME NEW cost, cost.open \subseteq Cells, NEW c \in Int \X Int, NEW radius
  PROVE  NearestFree(cost, c, radius) \in cost.open \union {NoCell}
<1> DEFINE near == {n \in cost.open : Chebyshev(n, c) <= radius}
           Key(n) == Chebyshev(n, c) * 1000 + D2(n, c)
           Keys == {Key(n) : n \in near}
           ties == {n \in near : Key(n) = Min(Keys)}
<1>1. CASE near = {}
  BY <1>1 DEF NearestFree
<1>2. CASE near # {}
  <2>1. \A n \in near : Key(n) \in Nat
    <3> SUFFICES ASSUME NEW n \in near PROVE Key(n) \in Nat
      OBVIOUS
    <3>1. n \in Int \X Int /\ D2(n, c) \in Nat
      BY D2Typed, CellTyped
    <3>2. Chebyshev(n, c) \in Nat
      BY <3>1 DEF Chebyshev, Higher, Abs
    <3>3. QED
      BY <3>1, <3>2
  <2>2. Keys \subseteq Nat /\ Keys # {}
    BY <1>2, <2>1
  <2>3. Min(Keys) \in Keys
    BY <2>2, NatMin
  <2>4. \E n \in near : Key(n) = Min(Keys)
    <3> HIDE DEF Key, near
    <3>1. QED
      BY <2>3
  <2>5. ties \subseteq near /\ ties # {}
    <3> HIDE DEF Key, near, Keys
    <3>1. QED
      BY <2>4
  <2>6. NearestFree(cost, c, radius) = CHOOSE n \in ties : \A d \in ties : ScanRank(n) <= ScanRank(d)
    BY <1>2 DEF NearestFree, FirstBy
  <2>7. NearestFree(cost, c, radius) \in ties
    <3> HIDE DEF ties
    <3>1. ties \subseteq Cells
      BY <2>5
    <3>2. QED
      BY <2>5, <2>6, <3>1, FirstRank
  <2>8. QED
    BY <2>5, <2>7
<1>3. QED
  BY <1>1, <1>2

-----------------------------------------------------------------------------
(* The largest region *)

\* Of a set of numbers that are bounded one is the greatest.
LEMMA NatMax ==
  ASSUME NEW S, S \subseteq Nat, S # {}, NEW b \in Nat, \A n \in S : n <= b
  PROVE  \E m \in S : \A n \in S : n <= m
<1> DEFINE T == {b - n : n \in S}
<1>1. T \subseteq Nat /\ T # {}
  <2>1. \A n \in S : n \in Nat /\ n <= b
    OBVIOUS
  <2>2. \A n \in S : b - n \in Nat
    BY <2>1
  <2>3. QED
    BY <2>2
<1>2. Min(T) \in T /\ \A n \in T : Min(T) <= n
  BY <1>1, NatMin
<1>3. PICK m \in S : \A n \in S : b - m <= b - n
  BY <1>2
<1>4. \A n \in S : n <= m
  BY <1>3
<1>5. QED
  BY <1>4

LEMMA LargestFound ==
  ASSUME NEW cost \in CostGrids, RegionsAreSound(cost)
  PROVE  /\ Largest(cost) \subseteq cost.open
         /\ cost.open # {} => Largest(cost) # {}
<1> DEFINE comps == AllComponents(cost)
           Rank(comp) == Min({ScanRank(c) : c \in comp})
           Sizes0 == {Cardinality(x) : x \in comps}
<1>1. cost.open \subseteq Cells
  BY DEF CostGrids
<1>2. CASE comps = {}
  BY <1>2 DEF Largest, RegionsAreSound
<1>3. CASE comps # {}
  <2>1. \A x \in comps : x # {} /\ x \subseteq cost.open /\ x \subseteq Cells
    BY <1>1 DEF RegionsAreSound
  <2>2. \A x \in comps : Cardinality(x) \in Nat /\ Cardinality(x) <= Cardinality(Cells)
    BY <2>1, CellsFinite, FS_Subset, FS_CardinalityType
  <2>3. Cardinality(Cells) \in Nat
    BY CellsFinite, FS_CardinalityType
  <2>4. Sizes0 \subseteq Nat /\ Sizes0 # {} /\ \A n \in Sizes0 : n <= Cardinality(Cells)
    BY <1>3, <2>2
  <2>5. PICK size \in Sizes0 : \A n \in Sizes0 : n <= size
    <3> HIDE DEF Sizes0
    <3>1. QED
      BY <2>3, <2>4, NatMax
  <2> DEFINE top == {x \in comps : Cardinality(x) = size}
             Ranks == {Rank(x) : x \in top}
  <2>6. ASSUME NEW x \in comps PROVE Rank(x) \in Nat
    <3>1. {ScanRank(c) : c \in x} \subseteq Nat /\ {ScanRank(c) : c \in x} # {}
      BY <2>1, <2>6, CellTyped, Sizes DEF ScanRank
    <3>2. QED
      BY <3>1, NatMin
  <2>7. top # {}
    BY <2>5
  <2>8. Ranks \subseteq Nat /\ Ranks # {}
    <3> HIDE DEF Rank
    <3>1. QED
      BY <2>6, <2>7
  <2>9. PICK x \in top : \A y \in top : Rank(x) <= Rank(y)
    <3>1. Min(Ranks) \in Ranks /\ \A n \in Ranks : Min(Ranks) <= n
      BY <2>8, NatMin
    <3> HIDE DEF Rank
    <3>2. QED
      BY <3>1
  <2>10. \A y \in comps : \/ Cardinality(x) > Cardinality(y)
                          \/ Cardinality(x) = Cardinality(y) /\ Rank(x) <= Rank(y)
    <3> HIDE DEF Rank
    <3>1. \A y \in comps : Cardinality(y) <= Cardinality(x)
      BY <2>5, <2>9
    <3>2. \A y \in comps : Cardinality(y) = Cardinality(x) => y \in top
      BY <2>9
    <3>3. QED
      BY <2>2, <2>9, <3>1, <3>2
  <2>11. Largest(cost) \in comps
    <3>1. Largest(cost) = CHOOSE u \in comps : \A y \in comps :
                            \/ Cardinality(u) > Cardinality(y)
                            \/ Cardinality(u) = Cardinality(y) /\ Rank(u) <= Rank(y)
      BY <1>3 DEF Largest
    <3> HIDE DEF Rank
    <3>2. QED
      BY <2>9, <2>10, <3>1
  <2>12. QED
    BY <2>1, <2>11
<1>4. QED
  BY <1>2, <1>3

-----------------------------------------------------------------------------
(* Goals *)

LEMMA TargetTyped == ASSUME NEW c \in Cells, NEW fp \in Footprints PROVE TargetD2(c, fp) \in Nat
<1> DEFINE p == CellToWorld(c)
           dx == Higher(0, Higher(fp.x0 - p[1], p[1] - fp.x1))
           dz == Higher(0, Higher(fp.z0 - p[2], p[2] - fp.z1))
<1>1. p[1] \in Int /\ p[2] \in Int
  BY CellTyped DEF CellToWorld
<1>2. fp.x0 \in Int /\ fp.x1 \in Int /\ fp.z0 \in Int /\ fp.z1 \in Int
  BY DEF Footprints
<1>3. dx \in Int /\ dz \in Int
  BY <1>1, <1>2 DEF Higher
<1>4. dx * dx \in Nat /\ dz * dz \in Nat
  BY <1>3, Squares
<1>5. TargetD2(c, fp) = dx * dx + dz * dz
  BY DEF TargetD2
<1>6. QED
  BY <1>4, <1>5

LEMMA NearestToTarget ==
  ASSUME NEW S, S \subseteq Cells, S # {}, NEW fp \in Footprints
  PROVE  LET Key(c) == TargetD2(c, fp) IN FirstBy(S, Key) \in S
<1> DEFINE Keys == {TargetD2(c, fp) : c \in S}
           ties == {n \in S : TargetD2(n, fp) = Min(Keys)}
<1>1. \A n \in S : TargetD2(n, fp) \in Nat
  BY TargetTyped
<1>2. Keys \subseteq Nat /\ Keys # {}
  BY <1>1
<1>3. Min(Keys) \in Keys
  BY <1>2, NatMin
<1>4. ties \subseteq Cells /\ ties # {}
  BY <1>3
<1>5. (CHOOSE n \in ties : \A d \in ties : ScanRank(n) <= ScanRank(d)) \in ties
  BY <1>4, FirstRank
<1>6. QED
  BY <1>5 DEF FirstBy

LEMMA GoalFound ==
  ASSUME NEW grid, NEW fp \in Footprints, NEW radius, NEW start
  PROVE  LET goal == ResolveGoal(grid, fp, radius, start)
         IN /\ goal.why = "ok" => goal.cell \in Cells
            /\ goal.why = "start_disconnected" => start \notin {c \in Cells : Clear(grid, c, radius)}
<1> DEFINE clear == {c \in Cells : TargetD2(c, fp) <= Search * Search /\ Clear(grid, c, radius + Margin)}
           drivable == {c \in Cells : Clear(grid, c, radius)}
           ok == IF start = NoCell THEN clear ELSE clear \intersect LabelFrom(drivable, start)
           Key(c) == TargetD2(c, fp)
           goal == ResolveGoal(grid, fp, radius, start)
<1>1. ok \subseteq Cells
  OBVIOUS
<1>2. ok # {} => FirstBy(ok, Key) \in Cells
  <2> HIDE DEF ok
  <2>1. QED
    BY <1>1, NearestToTarget
<1>3. \/ goal.why \in {"outside_grid", "no_free_cell_within_2m", "disconnected"}
      \/ goal.why = "start_disconnected" /\ start \notin drivable
      \/ goal.why = "ok" /\ ok # {} /\ goal.cell = FirstBy(ok, Key)
  BY DEF ResolveGoal, GoalAmong
<1>4. QED
  BY <1>2, <1>3

-----------------------------------------------------------------------------
(* Plans *)

LEMMA SquareGrows == \A a, b \in Nat : a <= b => a * a <= b * b
<1> SUFFICES ASSUME NEW a \in Nat, NEW b \in Nat, a <= b PROVE a * a <= b * b
  OBVIOUS
<1> DEFINE d == b - a
<1>1. d \in Nat /\ b = a + d
  OBVIOUS
<1> HIDE DEF d
<1>2. b * b = a * a + (2 * (a * d) + d * d)
  BY <1>1
<1>3. a * d \in Nat /\ d * d \in Nat /\ a * a \in Nat
  BY <1>1
<1>4. QED
  BY <1>2, <1>3

\* A cell the robot may enter keeps the robot's radius to every obstacle.
LEMMA OpenIsClear ==
  ASSUME NEW obstacles \in Grids, NEW radius \in Nat
  PROVE  /\ CostOf(obstacles, radius) \in CostGrids
         /\ CostOf(obstacles, radius).open \subseteq {c \in Cells : Clear(obstacles, c, radius)}
<1> DEFINE rc == CeilHalf(radius)
<1>1. obstacles.obstacle \subseteq Cells /\ obstacles.unknown \subseteq Cells
  BY DEF Grids
<1>2. CostOf(obstacles, radius).open =
        Cells \ (obstacles.obstacle \union {c \in Cells : \E o \in obstacles.obstacle : D2(c, o) <= rc * rc})
  BY DEF CostOf, CostGrid, Inflate, Block
<1>3. CostOf(obstacles, radius) \in CostGrids
  BY <1>1 DEF CostOf, CostGrid, Inflate, Block, CostGrids
<1>4. rc \in Nat /\ radius <= 2 * rc
  BY DEF CeilHalf
<1>5. radius * radius <= 4 * (rc * rc)
  <2>1. radius * radius <= (2 * rc) * (2 * rc)
    BY <1>4, SquareGrows
  <2>2. (2 * rc) * (2 * rc) = 4 * (rc * rc)
    BY <1>4
  <2>3. QED
    BY <2>1, <2>2
<1>6. ASSUME NEW c \in CostOf(obstacles, radius).open, NEW o \in obstacles.obstacle
      PROVE  4 * D2(c, o) >= radius * radius
  <2>1. c \in Cells /\ o \in Cells /\ ~ (D2(c, o) <= rc * rc)
    BY <1>1, <1>2
  <2>2. D2(c, o) \in Nat
    BY <2>1, D2Typed, CellTyped
  <2>3. rc * rc \in Nat /\ radius * radius \in Nat
    BY <1>4, Squares
  <2>4. QED
    BY <1>5, <2>1, <2>2, <2>3
<1>7. QED
  BY <1>2, <1>3, <1>6 DEF Clear

LEMMA StartStaysOpen ==
  ASSUME NEW cost \in CostGrids, RegionsAreSound(cost), NEW from \in Cells, NEW radius
  PROVE  /\ SnapIfBlocked(cost, from, radius) \in cost.open \union {NoCell}
         /\ from \in cost.open => SnapIfBlocked(cost, from, radius) = from
         /\ from \in cost.open => RelocateIfIsolated(cost, from) \in cost.open
         /\ from \in Largest(cost) => RelocateIfIsolated(cost, from) = from
<1>1. cost.open \subseteq Cells /\ from \in Int \X Int
  BY CellTyped DEF CostGrids
<1>2. SnapIfBlocked(cost, from, radius) \in cost.open \union {NoCell}
  BY <1>1, NearestFreeFound DEF SnapIfBlocked, Passable
<1>3. Largest(cost) \subseteq cost.open
  BY LargestFound
<1>4. CASE Largest(cost) = {}
  BY <1>2, <1>4 DEF RelocateIfIsolated, SnapIfBlocked, Passable
<1>5. CASE Largest(cost) # {}
  <2>1. /\ NearestMember(Largest(cost), from) \in Largest(cost)
        /\ from \in Largest(cost) => NearestMember(Largest(cost), from) = from
    BY <1>1, <1>3, <1>5, NearestMemberFound
  <2>2. QED
    BY <1>2, <1>3, <2>1 DEF RelocateIfIsolated, SnapIfBlocked, Passable
<1>6. QED
  BY <1>4, <1>5

PlanIsSound(plan, cost) ==
  /\ plan.why # "raised"
  /\ plan.ok \in BOOLEAN
  /\ plan.ok <=> plan.why = "ok"
  /\ plan.ok => /\ plan.route \in Seq(cost.open) /\ plan.route # <<>>
                /\ RouteCells(plan.route) \subseteq cost.open

\* From an open cell: a route exactly to the goals of its region, and nothing raised.
LEMMA PlanFromOpen ==
  ASSUME NEW obstacles \in Grids, NEW radius \in Nat, NEW fp \in Footprints,
         NEW start \in CostOf(obstacles, radius).open
  PROVE  LET cost == CostOf(obstacles, radius)
             goal == ResolveGoal(obstacles, fp, radius, start)
             plan == PlanOn(obstacles, cost, start, fp, radius)
         IN /\ PlanIsSound(plan, cost)
            /\ plan.ok <=> goal.why = "ok" /\ goal.cell \in Component(cost, start)
<1> DEFINE cost == CostOf(obstacles, radius)
           goal == ResolveGoal(obstacles, fp, radius, start)
           plan == PlanOn(obstacles, cost, start, fp, radius)
<1>1. cost \in CostGrids /\ start \in {c \in Cells : Clear(obstacles, c, radius)}
  BY OpenIsClear
<1>2. /\ goal.why = "ok" => goal.cell \in Cells
      /\ goal.why # "start_disconnected"
  BY <1>1, GoalFound
<1>3. CASE goal.why = "ok"
  <2> DEFINE path == Astar(cost, start, goal.cell)
  <2>1. RouteIsSound(cost, start, goal.cell)
    BY <1>1, <1>2, <1>3, RoutesSound
  <2>2. plan = RouteAlong(cost, path)
    BY <1>3 DEF PlanOn, RouteTo
  <2>3. path # <<>> => plan = [ok |-> TRUE, why |-> "ok", route |-> SmoothPath(cost, path)]
    BY <2>2 DEF RouteAlong
  <2>4. path = <<>> => plan = [ok |-> FALSE, why |-> "no_path", route |-> <<>>]
    BY <2>2 DEF RouteAlong, NoRoute
  <2>5. path # <<>> => /\ SmoothPath(cost, path) \in Seq(cost.open) /\ SmoothPath(cost, path) # <<>>
                       /\ RouteCells(SmoothPath(cost, path)) \subseteq cost.open
    BY <2>1 DEF RouteIsSound
  <2>6. path # <<>> <=> goal.cell \in Component(cost, start)
    BY <2>1 DEF RouteIsSound
  <2> HIDE DEF cost, goal, plan, path
  <2>7. CASE path # <<>>
    <3>1. plan.ok = TRUE /\ plan.why = "ok" /\ plan.route = SmoothPath(cost, path)
      BY <2>3, <2>7
    <3>2. PlanIsSound(plan, cost)
      BY <2>5, <2>7, <3>1 DEF PlanIsSound
    <3>3. QED
      BY <1>3, <2>6, <2>7, <3>1, <3>2 DEF cost, goal, plan
  <2>8. CASE path = <<>>
    <3>1. plan.ok = FALSE /\ plan.why = "no_path"
      BY <2>4, <2>8
    <3>2. PlanIsSound(plan, cost)
      BY <3>1 DEF PlanIsSound
    <3>3. QED
      BY <1>3, <2>6, <2>8, <3>1, <3>2 DEF cost, goal, plan
  <2>9. QED
    BY <2>7, <2>8
<1>4. CASE goal.why # "ok"
  <2>1. plan = [ok |-> FALSE, why |-> "no_path", route |-> <<>>]
    BY <1>2, <1>4 DEF PlanOn, RouteTo, NoRoute
  <2>2. QED
    BY <1>4, <2>1 DEF PlanIsSound
<1>5. QED
  BY <1>3, <1>4

LEMMA PlanFound ==
  ASSUME NEW obstacles \in Grids, NEW radius \in Nat, NEW fp \in Footprints,
         NEW from \in Cells
  PROVE  LET cost == CostOf(obstacles, radius)
             plan == PlanIn(obstacles, cost, from, fp, radius)
         IN /\ PlanIsSound(plan, cost)
            /\ from \in Largest(cost) => plan = PlanOn(obstacles, cost, from, fp, radius)
            /\ cost.open = {} => ~plan.ok
<1> DEFINE cost == CostOf(obstacles, radius)
           snapped == SnapIfBlocked(cost, from, Snap)
           plan == PlanIn(obstacles, cost, from, fp, radius)
           start == RelocateIfIsolated(cost, snapped)
<1>1. cost \in CostGrids /\ RegionsAreSound(cost)
  BY OpenIsClear, RegionsPart
<1>2. /\ snapped \in cost.open \union {NoCell}
      /\ from \in cost.open => snapped = from
  BY <1>1, StartStaysOpen
<1>3. from # NoCell /\ cost.open \subseteq Cells /\ NoCell \notin cost.open
  BY <1>1, NoCellOutside DEF CostGrids
<1>4. CASE snapped = NoCell
  <2>1. plan = [ok |-> FALSE, why |-> "no_path", route |-> <<>>]
    BY <1>3, <1>4 DEF PlanIn, NoRoute
  <2>2. from \notin Largest(cost)
    BY <1>1, <1>2, <1>3, <1>4, LargestFound
  <2>3. QED
    BY <2>1, <2>2 DEF PlanIsSound
<1>5. CASE snapped # NoCell
  <2>1. snapped \in cost.open /\ start \in cost.open
    BY <1>1, <1>2, <1>3, <1>5, StartStaysOpen
  <2>2. plan = PlanOn(obstacles, cost, start, fp, radius)
    BY <1>3, <1>5 DEF PlanIn
  <2>3. from \in Largest(cost) => start = from
    BY <1>1, <1>2, StartStaysOpen, LargestFound
  <2>4. PlanIsSound(PlanOn(obstacles, cost, start, fp, radius), cost)
    BY <2>1, PlanFromOpen
  <2>5. QED
    BY <2>1, <2>2, <2>3, <2>4
<1>6. QED
  BY <1>4, <1>5

-----------------------------------------------------------------------------
(* Reachability *)

LEMMA RasterizeTyped == ASSUME NEW grid \in Grids, NEW fps PROVE Rasterize(grid, fps) \in Grids
<1>1. Covered(fps) \subseteq Cells
  BY DEF Covered
<1>2. QED
  BY <1>1 DEF Rasterize, Block, Grids

LEMMA Reached ==
  ASSUME NEW grid \in Grids, NEW radius \in Nat, NEW anchor \in Int \X Int,
         NEW S, NEW objs \in [S -> Footprints]
  PROVE  LET result == ComputeReachability(grid, anchor, objs, radius)
             obstacles == Rasterize(grid, Range(objs))
             cost == CostOf(obstacles, radius)
         IN /\ result.reachable \subseteq S
            /\ \A o \in result.reachable : RouteCells(result.routes[o]) \subseteq cost.open
            /\ OnGrid(result.start.point) => \A o \in S :
                 o \in result.reachable <=>
                   PlanToObject(grid, result.start.point, objs[o], radius, Range(objs)).ok
<1> DEFINE result == ComputeReachability(grid, anchor, objs, radius)
           obstacles == Rasterize(grid, Range(objs))
           cost == CostOf(obstacles, radius)
           at == ClampAnchor(anchor)
           start == StartForRadius(cost, anchor)
           largest == Largest(cost)
<1>1. /\ obstacles \in Grids /\ cost \in CostGrids /\ RegionsAreSound(cost)
      /\ cost.open \subseteq Cells
  BY RasterizeTyped, OpenIsClear, RegionsPart DEF CostGrids
<1>2. result = ReachabilityFrom(obstacles, cost, start, objs, radius)
  BY DEF ComputeReachability, ReachabilityIn
<1>3. /\ largest \subseteq cost.open
      /\ cost.open # {} => largest # {}
  BY <1>1, LargestFound
<1>4. CASE largest = {}
  <2>1. start = [status |-> "none", cell |-> NoCell, point |-> anchor]
    BY <1>4 DEF StartForRadius, StartIn
  <2>2. result.reachable = {} /\ result.start.point = anchor
    BY <1>2, <2>1 DEF ReachabilityFrom
  <2>3. ASSUME OnGrid(anchor), NEW o \in S
        PROVE  ~PlanToObject(grid, anchor, objs[o], radius, Range(objs)).ok
    <3>1. WorldToCell(anchor) \in Cells /\ cost.open = {} /\ objs[o] \in Footprints
      BY <1>3, <1>4, <2>3, CellOfPoint
    <3>2. ~PlanIn(obstacles, cost, WorldToCell(anchor), objs[o], radius).ok
      BY <1>1, <3>1, PlanFound
    <3>3. QED
      BY <3>2 DEF PlanToObject
  <2>4. QED
    BY <2>2, <2>3
<1>5. CASE largest # {}
  <2> DEFINE cell == NearestMember(largest, at)
             goal == [o \in DOMAIN objs |-> ResolveGoal(obstacles, objs[o], radius, cell)]
  <2>1. at \in Cells \union {NoCell} /\ at \in Int \X Int
    BY CellOfPoint, CellTyped DEF NoCell
  <2>2. cell \in largest /\ cell \in cost.open /\ cell \in Cells
    BY <1>1, <1>3, <1>5, <2>1, NearestMemberFound
  <2>3. start = IF cell = at THEN [status |-> "original", cell |-> cell, point |-> anchor]
                ELSE [status |-> "moved", cell |-> cell, point |-> CellToWorld(cell)]
    BY <1>5 DEF StartForRadius, StartIn
  <2>4. start.cell = cell
    BY <2>3
  <2>5. OnGrid(start.point) => WorldToCell(start.point) = cell
    <3>1. CASE cell = at
      <4>1. at # NoCell /\ start.point = anchor
        BY <2>2, <2>3, <3>1, NoCellOutside
      <4>2. QED
        BY <3>1, <4>1, CellOfPoint
    <3>2. CASE cell # at
      <4>1. start.point = CellToWorld(cell)
        BY <2>3, <3>2
      <4>2. QED
        BY <2>2, <4>1, CellOfCentre
    <3>3. QED
      BY <3>1, <3>2
  <2>6. DOMAIN goal = S
    OBVIOUS
  <2>7. result = ReachedFrom(cost, start, Component(cost, cell), goal)
    <3>1. start.cell # NoCell
      BY <2>2, <2>4, NoCellOutside
    <3>2. QED
      BY <1>2, <2>4, <2>6, <3>1 DEF ReachabilityFrom
  <2> DEFINE reach == {o \in S : goal[o].why = "ok" /\ goal[o].cell \in Component(cost, cell)}
  <2>8. /\ result.start = start /\ result.reachable = reach
        /\ result.routes = [o \in reach |-> SmoothPath(cost, Astar(cost, start.cell, goal[o].cell))]
    BY <2>6, <2>7 DEF ReachedFrom
  <2>9. ASSUME NEW o \in S
        PROVE  /\ goal[o] = ResolveGoal(obstacles, objs[o], radius, cell) /\ objs[o] \in Footprints
               /\ goal[o].why = "ok" => goal[o].cell \in Cells
    <3>1. goal[o] = ResolveGoal(obstacles, objs[o], radius, cell) /\ objs[o] \in Footprints
      OBVIOUS
    <3>2. QED
      BY <3>1, GoalFound
  <2>10. ASSUME NEW o \in reach PROVE RouteCells(result.routes[o]) \subseteq cost.open
    <3>1. RouteIsSound(cost, cell, goal[o].cell)
      BY <1>1, <2>2, <2>9, <2>10, RoutesSound
    <3>2. result.routes[o] = SmoothPath(cost, Astar(cost, cell, goal[o].cell))
      BY <2>4, <2>8, <2>10
    <3>3. QED
      BY <2>10, <3>1, <3>2 DEF RouteIsSound
  <2>11. ASSUME OnGrid(start.point), NEW o \in S
         PROVE  o \in reach <=> PlanToObject(grid, start.point, objs[o], radius, Range(objs)).ok
    <3>1. PlanToObject(grid, start.point, objs[o], radius, Range(objs))
            = PlanIn(obstacles, cost, cell, objs[o], radius)
      BY <2>5, <2>11 DEF PlanToObject
    <3>2. PlanIn(obstacles, cost, cell, objs[o], radius) = PlanOn(obstacles, cost, cell, objs[o], radius)
      BY <1>1, <2>2, <2>9, PlanFound
    <3>3. PlanOn(obstacles, cost, cell, objs[o], radius).ok
            <=> goal[o].why = "ok" /\ goal[o].cell \in Component(cost, cell)
      BY <1>1, <2>2, <2>9, PlanFromOpen
    <3>4. QED
      BY <3>1, <3>2, <3>3
  <2>12. QED
    BY <2>8, <2>10, <2>11
<1>6. QED
  BY <1>4, <1>5

LEMMA StartOnGrid ==
  ASSUME NEW grid \in Grids, NEW from \in Int \X Int, NEW objs, NEW radius \in Nat
  PROVE  LET start == ResolveRobotStart(grid, from, objs, radius)
         IN start # NoCell => start \in Int \X Int /\ OnGrid(start)
<1> DEFINE obstacles == Rasterize(grid, Range(objs))
           cost == CostOf(obstacles, radius)
           given == WorldToCell(from)
           snapped == SnapIfBlocked(cost, given, CeilHalf(Snap))
           goals == [o \in DOMAIN objs |-> ResolveGoal(obstacles, objs[o], radius, NoCell).cell]
           start == ResolveRobotStart(grid, from, objs, radius)
           chosen == BusierPoint(cost, from, given, snapped, goals)
<1>1. /\ cost \in CostGrids /\ RegionsAreSound(cost) /\ cost.open \subseteq Cells
  BY RasterizeTyped, OpenIsClear, RegionsPart DEF CostGrids
<1>2. start = IF given = NoCell \/ snapped = NoCell THEN NoCell ELSE chosen
  BY DEF ResolveRobotStart, ResolveRobotStartIn
<1>3. ASSUME given # NoCell, snapped # NoCell
      PROVE  chosen \in Int \X Int /\ OnGrid(chosen)
  <2> DEFINE moved == RelocateIfIsolated(cost, snapped)
             busy == NearestMember(Largest(cost), moved)
  <2>1. given \in Cells /\ OnGrid(from)
    BY <1>3, CellOfPoint DEF OnGrid
  <2>2. snapped \in cost.open
    BY <1>1, <1>3, <2>1, StartStaysOpen
  <2>3. moved \in cost.open /\ moved \in Cells /\ moved \in Int \X Int
    BY <1>1, <2>2, StartStaysOpen, CellTyped
  <2>4. busy \in Cells
    BY <1>1, <2>2, <2>3, LargestFound, NearestMemberFound
  <2>5. /\ CellToWorld(moved) \in Int \X Int /\ OnGrid(CellToWorld(moved))
        /\ CellToWorld(busy) \in Int \X Int /\ OnGrid(CellToWorld(busy))
    BY <2>3, <2>4, CellOfCentre, CellTyped DEF CellToWorld
  <2>6. chosen \in {from, CellToWorld(moved), CellToWorld(busy)}
    BY DEF BusierPoint
  <2>7. QED
    BY <2>1, <2>5, <2>6
<1>4. QED
  BY <1>2, <1>3

-----------------------------------------------------------------------------
(* The steps of a command *)

LegsAreClear(legs, cost) ==
  legs \in Seq(Seq(Cells)) /\ \A leg \in Range(legs) : RouteCells(leg) \subseteq cost.open

\* A command that waits: what it was given when its row was written.
Waiting(r) ==
  /\ r.robot \in Robots /\ r.cells \in Grids
  /\ r.from \in Int \X Int
  /\ r.objects \in [DOMAIN r.objects -> Footprints]

CostFor(r) == CostOf(Rasterize(r.cells, Range(r.objects)), r.robot.radius)

LEMMA LegFound ==
  ASSUME NEW r, Waiting(r), NEW from \in Int \X Int, OnGrid(from),
         NEW o \in DOMAIN r.objects
  PROVE  /\ PlanIsSound(Leg(r, from, o), CostFor(r))
         /\ Leg(r, from, o).ok => /\ Leg(r, from, o).route \in Seq(Cells)
                                  /\ Last(Leg(r, from, o).route) \in Cells
<1> DEFINE obstacles == Rasterize(r.cells, Range(r.objects))
           cost == CostFor(r)
           leg == Leg(r, from, o)
<1>1. /\ obstacles \in Grids /\ r.robot.radius \in Nat /\ r.objects[o] \in Footprints
      /\ cost \in CostGrids /\ cost.open \subseteq Cells
  <2>1. obstacles \in Grids /\ r.robot.radius \in Nat /\ r.objects[o] \in Footprints
    BY RasterizeTyped, RobotsAssumption DEF Waiting
  <2>2. QED
    BY <2>1, OpenIsClear DEF CostFor, CostGrids
<1>2. leg = PlanIn(obstacles, cost, WorldToCell(from), r.objects[o], r.robot.radius)
  BY DEF Leg, PlanToObject, CostFor
<1>3. WorldToCell(from) \in Cells
  BY CellOfPoint
<1>4. PlanIsSound(leg, cost)
  BY <1>1, <1>2, <1>3, PlanFound DEF CostFor
<1>5. ASSUME leg.ok PROVE leg.route \in Seq(Cells) /\ Last(leg.route) \in Cells
  <2>1. leg.route \in Seq(cost.open) /\ leg.route # <<>>
    BY <1>4, <1>5 DEF PlanIsSound
  <2> DEFINE route == leg.route
             open == cost.open
  <2> HIDE DEF route, open
  <2>2. route \in Seq(Cells) /\ route[Len(route)] \in Cells
    <3>1. open \subseteq Cells /\ route \in Seq(open) /\ route # <<>>
      BY <1>1, <2>1 DEF route, open
    <3>2. Len(route) \in DOMAIN route /\ \A i \in DOMAIN route : route[i] \in open
      BY <3>1
    <3>3. QED
      BY <3>1, <3>2
  <2>3. QED
    BY <2>2 DEF Last, route
<1>6. QED
  BY <1>4, <1>5

LEMMA StepsBuilt ==
  ASSUME NEW r, Waiting(r), OnGrid(r.from), NEW parsed \in Texts,
         parsed.target \in DOMAIN r.objects, parsed.destination \in DOMAIN r.objects \union {"none"}
  PROVE  /\ BuildSteps(r, parsed).why # "raised"
         /\ BuildSteps(r, parsed).why = "ok" <=> BuildSteps(r, parsed).legs # <<>>
         /\ LegsAreClear(BuildSteps(r, parsed).legs, CostFor(r))
<1> DEFINE leg1 == Leg(r, r.from, parsed.target)
           leg2 == SecondLeg(r, parsed, leg1)
           built == BuildSteps(r, parsed)
<1>0. LegsAreClear(<<>>, CostFor(r))
  BY DEF LegsAreClear, Range
<1>1. /\ PlanIsSound(leg1, CostFor(r))
      /\ leg1.ok => leg1.route \in Seq(Cells) /\ Last(leg1.route) \in Cells
  BY LegFound DEF Waiting
<1>2. CASE parsed.action = "take" /\ parsed.destination = "none"
  <2>1. built = [why |-> "no_destination", legs |-> <<>>]
    BY <1>2 DEF BuildSteps
  <2>2. QED
    BY <1>0, <2>1
<1>3. CASE parsed.action # "take"
  <2>1. built = [why |-> leg1.why, legs |-> IF leg1.ok THEN <<leg1.route>> ELSE <<>>]
    BY <1>3 DEF BuildSteps
  <2>2. leg1.ok => LegsAreClear(<<leg1.route>>, CostFor(r))
    <3> HIDE DEF leg1
    <3>1. leg1.ok => Range(<<leg1.route>>) = {leg1.route}
      BY DEF Range
    <3>2. QED
      BY <1>1, <3>1 DEF LegsAreClear, PlanIsSound
  <2>3. built.why = leg1.why /\ built.legs = IF leg1.ok THEN <<leg1.route>> ELSE <<>>
    BY <2>1
  <2>4. QED
    BY <1>0, <1>1, <2>2, <2>3 DEF PlanIsSound
<1>4. CASE parsed.action = "take" /\ parsed.destination # "none"
  <2>1. built = Steps(leg1, leg2)
    BY <1>4 DEF BuildSteps
  <2>2. CASE ~leg1.ok
    <3>1. built.why = leg1.why /\ built.legs = <<>>
      BY <2>1, <2>2 DEF Steps
    <3>2. QED
      BY <1>0, <1>1, <2>2, <3>1 DEF PlanIsSound
  <2>3. CASE leg1.ok
    <3>1. CellToWorld(Last(leg1.route)) \in Int \X Int /\ OnGrid(CellToWorld(Last(leg1.route)))
      <4>1. Last(leg1.route) \in Cells
        BY <1>1, <2>3
      <4>2. QED
        BY <4>1, CellOfCentre, CellTyped DEF CellToWorld
    <3>2. parsed.destination \in DOMAIN r.objects
      BY <1>4
    <3>3. /\ PlanIsSound(leg2, CostFor(r))
          /\ leg2.ok => leg2.route \in Seq(Cells)
      BY <3>1, <3>2, LegFound DEF SecondLeg
    <3>4. CASE ~leg2.ok
      <4>1. built.why = leg2.why /\ built.legs = <<>>
        BY <2>1, <2>3, <3>4 DEF Steps
      <4>2. QED
        BY <1>0, <3>3, <3>4, <4>1 DEF PlanIsSound
    <3>5. CASE leg2.ok
      <4>1. built.why = "ok" /\ built.legs = <<leg1.route, leg2.route>>
        BY <2>1, <2>3, <3>5 DEF Steps
      <4>2. LegsAreClear(<<leg1.route, leg2.route>>, CostFor(r))
        <5> HIDE DEF leg1, leg2
        <5>1. Range(<<leg1.route, leg2.route>>) = {leg1.route, leg2.route}
          BY DEF Range
        <5>2. QED
          BY <1>1, <2>3, <3>3, <3>5, <5>1 DEF LegsAreClear, PlanIsSound
      <4>3. QED
        BY <4>1, <4>2
    <3>6. QED
      BY <3>4, <3>5
  <2>4. QED
    BY <2>2, <2>3
<1>5. QED
  BY <1>2, <1>3, <1>4

\* From a start off the grid there is no step.
LEMMA StepsOffGrid ==
  ASSUME NEW r, ~OnGrid(r.from), NEW parsed
  PROVE  BuildSteps(r, parsed).why \in {"raised", "no_destination"} /\ BuildSteps(r, parsed).legs = <<>>
<1> DEFINE leg1 == Leg(r, r.from, parsed.target)
           built == BuildSteps(r, parsed)
<1>1. leg1 = [ok |-> FALSE, why |-> "raised", route |-> <<>>]
  BY DEF Leg, PlanToObject, PlanIn, OnGrid, NoRoute
<1>2. leg1.ok = FALSE /\ leg1.why = "raised"
  BY <1>1
<1> HIDE DEF leg1
<1>3. CASE parsed.action = "take" /\ parsed.destination = "none"
  BY <1>3 DEF BuildSteps
<1>4. CASE parsed.action # "take"
  <2>1. built = [why |-> leg1.why, legs |-> IF leg1.ok THEN <<leg1.route>> ELSE <<>>]
    BY <1>4 DEF BuildSteps, leg1
  <2>2. QED
    BY <1>2, <2>1
<1>5. CASE parsed.action = "take" /\ parsed.destination # "none"
  <2>1. built = Steps(leg1, SecondLeg(r, parsed, leg1))
    BY <1>5 DEF BuildSteps, leg1
  <2>2. QED
    BY <1>2, <2>1 DEF Steps
<1>6. QED
  BY <1>3, <1>4, <1>5

LEMMA OutcomeSettled ==
  ASSUME NEW r, Waiting(r), NEW parsed \in Texts
  PROVE  /\ Outcome(r, parsed).status \in {"pending", "done", "failed"}
         /\ Outcome(r, parsed).status = "pending" => Unfit(parsed, r.from)
         /\ Outcome(r, parsed).status = "done" => ~Unfit(parsed, r.from)
         /\ Outcome(r, parsed).status = "done" <=> Outcome(r, parsed).legs # <<>>
         /\ LegsAreClear(Outcome(r, parsed).legs, CostFor(r))
<1> DEFINE out == Outcome(r, parsed)
<1>0. LegsAreClear(<<>>, CostFor(r))
  BY DEF LegsAreClear, Range
<1>1. \A why : /\ StatusFor(why) \in {"pending", "done", "failed"}
               /\ StatusFor(why) = "pending" <=> why = "raised"
               /\ StatusFor(why) = "done" <=> why = "ok"
  BY DEF StatusFor
<1>2. CASE parsed.action = "error"
  <2>1. out.status = StatusFor(parsed.why) /\ out.legs = <<>> /\ parsed.why # "ok"
    BY <1>2, ClientsAssumption DEF Outcome, Recorded
  <2>2. QED
    BY <1>0, <1>1, <1>2, <2>1 DEF Unfit
<1>3. CASE parsed.action # "error" /\ Resolved(r, parsed) # "ok"
  <2>1. out.status = StatusFor(Resolved(r, parsed)) /\ out.legs = <<>>
    BY <1>3 DEF Outcome, Recorded
  <2>2. Resolved(r, parsed) = "raised" => NotAName \in {parsed.target, parsed.destination}
    BY DEF Resolved, Resolve
  <2>3. QED
    BY <1>0, <1>1, <1>3, <2>1, <2>2 DEF Unfit
<1>4. CASE parsed.action # "error" /\ Resolved(r, parsed) = "ok"
  <2> DEFINE built == BuildSteps(r, parsed)
  <2>1. out.status = StatusFor(built.why) /\ out.legs = built.legs
    BY <1>4 DEF Outcome, Recorded
  <2>2. /\ parsed.target \in DOMAIN r.objects
        /\ parsed.destination \in DOMAIN r.objects \union {"none"}
        /\ NotAName \notin {parsed.target, parsed.destination}
    <3>1. /\ Resolve(r, parsed.target) = "ok"
          /\ parsed.destination # "none" => Resolve(r, parsed.destination) = "ok"
      BY <1>4 DEF Resolved
    <3>2. ASSUME NEW name, Resolve(r, name) = "ok"
          PROVE  name # NotAName /\ name \in DOMAIN r.objects
      <4>1. CASE name = NotAName
        BY <3>2, <4>1 DEF Resolve
      <4>2. CASE name # NotAName /\ name \notin DOMAIN r.objects
        BY <3>2, <4>2 DEF Resolve
      <4>3. QED
        BY <4>1, <4>2
    <3>3. NotAName # "none"
      BY DEF NotAName
    <3>4. parsed.destination = "none" \/ Resolve(r, parsed.destination) = "ok"
      BY <3>1
    <3>5. parsed.destination # NotAName
      BY <3>2, <3>3, <3>4
    <3>6. QED
      BY <3>1, <3>2, <3>4, <3>5
  <2>3. CASE OnGrid(r.from)
    <3>1. /\ built.why # "raised" /\ LegsAreClear(built.legs, CostFor(r))
          /\ built.why = "ok" <=> built.legs # <<>>
      BY <2>2, <2>3, StepsBuilt
    <3>2. ~Unfit(parsed, r.from)
      BY <1>4, <2>2, <2>3 DEF Unfit
    <3> HIDE DEF built
    <3>3. QED
      BY <1>1, <2>1, <3>1, <3>2
  <2>4. CASE ~OnGrid(r.from)
    <3>1. built.why \in {"raised", "no_destination"} /\ built.legs = <<>>
      BY <2>4, StepsOffGrid
    <3>2. Unfit(parsed, r.from)
      BY <2>4 DEF Unfit
    <3> HIDE DEF built
    <3>3. QED
      BY <1>0, <1>1, <2>1, <3>1, <3>2
  <2>5. QED
    BY <2>3, <2>4
<1>5. QED
  BY <1>2, <1>3, <1>4

-----------------------------------------------------------------------------
(* An answer is what the files and rows give now *)

NoRewrite == "rewrite" \notin Faults

\* What a robot sees in the only layer there can be, and where that leaves it.
View(h) == TriState(HeightsOf(1), room.unseen, h)
Current(robot) ==
  ComputeReachability(View(robot.height), Anchor, Keep(ObjectsNow, Whole), robot.radius)

Layer ==
  /\ "objects" \in DOMAIN scene
  /\ disk \in [grid : {0, 1}, heights : {0, 1}, meta : BOOLEAN]
  /\ disk.grid = 0 => disk.heights = 0
  /\ disk.meta => disk.grid = 1 /\ disk.heights = 1
  /\ req.kind = "reach" \/ (req.kind = "answered" /\ req.available) => disk.meta

Cached ==
  /\ \A k \in DOMAIN cellsMem : cellsMem[k] = View(k[2])
  /\ scene.objects = 1 => \A k \in DOMAIN reachMem : reachMem[k] = Current(k[2])

Served ==
  /\ req.kind = "reach" => /\ req.robot \in Robots /\ req.cells = View(req.robot.height)
                           /\ req.objects = Keep(ObjectsNow, Whole)
  /\ req.kind = "answered" /\ req.available =>
       /\ req.robot \in Robots /\ req.cells = View(req.robot.height)
       /\ Answered => req.result = Current(req.robot)

Fresh == Layer /\ Cached /\ Served

\* With a layer on disk, the cells of a height are what the robot sees.
LEMMA CellsAreTheView ==
  ASSUME Layer, Cached, disk.meta, NEW h
  PROVE  /\ CellsForHeight(h).cells = View(h)
         /\ \A k \in DOMAIN CellsForHeight(h).mem : CellsForHeight(h).mem[k] = View(k[2])
<1> DEFINE key == <<1, h>>
<1>1. disk.heights = 1 /\ GridOf(disk.grid).unknown = room.unseen
  BY DEF Layer, GridOf, TriState
<1>2. CASE key \in DOMAIN cellsMem
  <2>1. CellsForHeight(h) = [cells |-> cellsMem[key], mem |-> cellsMem]
    BY <1>1, <1>2 DEF CellsForHeight
  <2>2. cellsMem[key] = View(h)
    BY <1>2 DEF Cached
  <2>3. QED
    BY <2>1, <2>2 DEF Cached
<1>3. CASE key \notin DOMAIN cellsMem
  <2>1. CellsForHeight(h) = [cells |-> View(h), mem |-> With(cellsMem, key, View(h))]
    BY <1>1, <1>3 DEF CellsForHeight, View
  <2>2. \A k \in DOMAIN With(cellsMem, key, View(h)) : With(cellsMem, key, View(h))[k] = View(k[2])
    <3> HIDE DEF key
    <3>1. key[2] = h
      BY DEF key
    <3>2. QED
      BY <3>1 DEF With, Cached
  <2>3. QED
    BY <2>1, <2>2
<1>4. QED
  BY <1>2, <1>3

\* What an answer is computed from changes only with the room or the scene.
LEMMA SameView ==
  ASSUME room' = room, scene' = scene
  PROVE  /\ \A h : View(h)' = View(h)
         /\ \A robot : Current(robot)' = Current(robot)
         /\ Keep(ObjectsNow, Whole)' = Keep(ObjectsNow, Whole)
<1>1. HeightsOf(1)' = HeightsOf(1)
  BY DEF HeightsOf
<1>2. \A h : View(h)' = View(h)
  BY <1>1 DEF View
<1>3. ObjectIds' = ObjectIds /\ Whole' = Whole /\ ObjectsNow' = ObjectsNow /\ Anchor' = Anchor
  BY DEF ObjectIds, Whole, ObjectsNow, Anchor
<1>4. Keep(ObjectsNow, Whole)' = Keep(ObjectsNow, Whole)
  BY <1>3 DEF Keep
<1>5. \A robot : Current(robot)' = Current(robot)
  BY <1>2, <1>3, <1>4 DEF Current
<1>6. QED
  BY <1>2, <1>4, <1>5

LEMMA FreshInit == Init => Fresh
<1> SUFFICES ASSUME Init PROVE Fresh
  OBVIOUS
<1>1. Layer
  <2>1. /\ req.kind = "none" /\ "objects" \in DOMAIN scene
        /\ \/ disk = [grid |-> 0, heights |-> 0, meta |-> FALSE]
           \/ disk = [grid |-> 1, heights |-> 1, meta |-> TRUE]
    BY DEF Init, Idle
  <2>2. CASE disk = [grid |-> 0, heights |-> 0, meta |-> FALSE]
    <3>1. disk.meta = FALSE /\ disk.grid = 0 /\ disk.heights = 0
      BY <2>2
    <3>2. QED
      BY <2>1, <2>2, <3>1 DEF Layer
  <2>3. CASE disk = [grid |-> 1, heights |-> 1, meta |-> TRUE]
    <3>1. disk.meta = TRUE /\ disk.grid = 1 /\ disk.heights = 1
      BY <2>3
    <3>2. QED
      BY <2>1, <2>3, <3>1 DEF Layer
  <2>4. QED
    BY <2>1, <2>2, <2>3
<1>2. Cached
  BY DEF Init, Cached
<1>3. Served
  BY DEF Init, Served, Idle
<1>4. QED
  BY <1>1, <1>2, <1>3 DEF Fresh

LEMMA FreshStep == NoRewrite /\ Fresh /\ [Next]_vars => Fresh'
<1> SUFFICES ASSUME NoRewrite, Fresh, [Next]_vars PROVE Fresh'
  OBVIOUS
<1> USE DEF Fresh
<1>0. HasLayer <=> disk.meta
  BY DEF HasLayer, Layer
<1>1. ASSUME NEW robot \in Robots, NEW moves \in Moves, Reachability(robot, moves) PROVE Fresh'
  <2>1. room' = room /\ scene' = scene /\ disk' = disk /\ reachMem' = reachMem
    BY <1>1 DEF Reachability
  <2>2. CASE ~HasLayer
    <3>1. req' = [kind |-> "answered", available |-> FALSE] /\ cellsMem' = cellsMem
      BY <1>1, <2>2 DEF Reachability
    <3>2. Layer'
      BY <2>1, <3>1 DEF Layer
    <3>3. Cached'
      BY <2>1, <3>1, SameView DEF Cached
    <3>4. Served'
      BY <3>1 DEF Served
    <3>5. QED
      BY <3>2, <3>3, <3>4
  <2>3. CASE HasLayer
    <3> DEFINE got == CellsForHeight(robot.height)
    <3>1. /\ req' = [kind |-> "reach", robot |-> robot, moves |-> moves, cells |-> got.cells,
                     objects |-> Keep(ObjectsNow, Whole)]
          /\ cellsMem' = got.mem
      BY <1>1, <2>3 DEF Reachability
    <3>2. /\ got.cells = View(robot.height)
          /\ \A k \in DOMAIN got.mem : got.mem[k] = View(k[2])
      BY <1>0, <2>3, CellsAreTheView
    <3>3. Layer'
      BY <1>0, <2>1, <2>3, <3>1 DEF Layer
    <3>4. Cached'
      BY <2>1, <3>1, <3>2, SameView DEF Cached
    <3>5. Served'
      BY <2>1, <3>1, <3>2, SameView DEF Served
    <3>6. QED
      BY <3>3, <3>4, <3>5
  <2>4. QED
    BY <2>2, <2>3
<1>2. ASSUME AnswerReachability PROVE Fresh'
  <2> DEFINE key == <<disk.grid, req.robot>>
             kept == DOMAIN req.moves = {} /\ key \notin DOMAIN reachMem
             result == IF DOMAIN req.moves # {} THEN WhatIf(req)
                       ELSE IF key \in DOMAIN reachMem THEN reachMem[key]
                       ELSE ComputeReachability(req.cells, Anchor, req.objects, req.robot.radius)
  <2>1. /\ room' = room /\ scene' = scene /\ disk' = disk /\ cellsMem' = cellsMem
        /\ req.kind = "reach"
        /\ reachMem' = IF kept THEN With(reachMem, key, result) ELSE reachMem
        /\ req' = [kind |-> "answered", available |-> TRUE, robot |-> req.robot,
                   moves |-> req.moves, result |-> result, cells |-> req.cells]
    BY <1>2 DEF AnswerReachability
  <2>2. ComputeReachability(req.cells, Anchor, req.objects, req.robot.radius) = Current(req.robot)
    BY <2>1 DEF Served, Current
  <2>3. ASSUME DOMAIN req.moves = {}, scene.objects = 1 PROVE result = Current(req.robot)
    <3>1. CASE key \in DOMAIN reachMem
      <4>1. key[2] = req.robot
        OBVIOUS
      <4> HIDE DEF key
      <4>2. reachMem[key] = Current(req.robot)
        BY <2>3, <3>1, <4>1 DEF Cached
      <4>3. QED
        BY <2>3, <3>1, <4>2
    <3>2. CASE key \notin DOMAIN reachMem
      BY <2>2, <2>3, <3>2
    <3>3. QED
      BY <3>1, <3>2
  <2> HIDE DEF result
  <2>4. Layer'
    BY <2>1 DEF Layer
  <2>5. Cached'
    <3>1. ASSUME scene.objects = 1, NEW k \in DOMAIN reachMem' PROVE reachMem'[k] = Current(k[2])
      <4>1. CASE kept
        <5>1. key[2] = req.robot /\ result = Current(req.robot)
          BY <2>3, <3>1, <4>1
        <5>2. reachMem' = With(reachMem, key, result)
          BY <2>1, <4>1
        <5> HIDE DEF key
        <5>3. QED
          BY <3>1, <5>1, <5>2 DEF With, Cached
      <4>2. CASE ~kept
        BY <2>1, <3>1, <4>2 DEF Cached
      <4>3. QED
        BY <4>1, <4>2
    <3>2. QED
      BY <2>1, <3>1, SameView DEF Cached
  <2>6. Served'
    <3>1. req.robot \in Robots /\ req.cells = View(req.robot.height)
      BY <2>1 DEF Served
    <3>2. Answered' => result = Current(req.robot)
      BY <2>1, <2>3 DEF Answered
    <3>3. QED
      BY <2>1, <3>1, <3>2, SameView DEF Served
  <2>7. QED
    BY <2>4, <2>5, <2>6
<1>3. ASSUME NEW text, NEW robot \in Robots, NEW from, PostCommand(text, robot, from) PROVE Fresh'
  <2>1. room' = room /\ scene' = scene /\ disk' = disk /\ reachMem' = reachMem
    BY <1>3 DEF PostCommand
  <2>2. /\ req'.kind # "reach" /\ ~(req'.kind = "answered" /\ req'.available)
        /\ cellsMem' = cellsMem \/ (HasLayer /\ cellsMem' = CellsForHeight(robot.height).mem)
    <3>1. CASE HasLayer
      BY <1>3, <3>1 DEF PostCommand
    <3>2. CASE ~HasLayer
      <4>1. req' = [kind |-> "answered", available |-> FALSE] /\ cellsMem' = cellsMem
        BY <1>3, <3>2 DEF PostCommand
      <4>2. QED
        BY <4>1
    <3>3. QED
      BY <3>1, <3>2
  <2>3. \A k \in DOMAIN cellsMem' : cellsMem'[k] = View(k[2])
    BY <1>0, <2>2, CellsAreTheView DEF Cached
  <2>4. Layer'
    BY <2>1, <2>2 DEF Layer
  <2>5. Cached'
    BY <2>1, <2>3, SameView DEF Cached
  <2>6. Served'
    BY <2>2 DEF Served
  <2>7. QED
    BY <2>4, <2>5, <2>6
<1>4. ASSUME NEW parsed \in Texts, ExecuteCommand(parsed) PROVE Fresh'
  <2>1. /\ room' = room /\ scene' = scene /\ disk' = disk /\ reachMem' = reachMem
        /\ cellsMem' = cellsMem /\ req'.kind = "executed"
    BY <1>4 DEF ExecuteCommand
  <2>2. Layer' /\ Served'
    BY <2>1 DEF Layer, Served
  <2>3. Cached'
    BY <2>1, SameView DEF Cached
  <2>4. QED
    BY <2>2, <2>3
<1>5. ASSUME Reply PROVE Fresh'
  <2>1. /\ room' = room /\ scene' = scene /\ disk' = disk /\ reachMem' = reachMem
        /\ cellsMem' = cellsMem /\ req'.kind = "none"
    BY <1>5 DEF Reply, Idle
  <2>2. Layer' /\ Served'
    BY <2>1 DEF Layer, Served
  <2>3. Cached'
    BY <2>1, SameView DEF Cached
  <2>4. QED
    BY <2>2, <2>3
<1>6. ASSUME WriteGrid \/ WriteHeights \/ WriteMeta PROVE Fresh'
  <2>1. /\ room' = room /\ scene' = scene /\ reachMem' = reachMem
        /\ cellsMem' = cellsMem /\ req' = req
    BY <1>6 DEF WriteGrid, WriteHeights, WriteMeta
  <2>2. Layer'
    <3>1. CASE WriteGrid
      <4>1. disk.grid = 0 /\ disk' = [disk EXCEPT !.grid = 1] /\ ~disk.meta
        BY <3>1 DEF WriteGrid, NoRewrite, Layer
      <4>2. QED
        BY <2>1, <4>1 DEF Layer
    <3>2. CASE WriteHeights
      <4>1. disk.grid = 1 /\ disk.heights = 0 /\ disk' = [disk EXCEPT !.heights = 1]
        BY <3>2 DEF WriteHeights, Layer
      <4>2. QED
        BY <2>1, <4>1 DEF Layer
    <3>3. CASE WriteMeta
      <4>1. disk.grid = 1 /\ disk.heights = 1 /\ disk' = [disk EXCEPT !.meta = TRUE]
        BY <3>3 DEF WriteMeta, Layer
      <4>2. QED
        BY <2>1, <4>1 DEF Layer
    <3>4. QED
      BY <1>6, <3>1, <3>2, <3>3
  <2>3. Cached'
    BY <2>1, SameView DEF Cached
  <2>4. Served'
    <3>1. Answered' <=> Answered
      BY <2>1 DEF Answered
    <3>2. QED
      BY <2>1, <3>1, SameView DEF Served
  <2>5. QED
    BY <2>2, <2>3, <2>4
<1>7. ASSUME Rerun PROVE Fresh'
  <2>1. /\ room' = room /\ disk' = disk /\ reachMem' = reachMem /\ cellsMem' = cellsMem /\ req' = req
        /\ scene' = [scene EXCEPT !.objects = 2] /\ scene.objects = 1
        /\ req.kind # "reach" /\ req.kind # "answered"
    BY <1>7 DEF Rerun
  <2>2. Layer' /\ Served'
    BY <2>1 DEF Layer, Served
  <2>3. \A h : View(h)' = View(h)
    BY <2>1 DEF View, HeightsOf
  <2>4. scene'.objects # 1
    BY <2>1 DEF Layer
  <2>5. Cached'
    BY <2>1, <2>3, <2>4 DEF Cached
  <2>6. QED
    BY <2>2, <2>5
<1>8. ASSUME DeleteScene PROVE Fresh'
  <2>1. /\ room' = room /\ reachMem' = << >> /\ cellsMem' = cellsMem /\ req' = req
        /\ disk' = [grid |-> 0, heights |-> 0, meta |-> FALSE]
        /\ scene' = [scene EXCEPT !.there = FALSE] /\ req.kind # "reach" /\ req.kind # "answered"
    BY <1>8 DEF DeleteScene
  <2>2. Layer' /\ Served'
    BY <2>1 DEF Layer, Served
  <2>3. \A h : View(h)' = View(h)
    BY <2>1 DEF View, HeightsOf
  <2>4. Cached'
    BY <2>1, <2>3 DEF Cached
  <2>5. QED
    BY <2>2, <2>4
<1>9. CASE UNCHANGED vars
  <2>1. /\ room' = room /\ scene' = scene /\ disk' = disk /\ reachMem' = reachMem
        /\ cellsMem' = cellsMem /\ req' = req
    BY <1>9 DEF vars
  <2>2. Layer'
    BY <2>1 DEF Layer
  <2>3. Cached'
    BY <2>1, SameView DEF Cached
  <2>4. Answered' <=> Answered
    BY <2>1 DEF Answered
  <2>5. Served'
    BY <2>1, <2>4, SameView DEF Served
  <2>6. QED
    BY <2>2, <2>3, <2>5
<1>10. QED
  BY <1>1, <1>2, <1>3, <1>4, <1>5, <1>6, <1>7, <1>8, <1>9 DEF Next

\* No cache answers for another layer, another robot or a what-if, as long as no backfill
\* runs over a scene that already has a layer.
THEOREM AnswersAreCurrent ==
  ASSUME NoRewrite PROVE Spec => []AnswerIsCurrent
<1>1. Fresh => AnswerIsCurrent
  <2> SUFFICES ASSUME Fresh, Answered
               PROVE  req.result = ComputeReachability(CellsForHeight(req.robot.height).cells, Anchor,
                                                       Keep(ObjectsNow, Whole), req.robot.radius)
    BY DEF AnswerIsCurrent
  <2>1. disk.meta /\ req.result = Current(req.robot)
    BY DEF Fresh, Layer, Served, Answered
  <2>2. CellsForHeight(req.robot.height).cells = View(req.robot.height)
    BY <2>1, CellsAreTheView DEF Fresh
  <2>3. QED
    BY <2>1, <2>2 DEF Current
<1>2. QED
  BY <1>1, FreshInit, FreshStep, PTL DEF Spec

-----------------------------------------------------------------------------
(* No command of sound input stays pending, and no route leaves the cells the robot fits in *)

\* What a command's row may hold: a route exactly if it is done, and then of sound input.
Rows == {row \in [status : {"pending", "done", "failed"}, legs : Seq(Seq(Cells)),
                  by : {"none", "model"}, unfit : BOOLEAN] :
           /\ row.status = "done" <=> row.legs # <<>>
           /\ row.status = "done" => ~row.unfit}

Shaped ==
  /\ room \in Layouts
  /\ disk \in [grid : 0 .. 2, heights : 0 .. 2, meta : BOOLEAN]
  /\ scene \in [there : BOOLEAN, objects : 1 .. 2, start : Int \X Int]
  /\ OnGrid(scene.start)
  /\ \A k \in DOMAIN cellsMem : cellsMem[k] \in Grids
  /\ \A k \in DOMAIN reachMem : reachMem[k].reachable \subseteq Whole
  /\ req.kind = "reach" => /\ req.robot \in Robots /\ req.cells \in Grids
                           /\ req.objects \in [Whole -> Footprints]
  /\ used \in 0 .. MaxRequests

\* Pending: the row of the command being served, which is the last, or one whose input
\* execute_command has no except clause for.
Ledger ==
  /\ rows \in Seq(Rows)
  /\ \A i \in DOMAIN rows : rows[i].status = "pending" =>
       rows[i].unfit \/ (req.kind = "command" /\ i = Len(rows))
  /\ req.kind = "command" => Waiting(req)
  /\ req.kind = "executed" /\ req.saved =>
       rows # <<>> /\ LegsAreClear(Last(rows).legs, CostFor(req))

Settled == Shaped /\ Ledger

LEMMA TriStateTyped ==
  ASSUME room \in Layouts, NEW heights, NEW h PROVE TriState(heights, room.unseen, h) \in Grids
<1>1. room.unseen \subseteq Cells
  BY LayoutsAssumption
<1>2. QED
  BY <1>1 DEF TriState, Grids

LEMMA CellsForHeightTyped ==
  ASSUME Shaped, NEW h
  PROVE  /\ CellsForHeight(h).cells \in Grids
         /\ \A k \in DOMAIN CellsForHeight(h).mem : CellsForHeight(h).mem[k] \in Grids
<1> DEFINE key == <<disk.heights, h>>
           unseen == GridOf(disk.grid).unknown
           derived == TriState(HeightsOf(disk.heights), unseen, h)
<1>1. unseen = room.unseen
  BY DEF GridOf, TriState
<1>2. derived \in Grids /\ GridOf(disk.grid) \in Grids
  BY <1>1, TriStateTyped DEF Shaped, GridOf
<1>3. \/ CellsForHeight(h) = [cells |-> GridOf(disk.grid), mem |-> cellsMem]
      \/ CellsForHeight(h) = [cells |-> derived, mem |-> With(cellsMem, key, derived)]
      \/ key \in DOMAIN cellsMem /\ CellsForHeight(h) = [cells |-> cellsMem[key], mem |-> cellsMem]
  <2>1. CellsForHeight(h) =
          IF disk.heights = 0 THEN [cells |-> GridOf(disk.grid), mem |-> cellsMem]
          ELSE IF key \in DOMAIN cellsMem THEN [cells |-> cellsMem[key], mem |-> cellsMem]
          ELSE [cells |-> derived, mem |-> With(cellsMem, key, derived)]
    BY DEF CellsForHeight
  <2> HIDE DEF key, derived
  <2>2. QED
    BY <2>1
<1> HIDE DEF key, derived
<1>4. \A k \in DOMAIN With(cellsMem, key, derived) : With(cellsMem, key, derived)[k] \in Grids
  BY <1>2 DEF With, Shaped
<1>5. QED
  BY <1>2, <1>3, <1>4 DEF Shaped

LEMMA TranslateTyped ==
  ASSUME NEW fp \in Footprints, NEW d \in Int \X Int PROVE Translate(fp, d) \in Footprints
  BY DEF Translate, Footprints

LEMMA ObjectsTyped ==
  ASSUME Shaped
  PROVE  /\ ObjectsNow \in [ObjectIds -> Footprints]
         /\ Keep(ObjectsNow, Whole) \in [Whole -> Footprints]
<1>1. /\ room.objects \in [ObjectIds -> Footprints] /\ room.shift \in Int \X Int
  BY LayoutsAssumption DEF Shaped, ObjectIds
<1>2. \A o \in ObjectIds : Translate(room.objects[o], room.shift) \in Footprints
  BY <1>1, TranslateTyped
<1>3. ObjectsNow \in [ObjectIds -> Footprints]
  BY <1>1, <1>2 DEF ObjectsNow
<1>4. Whole \subseteq ObjectIds
  BY DEF Whole
<1>5. QED
  BY <1>3, <1>4 DEF Keep

LEMMA AnchorTyped == Shaped => Anchor \in Int \X Int
<1> SUFFICES ASSUME Shaped PROVE Anchor \in Int \X Int
  OBVIOUS
<1> DEFINE centre == CellToWorld(<<W \div 2, H \div 2>>)
           candidates == <<room.camera, scene.start, centre>>
           usable == {i \in 1 .. 3 : ClampAnchor(candidates[i]) # NoCell}
<1>1. room.camera \in Int \X Int /\ scene.start \in Int \X Int
  BY LayoutsAssumption DEF Shaped
<1>2. <<W \div 2, H \div 2>> \in Cells
  BY Sizes DEF Cells
<1>3. centre \in Int \X Int /\ WithinMargin(centre, AnchorMargin)
  <2>1. centre = <<2 * (W \div 2) + 1, 2 * (H \div 2) + 1>>
    BY DEF CellToWorld
  <2>2. W \div 2 \in Nat /\ H \div 2 \in Nat /\ W \div 2 < W /\ H \div 2 < H
    BY Sizes
  <2> HIDE DEF centre
  <2>3. QED
    BY <2>1, <2>2, Sizes DEF WithinMargin
<1>4. ClampAnchor(centre) # NoCell
  BY <1>3, ClampedTyped, NoCellOutside DEF ClampAnchor
<1> HIDE DEF centre
<1>5. 3 \in usable
  BY <1>4
<1>6. usable \subseteq Nat /\ usable # {}
  BY <1>5
<1>7. Min(usable) \in {1, 2, 3}
  <2>1. Min(usable) \in usable
    <3> HIDE DEF usable
    <3>1. QED
      BY <1>6, NatMin
  <2>2. QED
    BY <2>1
<1>8. Anchor = candidates[Min(usable)]
  BY DEF Anchor, centre
<1> HIDE DEF usable
<1>9. QED
  BY <1>1, <1>3, <1>7, <1>8

LEMMA SettledInit == Init => Settled
<1> SUFFICES ASSUME Init PROVE Settled
  OBVIOUS
<1> DEFINE objects == Keep(room.objects, Whole)
           start == ResolveRobotStart(GridOf(1), room.inside, objects, 1)
<1>1. room \in Layouts /\ room.inside \in Int \X Int
  BY LayoutsAssumption DEF Init
<1>2. GridOf(1) \in Grids
  BY <1>1, TriStateTyped DEF GridOf
<1>3. start # NoCell /\ scene = [there |-> TRUE, objects |-> 1, start |-> start]
  BY DEF Init
<1>4. start \in Int \X Int /\ OnGrid(start)
  <2> HIDE DEF objects
  <2>1. 1 \in Nat
    OBVIOUS
  <2>2. QED
    BY <1>1, <1>2, <1>3, <2>1, StartOnGrid
<1> HIDE DEF start
<1>5. disk \in [grid : 0 .. 2, heights : 0 .. 2, meta : BOOLEAN]
  <2>1. \/ disk = [grid |-> 0, heights |-> 0, meta |-> FALSE]
        \/ disk = [grid |-> 1, heights |-> 1, meta |-> TRUE]
    BY DEF Init
  <2>2. CASE disk = [grid |-> 0, heights |-> 0, meta |-> FALSE]
    BY <2>2
  <2>3. CASE disk = [grid |-> 1, heights |-> 1, meta |-> TRUE]
    BY <2>3
  <2>4. QED
    BY <2>1, <2>2, <2>3
<1>6. /\ scene \in [there : BOOLEAN, objects : 1 .. 2, start : Int \X Int] /\ OnGrid(scene.start)
  BY <1>3, <1>4
<1>7. used \in 0 .. MaxRequests
  BY ServiceAssumption DEF Init
<1>8. req.kind = "none" /\ rows = <<>> /\ DOMAIN cellsMem = {} /\ DOMAIN reachMem = {}
  BY DEF Init, Idle
<1>9. Shaped
  BY <1>1, <1>5, <1>6, <1>7, <1>8 DEF Shaped
<1>10. Ledger
  BY <1>8 DEF Ledger
<1>11. QED
  BY <1>9, <1>10 DEF Settled

LEMMA ShapedStep == Shaped /\ [Next]_vars => Shaped'
<1> SUFFICES ASSUME Shaped, [Next]_vars PROVE Shaped'
  OBVIOUS
<1>0. room' = room /\ Whole' = Whole
  BY DEF Next, vars, Reachability, AnswerReachability, PostCommand, ExecuteCommand, Reply,
         WriteGrid, WriteHeights, WriteMeta, Rerun, DeleteScene, Whole, ObjectIds
<1>1. ASSUME NEW robot \in Robots, NEW moves \in Moves, Reachability(robot, moves) PROVE Shaped'
  <2>1. /\ scene' = scene /\ disk' = disk /\ reachMem' = reachMem /\ used' \in 0 .. MaxRequests
    BY <1>1, ServiceAssumption DEF Reachability, NewRequest, Shaped
  <2>2. CASE ~HasLayer
    <3>1. req' = [kind |-> "answered", available |-> FALSE] /\ cellsMem' = cellsMem
      BY <1>1, <2>2 DEF Reachability
    <3>2. QED
      BY <1>0, <2>1, <3>1 DEF Shaped
  <2>3. CASE HasLayer
    <3> DEFINE got == CellsForHeight(robot.height)
    <3>1. /\ req' = [kind |-> "reach", robot |-> robot, moves |-> moves, cells |-> got.cells,
                     objects |-> Keep(ObjectsNow, Whole)]
          /\ cellsMem' = got.mem
      BY <1>1, <2>3 DEF Reachability
    <3>2. got.cells \in Grids /\ \A k \in DOMAIN got.mem : got.mem[k] \in Grids
      BY CellsForHeightTyped
    <3> HIDE DEF got
    <3>3. /\ req'.robot \in Robots /\ req'.cells \in Grids /\ req'.objects \in [Whole -> Footprints]
      BY <3>1, <3>2, ObjectsTyped
    <3>4. QED
      BY <1>0, <2>1, <3>1, <3>2, <3>3 DEF Shaped
  <2>4. QED
    BY <2>2, <2>3
<1>2. ASSUME AnswerReachability PROVE Shaped'
  <2> DEFINE key == <<disk.grid, req.robot>>
             found == ComputeReachability(req.cells, Anchor, req.objects, req.robot.radius)
  <2>1. /\ scene' = scene /\ disk' = disk /\ cellsMem' = cellsMem /\ used' = used
        /\ req.kind = "reach" /\ req'.kind = "answered"
        /\ reachMem' = reachMem \/ reachMem' = With(reachMem, key, found)
    BY <1>2 DEF AnswerReachability
  <2>2. found.reachable \subseteq Whole
    <3>1. /\ req.cells \in Grids /\ req.robot.radius \in Nat /\ Anchor \in Int \X Int
          /\ req.objects \in [Whole -> Footprints]
      BY <2>1, AnchorTyped, RobotsAssumption DEF Shaped
    <3>2. QED
      BY <3>1, Reached
  <2> HIDE DEF key, found
  <2>3. \A k \in DOMAIN reachMem' : reachMem'[k].reachable \subseteq Whole
    BY <2>1, <2>2 DEF With, Shaped
  <2>4. QED
    BY <1>0, <2>1, <2>3 DEF Shaped
<1>3. ASSUME NEW text, NEW robot \in Robots, NEW from, PostCommand(text, robot, from) PROVE Shaped'
  <2>1. /\ scene' = scene /\ disk' = disk /\ reachMem' = reachMem /\ used' \in 0 .. MaxRequests
    BY <1>3, ServiceAssumption DEF PostCommand, NewRequest, Shaped
  <2>2. req'.kind # "reach" /\ cellsMem' \in {cellsMem, CellsForHeight(robot.height).mem}
    <3>1. CASE HasLayer
      BY <1>3, <3>1 DEF PostCommand
    <3>2. CASE ~HasLayer
      BY <1>3, <3>2 DEF PostCommand
    <3>3. QED
      BY <3>1, <3>2
  <2>3. \A k \in DOMAIN cellsMem' : cellsMem'[k] \in Grids
    BY <2>2, CellsForHeightTyped DEF Shaped
  <2>4. QED
    BY <1>0, <2>1, <2>2, <2>3 DEF Shaped
<1>4. ASSUME NEW parsed \in Texts, ExecuteCommand(parsed) PROVE Shaped'
  BY <1>0, <1>4 DEF ExecuteCommand, Shaped
<1>5. ASSUME Reply PROVE Shaped'
  BY <1>0, <1>5 DEF Reply, Idle, Shaped
<1>6. ASSUME WriteGrid \/ WriteHeights \/ WriteMeta PROVE Shaped'
  <2>1. /\ scene' = scene /\ reachMem' = reachMem /\ cellsMem' = cellsMem /\ req' = req /\ used' = used
    BY <1>6 DEF WriteGrid, WriteHeights, WriteMeta
  <2>2. disk' \in [grid : 0 .. 2, heights : 0 .. 2, meta : BOOLEAN]
    <3>1. disk.grid \in 0 .. 2
      BY DEF Shaped
    <3>2. CASE WriteGrid
      <4>1. disk.grid \in {0, 1} /\ disk' = [disk EXCEPT !.grid = disk.grid + 1]
        BY <3>2 DEF WriteGrid
      <4>2. QED
        BY <4>1 DEF Shaped
    <3>3. CASE WriteHeights \/ WriteMeta
      BY <3>1, <3>3 DEF WriteHeights, WriteMeta, Shaped
    <3>4. QED
      BY <1>6, <3>2, <3>3
  <2>3. QED
    BY <1>0, <2>1, <2>2 DEF Shaped
<1>7. ASSUME Rerun PROVE Shaped'
  <2>1. /\ disk' = disk /\ reachMem' = reachMem /\ cellsMem' = cellsMem /\ req' = req /\ used' = used
        /\ scene' = [scene EXCEPT !.objects = 2]
    BY <1>7 DEF Rerun
  <2>2. /\ scene' \in [there : BOOLEAN, objects : 1 .. 2, start : Int \X Int]
        /\ scene'.start = scene.start
    BY <2>1 DEF Shaped
  <2>3. QED
    BY <1>0, <2>1, <2>2 DEF Shaped
<1>8. ASSUME DeleteScene PROVE Shaped'
  <2>1. /\ reachMem' = << >> /\ cellsMem' = cellsMem /\ req' = req /\ used' = used
        /\ disk' = [grid |-> 0, heights |-> 0, meta |-> FALSE]
        /\ scene' = [scene EXCEPT !.there = FALSE]
    BY <1>8 DEF DeleteScene
  <2>2. /\ scene' \in [there : BOOLEAN, objects : 1 .. 2, start : Int \X Int]
        /\ scene'.start = scene.start
    BY <2>1 DEF Shaped
  <2>3. disk' \in [grid : 0 .. 2, heights : 0 .. 2, meta : BOOLEAN] /\ DOMAIN reachMem' = {}
    BY <2>1
  <2>4. QED
    BY <1>0, <2>1, <2>2, <2>3 DEF Shaped
<1>9. CASE UNCHANGED vars
  BY <1>0, <1>9 DEF vars, Shaped
<1>10. QED
  BY <1>1, <1>2, <1>3, <1>4, <1>5, <1>6, <1>7, <1>8, <1>9 DEF Next

LEMMA LedgerStep ==
  Settled /\ [Next]_vars => Ledger'
<1> SUFFICES ASSUME Shaped, Ledger, [Next]_vars PROVE Ledger'
  BY DEF Settled
<1>1. ASSUME NEW robot \in Robots, NEW moves \in Moves, Reachability(robot, moves) PROVE Ledger'
  <2>1. rows' = rows /\ req.kind = "none" /\ req'.kind \in {"reach", "answered"}
    BY <1>1 DEF Reachability, NewRequest
  <2>2. QED
    BY <2>1 DEF Ledger
<1>2. ASSUME AnswerReachability PROVE Ledger'
  <2>1. rows' = rows /\ req.kind = "reach" /\ req'.kind = "answered"
    BY <1>2 DEF AnswerReachability
  <2>2. QED
    BY <2>1 DEF Ledger
<1>3. ASSUME NEW text \in Clicks \union {Typed}, NEW robot \in Robots, NEW from \in Places \union {NoCell},
             PostCommand(text, robot, from)
      PROVE  Ledger'
  <2>1. req.kind = "none"
    BY <1>3 DEF PostCommand, NewRequest
  <2>2. CASE ~HasLayer
    <3>1. req' = [kind |-> "answered", available |-> FALSE] /\ rows' = rows
      BY <1>3, <2>2 DEF PostCommand
    <3>2. QED
      BY <2>1, <3>1 DEF Ledger
  <2>3. CASE HasLayer
    <3> DEFINE got == CellsForHeight(robot.height)
               row == [status |-> "pending", legs |-> <<>>, by |-> "none", unfit |-> FALSE]
               point == IF from = NoCell THEN scene.start ELSE from
    <3>1. /\ rows' = Append(rows, row)
          /\ req' = [kind |-> "command", text |-> text, robot |-> robot, cells |-> got.cells,
                     from |-> point, objects |-> ObjectsNow]
      BY <1>3, <2>3 DEF PostCommand
    <3>2. point \in Int \X Int
      BY ClientsAssumption DEF Shaped
    <3>3. got.cells \in Grids
      BY CellsForHeightTyped
    <3>4. Waiting(req')
      <4>1. ObjectsNow \in [DOMAIN ObjectsNow -> Footprints]
        BY ObjectsTyped
      <4> HIDE DEF got, point
      <4>2. QED
        BY <3>1, <3>2, <3>3, <4>1 DEF Waiting
    <3>5. row \in Rows
      BY DEF Rows
    <3> HIDE DEF row, got, point
    <3>6. rows' \in Seq(Rows) /\ Len(rows') = Len(rows) + 1
      BY <3>1, <3>5 DEF Ledger
    <3>7. \A i \in DOMAIN rows' :
            rows'[i].status = "pending" => rows'[i].unfit \/ i = Len(rows')
      <4>1. ASSUME NEW i \in DOMAIN rows', i # Len(rows'), rows'[i].status = "pending"
            PROVE  rows'[i].unfit
        <5>1. i \in DOMAIN rows /\ rows'[i] = rows[i]
          BY <3>1, <3>5, <4>1 DEF Ledger
        <5>2. QED
          BY <2>1, <4>1, <5>1 DEF Ledger
      <4>2. QED
        BY <4>1
    <3>8. QED
      BY <3>1, <3>4, <3>6, <3>7 DEF Ledger, Waiting
  <2>4. QED
    BY <2>2, <2>3
<1>4. ASSUME NEW parsed \in Texts, ExecuteCommand(parsed) PROVE Ledger'
  <2> DEFINE out == Outcome(req, parsed)
             row == [status |-> out.status, legs |-> out.legs,
                     by |-> IF req.text = Typed THEN "model" ELSE "none",
                     unfit |-> Unfit(parsed, req.from)]
  <2>1. /\ req.kind = "command"
        /\ rows' = IF rows = <<>> THEN rows ELSE [rows EXCEPT ![Len(rows)] = row]
        /\ req' = [kind |-> "executed", parsed |-> parsed, robot |-> req.robot, cells |-> req.cells,
                   objects |-> req.objects, from |-> req.from, why |-> out.why,
                   saved |-> rows # <<>>]
    BY <1>4 DEF ExecuteCommand
  <2>2. /\ out.status \in {"pending", "done", "failed"}
        /\ out.status = "pending" => Unfit(parsed, req.from)
        /\ out.status = "done" => ~Unfit(parsed, req.from)
        /\ out.status = "done" <=> out.legs # <<>>
        /\ LegsAreClear(out.legs, CostFor(req))
    BY <2>1, OutcomeSettled DEF Ledger
  <2>3. CostFor(req') = CostFor(req) /\ req'.kind = "executed" /\ req'.saved = (rows # <<>>)
    BY <2>1 DEF CostFor
  <2> HIDE DEF out
  <2>4. row \in Rows /\ (row.status = "pending" => row.unfit) /\ row.legs = out.legs
    <3>1. Unfit(parsed, req.from) \in BOOLEAN /\ out.legs \in Seq(Seq(Cells))
      BY <2>2 DEF LegsAreClear, Unfit
    <3> DEFINE unfit == Unfit(parsed, req.from)
               by == IF req.text = Typed THEN "model" ELSE "none"
    <3> HIDE DEF unfit
    <3>2. by \in {"none", "model"}
      OBVIOUS
    <3> HIDE DEF by
    <3>3. QED
      BY <2>2, <3>1, <3>2 DEF Rows, unfit, by
  <2> HIDE DEF row
  <2>5. CASE rows = <<>>
    <3>1. rows' = <<>> /\ req'.saved = FALSE
      BY <2>1, <2>3, <2>5
    <3>2. rows' \in Seq(Rows) /\ DOMAIN rows' = {}
      BY <3>1
    <3>3. QED
      BY <2>3, <3>1, <3>2 DEF Ledger
  <2>6. CASE rows # <<>>
    <3>1. rows' = [rows EXCEPT ![Len(rows)] = row] /\ Len(rows) \in DOMAIN rows
      BY <2>1, <2>6 DEF Ledger
    <3>2. /\ rows' \in Seq(Rows) /\ Len(rows') = Len(rows) /\ DOMAIN rows' = DOMAIN rows
          /\ rows'[Len(rows)] = row
          /\ \A i \in DOMAIN rows : i # Len(rows) => rows'[i] = rows[i]
      BY <2>4, <3>1 DEF Ledger
    <3>3. \A i \in DOMAIN rows' : rows'[i].status = "pending" => rows'[i].unfit
      BY <2>4, <3>2 DEF Ledger
    <3>4. rows' # <<>> /\ Last(rows') = row
      BY <2>6, <3>2 DEF Last, Ledger
    <3>5. QED
      BY <2>2, <2>3, <2>4, <3>2, <3>3, <3>4 DEF Ledger
  <2>7. QED
    BY <2>5, <2>6
<1>5. ASSUME Reply PROVE Ledger'
  <2>1. rows' = rows /\ req.kind \in {"answered", "executed"} /\ req'.kind = "none"
    BY <1>5 DEF Reply, Idle
  <2>2. QED
    BY <2>1 DEF Ledger
<1>6. ASSUME WriteGrid \/ WriteHeights \/ WriteMeta \/ Rerun \/ UNCHANGED vars PROVE Ledger'
  <2>1. rows' = rows /\ req' = req
    BY <1>6 DEF WriteGrid, WriteHeights, WriteMeta, Rerun, vars
  <2>2. QED
    BY <2>1 DEF Ledger
<1>7. ASSUME DeleteScene PROVE Ledger'
  <2>1. rows' = <<>> /\ req' = req /\ req.kind # "executed"
    BY <1>7 DEF DeleteScene
  <2>2. rows' \in Seq(Rows) /\ DOMAIN rows' = {}
    BY <2>1
  <2>3. QED
    BY <2>1, <2>2 DEF Ledger
<1>8. QED
  BY <1>1, <1>2, <1>3, <1>4, <1>5, <1>6, <1>7 DEF Next

LEMMA AlwaysSettled ==
  Spec => []Settled
<1>1. Settled /\ [Next]_vars => Settled'
  BY ShapedStep, LedgerStep DEF Settled
<1>2. QED
  BY <1>1, SettledInit, PTL DEF Spec

\* What is kept between requests has its shape: the robot start is a point near the grid, a
\* cached height is a grid, a cached answer names objects of the scene.
THEOREM ShapeKept ==
  Spec => []TypeOK
<1>1. Settled => TypeOK
  <2> SUFFICES ASSUME Settled PROVE TypeOK
    OBVIOUS
  <2> DEFINE p == scene.start
  <2>1. p \in Int \X Int /\ (CellOf(p) \in Cells \/ WithinMargin(p, 4))
    BY DEF Settled, Shaped, OnGrid, WorldToCell
  <2> HIDE DEF p
  <2>2. p[1] \in Int /\ p[2] \in Int /\ p = <<p[1], p[2]>>
    BY <2>1
  <2>3. p[1] \in -8 .. 2 * W + 8 /\ p[2] \in -8 .. 2 * H + 8
    <3>1. CASE CellOf(p) \in Cells
      <4>1. p[1] \div 2 \in 0 .. W - 1 /\ p[2] \div 2 \in 0 .. H - 1
        BY <3>1 DEF CellOf, Cells
      <4>2. QED
        BY <2>2, <4>1, Sizes
    <3>2. CASE WithinMargin(p, 4)
      BY <2>2, <3>2, Sizes DEF WithinMargin
    <3>3. QED
      BY <2>1, <3>1, <3>2
  <2>4. p \in Points
    BY <2>2, <2>3 DEF Points
  <2>5. scene \in [there : BOOLEAN, objects : 1 .. 2, start : Points]
    BY <2>4 DEF Settled, Shaped, p
  <2>6. \A i \in DOMAIN rows : rows[i].status \in {"pending", "done", "failed"}
    <3>1. \A row \in Rows : row.status \in {"pending", "done", "failed"}
      BY DEF Rows
    <3> HIDE DEF Rows
    <3>2. QED
      BY <3>1 DEF Settled, Ledger
  <2>7. QED
    BY <2>5, <2>6 DEF Settled, Shaped, TypeOK
<1>2. QED
  BY <1>1, AlwaysSettled, PTL

\* Once its request is over a command is done with its route or has none, and is left
\* pending only by a malformed answer of the model or a start off the grid.
THEOREM CommandsRecorded ==
  Spec => []CommandRecorded
<1>1. Settled => CommandRecorded
  <2>1. \A row \in Rows : /\ row.status = "done" <=> row.legs # <<>>
                          /\ row.status = "done" => ~row.unfit
    BY DEF Rows
  <2> HIDE DEF Rows
  <2>2. QED
    BY <2>1 DEF Settled, Ledger, CommandRecorded
<1>2. QED
  BY <1>1, AlwaysSettled, PTL

\* An answer lists an object as reachable exactly when a goto from the start it reports
\* finds a route to it.
THEOREM ReachableIsRoutable ==
  ASSUME NoRewrite PROVE Spec => []ReachableMeansRoutable
<1>1. Settled /\ Fresh => ReachableMeansRoutable
  <2> SUFFICES ASSUME Shaped, Fresh, Answered, OnGrid(req.result.start.point), NEW o \in Whole
               PROVE  (o \in req.result.reachable) <=>
                        PlanToObject(req.cells, req.result.start.point, ObjectsNow[o],
                                     req.robot.radius, Range(Keep(ObjectsNow, Whole))).ok
    BY DEF ReachableMeansRoutable, Settled
  <2> DEFINE objs == Keep(ObjectsNow, Whole)
  <2>1. /\ req.robot.radius \in Nat /\ req.cells = View(req.robot.height)
        /\ req.result = Current(req.robot)
    BY RobotsAssumption DEF Fresh, Served, Answered
  <2>2. req.cells \in Grids /\ Anchor \in Int \X Int /\ objs \in [Whole -> Footprints]
    BY <2>1, TriStateTyped, AnchorTyped, ObjectsTyped DEF View, Shaped
  <2>3. req.result = ComputeReachability(req.cells, Anchor, objs, req.robot.radius)
    BY <2>1 DEF Current
  <2>4. objs[o] = ObjectsNow[o]
    BY DEF Keep
  <2> HIDE DEF objs
  <2>5. (o \in req.result.reachable) <=>
          PlanToObject(req.cells, req.result.start.point, objs[o], req.robot.radius, Range(objs)).ok
    BY <2>1, <2>2, <2>3, Reached
  <2>6. QED
    BY <2>4, <2>5 DEF objs
<1>2. QED
  BY <1>1, AlwaysSettled, FreshInit, FreshStep, PTL DEF Spec

\* No route of an answer or of a recorded command crosses a cell the robot does not fit in.
THEOREM RoutesKeepClear ==
  ASSUME NoRewrite PROVE Spec => []RoutesAreClear
<1>1. Settled /\ Fresh => RoutesAreClear
  <2> SUFFICES ASSUME Settled, Fresh PROVE RoutesAreClear
    OBVIOUS
  <2>1. ASSUME Answered, NEW o \in req.result.reachable
        PROVE  RouteCells(req.result.routes[o])
                 \intersect (CellsForHeight(req.robot.height).cells.obstacle
                              \union Inflate(Rasterize(req.cells, Range(Keep(ObjectsNow, Whole))),
                                             req.robot.radius).obstacle) = {}
    <3> DEFINE objs == Keep(ObjectsNow, Whole)
               inflated == Inflate(Rasterize(req.cells, Range(objs)), req.robot.radius)
    <3>1. /\ req.robot.radius \in Nat /\ req.cells = View(req.robot.height)
          /\ req.result = Current(req.robot) /\ disk.meta
      BY <2>1, RobotsAssumption DEF Fresh, Layer, Served, Answered
    <3>2. req.cells \in Grids /\ Anchor \in Int \X Int /\ objs \in [Whole -> Footprints]
      BY <3>1, TriStateTyped, AnchorTyped, ObjectsTyped DEF View, Settled, Shaped
    <3>3. req.result = ComputeReachability(req.cells, Anchor, objs, req.robot.radius)
      BY <3>1 DEF Current
    <3>4. CellsForHeight(req.robot.height).cells = req.cells
      BY <3>1, CellsAreTheView DEF Fresh
    <3>5. req.cells.obstacle \subseteq inflated.obstacle
      BY DEF Inflate, Rasterize, Block
    <3> DEFINE cost == CostOf(Rasterize(req.cells, Range(objs)), req.robot.radius)
    <3>6. cost.open \intersect inflated.obstacle = {}
      BY DEF CostOf, CostGrid
    <3> HIDE DEF objs, inflated
    <3>7. RouteCells(req.result.routes[o]) \subseteq cost.open
      BY <2>1, <3>1, <3>2, <3>3, Reached
    <3> HIDE DEF cost
    <3>8. RouteCells(req.result.routes[o])
            \intersect (CellsForHeight(req.robot.height).cells.obstacle \union inflated.obstacle) = {}
      BY <3>4, <3>5, <3>6, <3>7
    <3>9. QED
      BY <3>8 DEF inflated, objs
  <2>2. ASSUME req.kind = "executed" /\ req.saved, NEW leg \in Range(Last(rows).legs)
        PROVE  RouteCells(leg)
                 \intersect Inflate(Rasterize(req.cells, Range(req.objects)), req.robot.radius).obstacle = {}
    <3>1. RouteCells(leg) \subseteq CostFor(req).open
      BY <2>2 DEF Settled, Ledger, LegsAreClear
    <3>2. QED
      BY <3>1 DEF CostFor, CostOf, CostGrid
  <2>3. QED
    BY <2>1, <2>2 DEF RoutesAreClear
<1>2. QED
  BY <1>1, AlwaysSettled, FreshInit, FreshStep, PTL DEF Spec

-----------------------------------------------------------------------------
(* The rectangular robot *)

LEMMA PosesFit ==
  ASSUME NEW cost, NEW len \in Nat, NEW wid \in Nat
  PROVE  /\ PosesFree(cost, len, wid) \subseteq Cells \X Headings
         /\ \A p \in PosesFree(cost, len, wid) : p[1] \in cost.open
<1> DEFINE Free(k) == {c \in Cells : \A d \in FootprintOffsets(len, wid, k) :
                                       Passable(cost, <<c[1] + d[1], c[2] + d[2]>>)}
<1>1. PosesFree(cost, len, wid) = UNION {{<<c, k>> : c \in Free(k)} : k \in Headings}
  BY DEF PosesFree
<1>2. ASSUME NEW k \in Headings PROVE <<0, 0>> \in FootprintOffsets(len, wid, k)
  <2> DEFINE r == CeilHalf(len + wid) + 1
  <2>1. r \in Nat
    BY DEF CeilHalf
  <2>2. 0 \in -r .. r
    BY <2>1
  <2>3. Abs(0) = 0
    BY DEF Abs
  <2> HIDE DEF r
  <2>4. QED
    BY <2>2, <2>3 DEF FootprintOffsets, r
<1>3. ASSUME NEW k \in Headings, NEW c \in Free(k) PROVE c \in Cells /\ c \in cost.open
  <2>1. Passable(cost, <<c[1] + 0, c[2] + 0>>)
    BY <1>2
  <2>2. c \in Cells /\ c[1] \in Int /\ c[2] \in Int /\ c = <<c[1], c[2]>>
    BY CellTyped
  <2>3. QED
    BY <2>1, <2>2 DEF Passable
<1> HIDE DEF Free
<1>4. \A p \in PosesFree(cost, len, wid) : \E k \in Headings : \E c \in Free(k) : p = <<c, k>>
  BY <1>1
<1>5. QED
  BY <1>3, <1>4

\* What the flood at one heading reaches, the search over headings does.
LEMMA FixedHeadingInSe2 ==
  ASSUME NEW cost, NEW fits, fits \subseteq Cells \X Headings, \A p \in fits : p[1] \in cost.open,
         NEW start, NEW k \in Headings, NEW goal \in FixedHeadingComponents(fits, start)[k]
  PROVE  <<start, k>> \in fits /\ <<goal, k>> \in Se2Flood(cost, fits, <<start, k>>)
<1> DEFINE from == <<start, k>>
           held == [open |-> {c \in Cells : <<c, k>> \in fits}, dear |-> {}]
           near == [p \in fits |-> Se2Neighbors(cost, fits, p)]
           S == {c \in Cells : <<c, k>> \in Flood(near, from)}
<1>1. goal \in Component(held, start)
  BY DEF FixedHeadingComponents
<1>2. held \in CostGrids /\ held.open = {c \in Cells : <<c, k>> \in fits}
  BY DEF CostGrids
<1> HIDE DEF held
<1>3. start \in held.open
  BY <1>1, <1>2, ComponentOfBlocked
<1>4. from \in fits
  BY <1>2, <1>3
<1>5. IsFiniteSet(fits)
  <2>1. IsFiniteSet(Headings)
    <3>1. 0 \in Int /\ 3 \in Int
      OBVIOUS
    <3>2. IsFiniteSet(0 .. 3)
      BY <3>1, FS_Interval
    <3>3. QED
      BY <3>2 DEF Headings
  <2>2. IsFiniteSet(Cells \X Headings)
    BY <2>1, CellsFinite, FS_Product
  <2>3. QED
    BY <2>2, FS_Subset
<1>6. near \in [fits -> SUBSET fits]
  BY DEF Se2Neighbors
<1>7. from \in Flood(near, from) /\ Flood(near, from) \subseteq fits
      /\ \A x \in Flood(near, from) : near[x] \subseteq Flood(near, from)
  <2> HIDE DEF near
  <2>1. QED
    BY <1>4, <1>5, <1>6, FloodIsClosure
<1>8. start \in S
  BY <1>2, <1>3, <1>7
<1>9. ASSUME NEW x \in S, NEW n \in Neighbors8(held, x) PROVE n \in S
  <2>1. n \in held.open /\ n \in Cells /\ <<n, k>> \in fits
    BY <1>2, NeighborsOpen
  <2>2. held.open \subseteq cost.open
    BY <1>2
  <2>3. n \in Neighbors8(cost, x)
    BY <2>2 DEF Neighbors8, Passable
  <2>4. <<x, k>> \in fits /\ <<x, k>> \in Flood(near, from)
    <3> HIDE DEF near
    <3>1. QED
      BY <1>7
  <2>5. <<n, k>> \in near[<<x, k>>]
    BY <2>1, <2>3, <2>4 DEF Se2Neighbors
  <2> HIDE DEF near
  <2>6. QED
    BY <1>7, <2>1, <2>4, <2>5
<1>10. Component(held, start) \subseteq S
  <2>1. \A x \in S \intersect held.open : Neighbors8(held, x) \subseteq S
    <3> HIDE DEF S
    <3>1. QED
      BY <1>9
  <2> HIDE DEF S
  <2>2. QED
    BY <1>2, <1>3, <1>8, <2>1, ComponentIsClosure
<1>11. <<goal, k>> \in Flood(near, from)
  BY <1>1, <1>10
<1>12. QED
  BY <1>4, <1>11 DEF Se2Flood

LEMMA RectangleReached ==
  ASSUME NEW cells, NEW from, NEW points, NEW len \in Nat, NEW wid \in Nat, NEW o \in DOMAIN points
  PROVE  LET cost == CostGrid(cells)
             fits == PosesFree(cost, len, wid)
             found == FootprintReachability(cells, from, points, len, wid)
         IN \A k \in found[o].headings :
              <<found[o].start, k>> \in fits /\ <<found[o].goal, k>> \in Se2Flood(cost, fits, <<found[o].start, k>>)
<1> DEFINE cost == CostGrid(cells)
           fits == PosesFree(cost, len, wid)
           found == FootprintReachability(cells, from, points, len, wid)
           given == WorldToCell(from)
           start == IF given = NoCell THEN NoCell ELSE NearestFitting(fits, given, 12)
           comps == FixedHeadingComponents(fits, start)
           at == WorldToCell(points[o])
           goal == IF at = NoCell THEN NoCell ELSE NearestFitting(fits, at, Snap)
           hs == {k \in Headings : goal \in comps[k]}
           Fails(why) == [level |-> why, headings |-> {}, goal |-> NoCell, start |-> start]
<1>1. found[o] = IF given = NoCell THEN Fails("outside_grid")
                 ELSE IF start = NoCell THEN Fails("robot_does_not_fit")
                 ELSE IF at = NoCell THEN Fails("outside_grid")
                 ELSE IF goal = NoCell THEN Fails("robot_does_not_fit")
                 ELSE IF hs = {} THEN Fails("disconnected")
                 ELSE [level |-> IF hs = Headings THEN "any_orientation" ELSE "requires_alignment",
                       headings |-> hs, goal |-> goal, start |-> start]
  BY DEF FootprintReachability
<1>2. fits \subseteq Cells \X Headings /\ \A p \in fits : p[1] \in cost.open
  BY PosesFit
<1> HIDE DEF fits, cost, start, goal, given, at
<1>3. ASSUME NEW k \in hs PROVE <<start, k>> \in fits /\ <<goal, k>> \in Se2Flood(cost, fits, <<start, k>>)
  BY <1>2, FixedHeadingInSe2
<1>4. \/ found[o].headings = {}
      \/ found[o].headings = hs /\ found[o].goal = goal /\ found[o].start = start
  <2> HIDE DEF found, hs
  <2>1. QED
    BY <1>1
<1> HIDE DEF found, hs
<1>5. QED
  BY <1>3, <1>4 DEF found, fits, cost

-----------------------------------------------------------------------------
(* The footprints and the search of a run *)

(* Whatever the fixed-heading flood of footprint.py reports reachable, the search over
   headings reaches from that heading, in every room and for every set of points. *)
THEOREM RectangleErrsSafely == Spec => []RectangleIsSound
<1>1. RectangleIsSound
  <2>1. 4 \in Nat /\ 1 \in Nat
    OBVIOUS
  <2> DEFINE cells == TriState(room.heights, room.unseen, 1)
             found == FootprintReachability(cells, room.camera, room.points, 4, 1)
  <2>2. DOMAIN found = DOMAIN room.points
    BY DEF FootprintReachability
  <2> HIDE DEF found, cells
  <2>3. ASSUME NEW o \in DOMAIN room.points, NEW k \in found[o].headings
        PROVE  /\ <<found[o].start, k>> \in PosesFree(CostGrid(cells), 4, 1)
               /\ <<found[o].goal, k>> \in Se2Flood(CostGrid(cells), PosesFree(CostGrid(cells), 4, 1), <<found[o].start, k>>)
    BY <2>1, RectangleReached DEF found
  <2>4. QED
    BY <2>2, <2>3 DEF RectangleIsSound, found, cells
<1>2. QED
  BY <1>1, PTL

(* Whatever the room's grid and the robot, and wherever the start: A* finds a route exactly to
   the cells of the start's component, none cheaper, and smoothing keeps it on cells the
   robot may enter. *)
THEOREM AstarIsRight == Spec => []AstarFindsCheapest
<1>1. CornerGrids \subseteq CostGrids
  BY DEF CornerGrids, CostGrids
<1>2. RoomGrids \subseteq CostGrids
  <2>1. ASSUME NEW r \in Layouts, NEW robot \in Robots
        PROVE  CostGrid(Inflate(TriState(r.heights, r.unseen, robot.height), robot.radius)) \in CostGrids
    <3>1. r.unseen \subseteq Cells
      BY LayoutsAssumption
    <3>2. QED
      BY <3>1 DEF CostGrid, Inflate, TriState, Block, CostGrids
  <2>2. QED
    BY <2>1 DEF RoomGrids
<1>3. SearchedRight
  BY <1>1, <1>2, RegionsPart, SearchRight DEF SearchedRight
<1>4. AstarFindsCheapest
  BY <1>3 DEF AstarFindsCheapest
<1>5. QED
  BY <1>4, PTL
=============================================================================
