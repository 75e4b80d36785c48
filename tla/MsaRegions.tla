----------------------------- MODULE MsaRegions -----------------------------
(***************************************************************************)
(* What scripts/msa/geometry.py asks of ndimage, on a small grid: the      *)
(* connected pieces of a set of cells, and what a box's corner reaches     *)
(* round one.  MsaBootstrap takes both as parameters.                      *)
(***************************************************************************)
EXTENDS Integers

Touching(c) == (c[1] - 1 .. c[1] + 1) \X (c[2] - 1 .. c[2] + 1)
Beside(c) == {<<c[1] + 1, c[2]>>, <<c[1] - 1, c[2]>>, <<c[1], c[2] + 1>>, <<c[1], c[2] - 1>>}

RECURSIVE Grow(_, _, _)
Grow(S, seen, frontier) ==
  LET next == (UNION {Touching(c) : c \in frontier} \intersect S) \ seen
  IN IF next = {} THEN seen ELSE Grow(S, seen \union next, next)

RECURSIVE Pieces(_)
Pieces(S) ==
  IF S = {} THEN {}
  ELSE LET c == CHOOSE c \in S : TRUE
           piece == Grow(S, {c}, {c})
       IN {piece} \union Pieces(S \ piece)

RECURSIVE Flow(_, _, _)
Flow(S, box, seen) ==
  LET next == (UNION {Beside(c) : c \in seen} \intersect box) \ (S \union seen)
  IN IF next = {} THEN seen ELSE Flow(S, box, seen \union next)

FlowIn(S, box) ==
  Flow(S, box, {CHOOSE c \in box : \A d \in box : c[1] <= d[1] /\ c[2] <= d[2]})
=============================================================================
