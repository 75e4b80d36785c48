---------------------------- MODULE MCPlanService ----------------------------
(* PlanService in rooms of seven by six cells: two objects, a wall with or without a way
   round, something a low robot drives under, and ground nobody saw. *)
EXTENDS PlanService

Box(x, z) == [x0 |-> 2 * x, z0 |-> 2 * z, x1 |-> 2 * x + 2, z1 |-> 2 * z + 2]
Corners == [lamp |-> Box(0, 5), sofa |-> Box(6, 5)]
InTheWall == [lamp |-> Box(6, 5), sofa |-> Box(2, 2)]

Room(low, high, unseen, fragments, camera, inside, objects) ==
  [heights |-> [c \in Cells |-> IF c \in low THEN 1 ELSE IF c \in high THEN 2 ELSE 0],
   unseen |-> unseen, objects |-> objects, fragments |-> fragments,
   camera |-> camera, inside |-> inside,
   gone |-> <<3, 3>>, shift |-> <<-2, 0>>,
   points |-> [o \in DOMAIN objects |-> <<objects[o].x0 + 1, objects[o].z0 + 1>>]]

Fin == {<<3, 2>>, <<3, 3>>, <<3, 4>>, <<3, 5>>}
Wall == {<<2, z>> : z \in 0 .. 5}
Table2 == {<<4, 3>>, <<4, 2>>}
Inner == <<3, 1>>
Doorway == <<-3, 5>>
Hallway == <<-5, 5>>

Rooms == {Room(Fin, Table2, {<<4, 2>>}, {}, Doorway, Doorway, Corners),
          Room(Wall, {}, {}, {}, Inner, Inner, InTheWall),
          Room({}, Table2, {}, {}, Hallway, Doorway, Corners)}

Small == [radius |-> 1, height |-> 1]
Tall == [radius |-> 3, height |-> 2]
MCRobots == {Small, Tall}

MCMoves == {<< >>, [sofa |-> <<-4, -6>>]}
(* Far off the grid. *)
MCPlaces == {<<-30, 0>>}
MCTexts ==
  {[action |-> "goto", target |-> "sofa", destination |-> "none"],
   [action |-> "take", target |-> "lamp", destination |-> "sofa"],
   [action |-> "take", target |-> "lamp", destination |-> "none"],
   [action |-> "goto", target |-> "ghost", destination |-> "none"],
   [action |-> "goto", target |-> NotAName, destination |-> "none"],
   [action |-> "take", target |-> "lamp", destination |-> NotAName],
   [action |-> "error", why |-> "not_connected"],
   [action |-> "error", why |-> "raised"]}

SafeFaults == {"delete", "rerun"}
=============================================================================
