------------------------------ MODULE MCStudio ------------------------------
(***************************************************************************)
(* Instances of the Studio's components small enough to explore, and what  *)
(* ndimage computes.                                                       *)
(***************************************************************************)
EXTENDS Studio, MsaRegions, TLC

(* A hall with stacked, floating, overlapping and clipped objects, a bare room without free
   cells, and a grid that is indexed the wrong way round. *)
Block(x1, x2, z1, z2) == (x1 .. x2) \X (z1 .. z2)
Thing(i, l, c, b, t, p) ==
  [id |-> i, label |-> l, cells |-> c, hull |-> c, bottom |-> b, top |-> t, points |-> p]
Hall ==
  [obstacle |-> Block(0, 9, 0, 0) \cup {<<0, 2>>} \cup Block(0, 0, 4, 6) \cup Block(9, 9, 2, 7),
   free |-> Block(1, 8, 1, 6), framed |-> TRUE, floor |-> 0,
   objects |-> {
     Thing(1, "chair", Block(2, 2, 1, 2), 0, 3, 4), Thing(2, "chair", Block(2, 3, 1, 2), 0, 4, 9),
     Thing(3, "lamp", Block(2, 3, 2, 2), 4, 5, 2), Thing(4, "lamp", Block(4, 4, 3, 3), 9, 9, 2),
     Thing(5, "table", Block(6, 7, 3, 4), 1, 3, 7), Thing(6, "cup", Block(6, 6, 4, 4), 3, 4, 1),
     Thing(7, "sofa", Block(4, 5, 7, 8), 3, 4, 3), Thing(8, "table", Block(2, 3, 6, 7), 0, 3, 3),
     Thing(9, "vase", Block(4, 4, 4, 5), 4, 7, 3), Thing(10, "cup", Block(6, 6, 6, 6), 0, 1, 1)}]
Bare == [Hall EXCEPT !.free = {}, !.obstacle = {<<3, 3>>}]
Swapped == [Hall EXCEPT !.framed = FALSE]

(* A room with three walls, a turned bed and a lamp in two pieces; an export without a room. *)
Bed == [id |-> "bed_0", label |-> "bed", long |-> TRUE, angle |-> 20, size |-> 25, span |-> 25,
        height |-> 5, split |-> FALSE, at |-> <<3, 3>>, hull |-> <<3, 3>>]
Lamp == [id |-> "lamp_0", label |-> "lamp", long |-> FALSE, angle |-> 0, size |-> 3, span |-> 3,
         height |-> 20, split |-> TRUE, at |-> <<30, 3>>, hull |-> <<30, 3>>]
Edge(a, b, dir) == [a |-> a, b |-> b, dir |-> dir]
Furnished ==
  [room |-> {Edge(<<0, 0>>, <<20, 0>>, 0), Edge(<<0, 0>>, <<0, 10>>, 90), Edge(<<0, 10>>, <<20, 10>>, 0)},
   walls |-> {}, objects |-> {Bed, Lamp}, support |-> {"bed_0"}, meshes |-> [bed_0 |-> 40]]
NoRoom == [room |-> None, walls |-> {Edge(<<0, 0>>, <<20, 0>>, 60)}, objects |-> {Bed},
           support |-> {"bed_0"}, meshes |-> << >>]
Findings == {
  [source |-> "vlm", unverified |-> TRUE, region |-> {"bed"}, issue |-> "yaw_vs_wall"],
  [source |-> "rule", unverified |-> FALSE, region |-> {"lamp_0"}, issue |-> "none"]}

(* Views that agree, one that adds a ghost nobody else saw, one half of it, one upside down,
   one that is blurred and one without a ceiling. *)
Point(x, z, y, c, l) == [v |-> 0, at |-> <<x, z>>, y |-> y, conf |-> c, label |-> l]
Plane(y, depth) == {Point(x, z, y, 9, "none") : x \in 1 .. 3, z \in 1 .. depth}
View(extra) ==
  [wellFormed |-> TRUE, pixels |-> 20, front |-> 100, median |-> 0, p95 |-> 2, cam |-> 4,
   points |-> Plane(0, 2) \cup Plane(8, 1) \cup extra]
Desk == {Point(1, 1, 2, 9, "desk"), Point(1, 1, 3, 9, "desk"), Point(1, 2, 2, 8, "desk"),
         Point(1, 2, 3, 8, "desk")}
Ghost == {Point(3, z, y, 9, "none") : z \in 1 .. 2, y \in 2 .. 3}
Half == {Point(3, 1, 2, 9, "none"), Point(3, 1, 3, 9, "none"), Point(9, 9, 2, 1, "none")}
Blurred == [View({}) EXCEPT !.median = 20]
Open == [View({}) EXCEPT !.points = Plane(0, 2)]
Upturned(v) == [v EXCEPT !.points = {[p EXCEPT !.y = 8 - @] : p \in v.points}]
Words == {[name |-> "desk", size |-> "tiny"], [name |-> "none", size |-> "small"]}
Attempt ==
  [views |-> <<View(Desk), View(Desk \cup Ghost), View(Half), View({})>>, override |-> {},
   provider |-> "vertex", vertex |-> None, openrouter |-> Words, filter |-> TRUE]
Attempts == {
  Attempt,
  [Attempt EXCEPT !.views = <<Upturned(View(Desk)), Blurred, Upturned(View({}))>>, !.vertex = Words],
  [Attempt EXCEPT !.views = <<View({}), View({})>>, !.provider = "openrouter"],
  [Attempt EXCEPT !.override = Words, !.filter = FALSE,
                  !.views = <<View({}), View(Ghost), [View({}) EXCEPT !.front = 3]>>],
  [Attempt EXCEPT !.openrouter = {}],
  [Attempt EXCEPT !.views = <<Open, Open, Open>>]}

ProjectNames == <<[form |-> "canonical", marked |-> FALSE], [form |-> "numbered", marked |-> FALSE],
                  [form |-> "numbered", marked |-> TRUE]>>

(* A desk with two candidates, a cup of a class of its own, a vase no view shows. *)
Furniture == {
  [id |-> "desk_1", key |-> "desk", tail |-> None, size |-> <<120, 75, 60>>, loc |-> "generated/desk_1"],
  [id |-> "cup_1", key |-> "tea cup", tail |-> "cup", size |-> <<8, 10, 8>>, loc |-> "generated/cup_1"],
  [id |-> "vase_1", key |-> "vase", tail |-> None, size |-> <<90, 30, 20>>, loc |-> "generated/vase_1"]}
Sightings ==
  [desk_1 |-> {[view |-> 1, u |-> 50, npix |-> 500], [view |-> 2, u |-> 90, npix |-> 900]},
   cup_1 |-> {[view |-> 1, u |-> 300, npix |-> 400], [view |-> 2, u |-> 12, npix |-> 20]}, vase_1 |-> {}]
Projections == [desk_1 |-> <<60, None>>, cup_1 |-> <<20, 12>>, vase_1 |-> <<0, 0>>]
Library == {"kenney/table", "polyhaven/desk", "gso/cup"}
File(source, cls, tier, loc) == [source |-> source, cls |-> cls, tier |-> tier, loc |-> loc]
Listing == ("kenney/table" :> File("kenney", "table", "furniture", "kenney/table"))
  @@ ("polyhaven/desk" :> File("polyhaven", "desk", "furniture", "polyhaven/desk"))
  @@ ("gso/cup" :> File("gso", "cup", "small", "gso/cup"))
Extents == ("kenney/table" :> <<<<80, 80, 80>>, <<160, 70, 80>>>>)
  @@ ("polyhaven/desk" :> <<<<60, 75, 140>>, <<120, 70, 60>>>>)
  @@ ("gso/cup" :> <<<<8, 9, 8>>, <<9, 9, 9>>>>)

(* Two runs of a scene: names that sanitize alike, a fragment, a degenerate cloud. *)
Seen(n, f, fr, lo, m) == [name |-> n, file |-> f, fragment |-> fr, low |-> lo, mesh |-> m]
Mesh(n, f, s) == [n |-> n, full |-> f, subs |-> s]
FirstScan ==
  [id |-> 1, ceiling |-> 26, cloud |-> [parses |-> TRUE, n |-> 9, voxels |-> <<5, 3>>], grid |-> "g1",
   objects |-> <<Seen("tea cup", 1, FALSE, 3, Mesh(9, 6, <<>>)),
                 Seen("tea_cup", 2, FALSE, 3, Mesh(99, 12, <<11, 7, 5>>)),
                 Seen("tea_cup", 3, TRUE, 0, Mesh(3, 0, <<>>))>>]
SecondScan ==
  [id |-> 2, ceiling |-> 26, cloud |-> [parses |-> TRUE, n |-> 0, voxels |-> <<>>], grid |-> "g2",
   objects |-> <<Seen("lamp", 1, FALSE, 20, Mesh(50, 8, <<>>)),
                 Seen("mug", 2, FALSE, 0, Mesh(99, 12, <<11, 0, 0>>))>>]
OneLayer ==
  [low |-> [c \in (0 .. 2) \X (0 .. 2) |-> <<<<1, 1, 2>>, <<1, 1, 0>>, <<1, 0, 2>>>>[c[2] + 1][c[1] + 1]],
   unseen |-> {<<2, 2>>}]
PrimNames == ("tea cup" :> "tea_cup") @@ ("tea_cup" :> "tea_cup") @@ ("lamp" :> "lamp") @@ ("mug" :> "mug")
NvbloxPacks ==
  <<[our |-> "g1", frontend |-> "g2", arrays |-> [our |-> "torn", frontend |-> "whole"]],
    [our |-> "g9", frontend |-> "g2", arrays |-> [our |-> "whole", frontend |-> "whole"]]>>

(* Good and broken stages, whole and incomplete Isaac builds, lax and strict command lines. *)
Prim(a, e, s) == [api |-> a, extent |-> e, shape |-> s]
Good ==
  [opens |-> TRUE, conventions |-> TRUE, floor |-> TRUE, overlap |-> TRUE, masses |-> {},
   badScale |-> FALSE, over |-> TRUE, prims |-> {Prim(TRUE, TRUE, TRUE)}, sunk |-> FALSE,
   movers |-> {"ejected"}]
Stages == {
  None, Good, [Good EXCEPT !.opens = FALSE], [Good EXCEPT !.floor = FALSE],
  [Good EXCEPT !.prims = {Prim(TRUE, TRUE, FALSE)}, !.masses = {1}, !.overlap = None],
  [Good EXCEPT !.masses = {0}, !.overlap = FALSE]}
Whole == [sim |-> TRUE, modules |-> TRUE, cook |-> TRUE, overlapBox |-> TRUE, world |-> TRUE, log |-> TRUE]
Installed == {
  Whole, [Whole EXCEPT !.sim = FALSE], [Whole EXCEPT !.modules = FALSE], [Whole EXCEPT !.cook = FALSE],
  [Whole EXCEPT !.overlapBox = FALSE, !.log = FALSE], [Whole EXCEPT !.world = FALSE]}
Plain == [usdOnly |-> FALSE, check |-> "overlap", strict |-> FALSE, gpu |-> FALSE, dynamics |-> TRUE,
          failOnEjected |-> FALSE, allowWarnings |-> FALSE]
CommandLines == {
  Plain, [Plain EXCEPT !.usdOnly = TRUE],
  [Plain EXCEPT !.strict = TRUE, !.check = "usd-api", !.failOnEjected = TRUE],
  [Plain EXCEPT !.gpu = TRUE, !.check = "none", !.dynamics = FALSE, !.allowWarnings = TRUE]}

-----------------------------------------------------------------------------
(* The constants of the run *)
AllScans == {Hall, Bare, Swapped}
FewTables == [table |-> 1, lamp |-> 1]
BedAndSofa == [bed |-> 240, sofa |-> 500]
BestOfBoth == [bed |-> [yaw |-> 1, scale |-> 100], sofa |-> [yaw |-> 2, scale |-> 100]]
BothExports == {Furnished, NoRoom}
OnePlacing == {[bed_0 |-> [yaw |-> 0, at |-> <<9, 3>>]]}
OneAnswer == {Findings}
Survivor == {Attempt}
AllOnDisk == <<TRUE, TRUE>>
AnyError == {{}, {"room_dimensions"}}
EmptyEnv == {<<>>}
AnyFetch == {{}, {"detail"}}
OnlyTheDesk == [desk_1 |-> <<100, 60, 50>>, cup_1 |-> None, vase_1 |-> None]
OnlyTheApi == [a \in Library |-> IF a = "polyhaven/desk" THEN <<140, 61, 76>> ELSE None]
DeskWords == [desk |-> <<"desk", "table">>, table |-> <<"table", "desk">>]
CupWords == [cup |-> <<"cup">>, vase |-> <<"vase", "cup">>]
BothScans == {FirstScan, SecondScan}
JustOneLayer == {OneLayer}
RobotRadius == [default |-> 10, husky |-> 55]
RobotHeight == [default |-> 1, husky |-> 2]

(* The pieces of MsaRegions are what ndimage.label promises, on every set of a small grid and on
   the areas of the scenes. *)
ASSUME PiecesAssumption ==
  /\ \A S \in SUBSET Block(0, 2, 0, 3) : PiecesAreParts(S)
  /\ \A s \in Scans : PiecesAreParts(s.obstacle) /\ PiecesAreParts(s.free)

(* A component that is not looked at begins in one of its initial states. *)
MCInit ==
  /\ Init
  /\ part # "boot" => bootScan = Bare
  /\ part # "isaac" => isaacArgs = Plain /\ isaacFile = None /\ isaacBuild = Whole

(* SceneState and the loop share no variable and nothing calls one from the other: the calls of
   apply are looked at before the first combination begins, not beside each of its steps. *)
ToolsApart == agentApplied = 0 \/ agentTodo = Edited \X Verifiers
=============================================================================
