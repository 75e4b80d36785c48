---------------------------- MODULE MCSceneIngest ----------------------------
(* SceneIngest for one video: artifacts that validate, that lack the alignment, whose
   ceiling is out of range, and a job whose cameras or vocabulary are missing. *)
EXTENDS SceneIngest

Obj(kinds, y) ==
  [kinds |-> kinds, y |-> y, extent |-> 60, fragment |-> FALSE, views |-> 3, curtain |-> FALSE]
Cam(x, y) == [x |-> x, y |-> y, z |-> 100]
Fine ==
  [objects |-> {Obj({"counter"}, 80), Obj({"wall", "furniture"}, 150)},
   alignment |-> [ceiling |-> 260], grid |-> [x0 |-> 0, z0 |-> 0, w |-> 60, h |-> 40, cell |-> 5],
   cameras |-> <<Cam(900, 140), Cam(50, 150)>>,
   manifest |-> <<[kept |-> TRUE, frame |-> 1], [kept |-> FALSE, frame |-> 2], [kept |-> TRUE, frame |-> 5]>>,
   fps |-> 2, vocab |-> [source |-> "vlm", entries |-> {[name |-> "desk"], [name |-> None]}]]
MCArtifacts == {
  Fine, [Fine EXCEPT !.alignment = None], [Fine EXCEPT !.alignment = [ceiling |-> 700]],
  [Fine EXCEPT !.objects = {Obj({"counter"}, 150), [Obj({}, 2) EXCEPT !.extent = 300]},
               !.cameras = <<>>, !.vocab = None]}
MCDocs == {
  [torn |-> TRUE, state |-> None, steps |-> <<>>, started |-> None, finished |-> None, used |-> None],
  [torn |-> FALSE, state |-> "RUNNING", started |-> 0, finished |-> None, used |-> "openrouter",
   steps |-> <<[stage |-> "box", state |-> "running", started |-> 0, finished |-> None,
                substage |-> "refused"]>>]}
=============================================================================
