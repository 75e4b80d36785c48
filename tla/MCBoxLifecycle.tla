--------------------------- MODULE MCBoxLifecycle ---------------------------
(* BoxLifecycle on three instance ids, two capacity attempts and two runs. *)
EXTENDS BoxLifecycle

CONSTANTS b1, b2, b3

MCBoxes == {b1, b2, b3}
NoFaults == {}
QueueFault == {"queue"}
=============================================================================
