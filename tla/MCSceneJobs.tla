----------------------------- MODULE MCSceneJobs -----------------------------
(* SceneJobs on one or two videos and up to three jobs. *)
EXTENDS SceneJobs

CONSTANTS v1, v2

OneVideo == {v1}
TwoVideos == {v1, v2}

NoFaults == {}
CancelAndRetry == {"cancel", "poll_ends", "enqueue_fails"}
LiveFaults == {"poll_ends", "cleanup_fails", "start_repeats"}
=============================================================================
