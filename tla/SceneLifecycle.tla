--------------------------- MODULE SceneLifecycle ---------------------------
(***************************************************************************)
(* What the scene API promises its readers about one scene per video: the  *)
(* status a poll may see after another, and that the object rows of a      *)
(* scene are replaced only together with the step to "done".               *)
(***************************************************************************)
EXTENDS Naturals

CONSTANTS Videos, MaxJobs

VARIABLES
  status,  \* per video: the status a reader sees, "none" without a scene
  rows     \* per video: the run its objects come from, 0: none

Runs == 1..MaxJobs

Init ==
  /\ status = [v \in Videos |-> "none"]
  /\ rows = [v \in Videos |-> 0]

Create(v) ==
  /\ status[v] = "none"
  /\ status' = [status EXCEPT ![v] = "queued"]
  /\ UNCHANGED rows

\* A first run, a rerun, or a rerun of a scene an earlier run left behind.
Begin(v) ==
  /\ status[v] # "none"
  /\ status' = [status EXCEPT ![v] = "processing"]
  /\ UNCHANGED rows

Succeed(v, r) ==
  /\ status[v] = "processing"
  /\ status' = [status EXCEPT ![v] = "done"]
  /\ rows' = [rows EXCEPT ![v] = r]

Fail(v) ==
  /\ status[v] = "processing"
  /\ status' = [status EXCEPT ![v] = "failed"]
  /\ UNCHANGED rows

Remove(v) ==
  /\ status[v] # "none"
  /\ status' = [status EXCEPT ![v] = "none"]
  /\ rows' = [rows EXCEPT ![v] = 0]

Next == \E v \in Videos :
  \/ Create(v) \/ Begin(v) \/ Fail(v) \/ Remove(v)
  \/ \E r \in Runs : Succeed(v, r)

Spec == Init /\ [][Next]_<<status, rows>>
=============================================================================
