---------------------------- MODULE MCCostControl ----------------------------
(* CostControl with a cap of three dollars and runs of up to two. *)
EXTENDS CostControl

MeasuredFaults == FaultKinds \ {"show_fails"}
=============================================================================
