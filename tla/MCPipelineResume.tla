-------------------------- MODULE MCPipelineResume --------------------------
(* PipelineResume on two votes and three runs.  The command lines are a filtered run with
   a second vote as control, a run with that vote and the unfiltered control, and an
   unfiltered, grey rehearsal. *)
EXTENDS PipelineResume

CONSTANTS v1, v2

MCVotes == {v1, v2}

Filtered1 == [mode |-> "live", vote |-> v1, also |-> <<v2>>, ab |-> FALSE, colour |-> TRUE]
Filtered2 == [mode |-> "live", vote |-> v2, also |-> <<>>, ab |-> TRUE, colour |-> TRUE]
Plain     == [mode |-> "live", vote |-> "off", also |-> <<>>, ab |-> FALSE, colour |-> FALSE]
Rehearsal == [Plain EXCEPT !.mode = "rehearsal"]

OwnFlags == {Filtered1, Filtered2, Rehearsal}
AllFaults == FaultKinds
=============================================================================
