------------------------- MODULE BoxLifecycleProofs -------------------------
(***************************************************************************)
(* BoxLifecycle for every set of boxes, every number of capacity attempts  *)
(* and of runs: type correctness; under every fault, no box is reported    *)
(* down that is up and a run that ends DONE says what it left up, and the  *)
(* box entries say it of every run when no tick of the supervisor writes   *)
(* late; and, when vast neither queues a start nor misleads the driver     *)
(* about one and the driver is not killed, two boxes never bill at once    *)
(* and no rented contract is forgotten.                                    *)
(***************************************************************************)
EXTENDS BoxLifecycle, TLAPS

USE DEF persistent, volatile, reports

-----------------------------------------------------------------------------
(* Type correctness *)

LEMMA InitTypeOK == Init => TypeOK
<1> SUFFICES ASSUME Init PROVE TypeOK
  OBVIOUS
<1>1. box \in [Boxes -> BoxStates]
  BY DEF Init, BoxStates
<1>2. recorded \in [Boxes -> Records]
  BY DEF Init, Records
<1>3. attempt \in 1..MaxAttempts /\ runs \in 0..MaxRuns
  BY BoundsAssumption DEF Init
<1>4. QED
  BY <1>1, <1>2, <1>3, BoxesAssumption DEF Init, TypeOK, PCs, Sites, Docs, Records, NoTick

LEMMA StepTypeOK == ASSUME TypeOK, [Next]_vars PROVE TypeOK'
<1> USE BoxesAssumption, BoundsAssumption
    DEF TypeOK, BoxStates, Records, PCs, Sites, Docs
<1>1. CASE StartDriver
  BY <1>1 DEF StartDriver, NoTick
<1>2. CASE Prep
  BY <1>2 DEF Prep, Fail
<1>3. CASE WorkerStart
  BY <1>3 DEF WorkerStart, StartEffect, Fail
<1>4. CASE OperatorStart
  BY <1>4 DEF OperatorStart, StartEffect
<1>5. CASE CreateBox
  BY <1>5 DEF CreateBox, NextAttempt, Fail
<1>6. CASE NoCapacity
  BY <1>6 DEF NoCapacity, NextAttempt, Fail
<1>7. CASE SearchFails
  BY <1>7 DEF SearchFails, Fail
<1>8. CASE RetireOld
  BY <1>8 DEF RetireOld
<1>9. CASE CacheNew
  BY <1>9 DEF CacheNew
<1>10. CASE Provisioned
  BY <1>10 DEF Provisioned
<1>11. CASE ProvisionFails
  BY <1>11 DEF ProvisionFails
<1>12. CASE Nvblox
  BY <1>12 DEF Nvblox, BoundaryPoll, Fail
<1>13. CASE GpuDown
  BY <1>13 DEF GpuDown, TakeDown, Returned, BoundaryPoll, Fail
<1>14. CASE GpuDownAborts
  BY <1>14 DEF GpuDownAborts, BoundaryPoll, Fail
<1>15. CASE StopCall
  BY <1>15 DEF StopCall, StopEffect, StopReturns, Returned, Fail
<1>16. CASE ExitConfirmed
  BY <1>16 DEF ExitConfirmed, StopReturns, Returned, Fail
<1>17. CASE ExitUnconfirmed
  BY <1>17 DEF ExitUnconfirmed, StopReturns, Returned, Fail
<1>18. CASE Post
  BY <1>18 DEF Post, BoundaryPoll, Fail
<1>19. CASE FinallyTakeDown
  BY <1>19 DEF FinallyTakeDown, TakeDown, Returned, Fail
<1>20. CASE ProcessExit
  BY <1>20 DEF ProcessExit, NoTick
<1>21. CASE Vast
  BY <1>21 DEF Vast, QueuedStartFires, StopCompletes
<1>22. CASE OperatorArms
  BY <1>22 DEF OperatorArms
<1>23. CASE Midnight
  <2>1. UNCHANGED <<box, cached, retired, recorded, pc, volatile, doc, runs>>
    BY <1>23 DEF Midnight
  <2>2. armed' \in BOOLEAN
    BY <1>23 DEF Midnight
  <2>3. QED
    BY <2>1, <2>2
<1>24. CASE Kill
  BY <1>24 DEF Kill, NoTick
<1>25. CASE \E b \in Boxes : OwnerDestroys(b) \/ OwnerStops(b)
  BY <1>25 DEF OwnerDestroys, OwnerStops
<1>26. CASE Supervisor
  <2>1. CASE SupervisorWrites
    BY <2>1 DEF SupervisorWrites, NoTick
  <2>2. ASSUME NEW b \in Boxes, SupervisorCopies(b) PROVE TypeOK'
    <3>1. tick' \in [box: Boxes, copy: Records, busy: BOOLEAN]
      BY <2>2 DEF SupervisorCopies
    <3>2. QED
      BY <3>1, <2>2 DEF SupervisorCopies
  <2>3. QED
    BY <2>1, <2>2, <1>26 DEF Supervisor
<1>27. CASE UNCHANGED vars
  BY <1>27 DEF vars
<1> HIDE DEF TypeOK
<1>28. QED
  BY <1>1, <1>2, <1>3, <1>4, <1>5, <1>6, <1>7, <1>8, <1>9, <1>10, <1>11, <1>12, <1>13,
     <1>14, <1>15, <1>16, <1>17, <1>18, <1>19, <1>20, <1>21, <1>22, <1>23, <1>24, <1>25, <1>26, <1>27
     DEF Next, Driver, Environment

(* Every variable keeps its type in every reachable state, whatever the boxes, the
   bounds and the faults. *)
THEOREM TypeCorrect == Spec => []TypeOK
  BY InitTypeOK, StepTypeOK, PTL DEF Spec

-----------------------------------------------------------------------------
(* What is reported of the boxes a run registered, under every fault *)

\* Until GPU_UP_NV has registered its box, and while a bring-up is being abandoned,
\* the run has registered none.
NoneSeenYet ==
  /\ pc \in {"prep", "acquire", "search", "created", "retired_old", "provision"}
       => seen = {}
  /\ pc \in {"stop", "confirm"} /\ site = "abandon" => seen = {}

\* No start is left in vast's queue for the box in hand, nor for a registered one.
NoneQueued ==
  /\ pc \in {"created", "retired_old", "provision"} => box[cur] # "queued"
  /\ \A b \in seen : box[b] # "queued"

\* `confirmed' is true wherever it is held: in sess.info, in the copy of the supervisor's
\* tick, and so in whatever either thread writes.
ConfirmedEverywhere ==
  /\ \A b \in seen : info[b] = "confirmed" => box[b] \in {"exited", "destroyed"}
  /\ tick.busy => tick.box \in seen
                 /\ (tick.copy = "confirmed" => box[tick.box] \in {"exited", "destroyed"})
  /\ ConfirmedIsDown

ReportInv ==
  /\ TypeOK
  /\ NoneSeenYet
  /\ NoneQueued
  /\ sessions \subseteq seen
  /\ ConfirmedEverywhere

LEMMA InitReportInv == Init => ReportInv
  BY InitTypeOK
     DEF Init, ReportInv, NoneSeenYet, NoneQueued, ConfirmedEverywhere, ConfirmedIsDown, NoTick

LEMMA StepReportInv == ASSUME ReportInv, [Next]_vars PROVE ReportInv'
<1>0. TypeOK'
  BY StepTypeOK DEF ReportInv
<1> USE <1>0 DEF ReportInv, TypeOK, NoneSeenYet, NoneQueued, ConfirmedEverywhere,
                 ConfirmedIsDown, Running
<1>1. CASE StartDriver
  BY <1>1 DEF StartDriver, NoTick
<1>2. CASE Prep
  BY <1>2 DEF Prep, Fail
<1>3. CASE WorkerStart
  BY <1>3 DEF WorkerStart, StartEffect, Refusals, Fail
<1>4. CASE OperatorStart
  BY <1>4 DEF OperatorStart, StartEffect
<1>5. CASE CreateBox
  BY <1>5 DEF CreateBox, NextAttempt, Fail
<1>6. CASE NoCapacity
  BY <1>6 DEF NoCapacity, NextAttempt, Fail
<1>7. CASE SearchFails
  BY <1>7 DEF SearchFails, Fail
<1>8. CASE RetireOld
  BY <1>8 DEF RetireOld
<1>9. CASE CacheNew
  BY <1>9 DEF CacheNew
<1>10. CASE Provisioned
  BY <1>10 DEF Provisioned
<1>11. CASE ProvisionFails
  BY <1>11 DEF ProvisionFails
<1>12. CASE Nvblox
  BY <1>12 DEF Nvblox, BoundaryPoll, Fail
<1>13. CASE GpuDown
  BY <1>13 DEF GpuDown, TakeDown, Returned, BoundaryPoll, Fail
<1>14. CASE GpuDownAborts
  BY <1>14 DEF GpuDownAborts, BoundaryPoll, Fail
<1>15. CASE StopCall
  BY <1>15 DEF StopCall, StopEffect, StopReturns, Returned, Fail
<1>16. CASE ExitConfirmed
  BY <1>16 DEF ExitConfirmed, StopReturns, Returned, Fail
<1>17. CASE ExitUnconfirmed
  BY <1>17 DEF ExitUnconfirmed, StopReturns, Returned, Fail
<1>18. CASE Post
  BY <1>18 DEF Post, BoundaryPoll, Fail
<1>19. CASE FinallyTakeDown
  BY <1>19 DEF FinallyTakeDown, TakeDown, Returned, Fail
<1>20. CASE ProcessExit
  BY <1>20 DEF ProcessExit, NoTick
<1>21. CASE Vast
  BY <1>21 DEF Vast, QueuedStartFires, StopCompletes
<1>22. CASE OperatorArms
  BY <1>22 DEF OperatorArms
<1>23. CASE Midnight
  BY <1>23 DEF Midnight
<1>24. CASE Kill
  BY <1>24 DEF Kill, NoTick
<1>25. CASE \E b \in Boxes : OwnerDestroys(b) \/ OwnerStops(b)
  BY <1>25 DEF OwnerDestroys, OwnerStops
<1>26. CASE Supervisor
  BY <1>26 DEF Supervisor, SupervisorCopies, SupervisorWrites, NoTick
<1>27. CASE UNCHANGED vars
  BY <1>27 DEF vars
<1> HIDE DEF ReportInv
<1>28. QED
  BY <1>1, <1>2, <1>3, <1>4, <1>5, <1>6, <1>7, <1>8, <1>9, <1>10, <1>11, <1>12, <1>13,
     <1>14, <1>15, <1>16, <1>17, <1>18, <1>19, <1>20, <1>21, <1>22, <1>23, <1>24, <1>25, <1>26, <1>27
     DEF Next, Driver, Environment

-----------------------------------------------------------------------------
(* The entries of the boxes a run registered, when no tick of the supervisor is late *)

\* What an entry says is what the driver knows, and it knows what it left up.
RecordInv ==
  /\ ReportInv
  /\ ~tick.busy
  /\ \A b \in seen : recorded[b] = info[b]
  /\ RegisteredBoxReported

LEMMA StepRecordInv ==
  ASSUME "late_record" \notin Faults, RecordInv, [Next]_vars
  PROVE  RecordInv'
<1>0. ReportInv' /\ TypeOK'
  BY StepReportInv DEF RecordInv, ReportInv
<1> USE <1>0 DEF RecordInv, ReportInv, TypeOK, NoneSeenYet, NoneQueued, RegisteredBoxReported,
                 Running, InHand, LeftUp
<1>1. CASE StartDriver
  BY <1>1 DEF StartDriver, NoTick
<1>2. CASE Prep
  BY <1>2 DEF Prep, Fail
<1>3. CASE WorkerStart
  BY <1>3 DEF WorkerStart, StartEffect, Refusals, Fail
<1>4. CASE OperatorStart
  BY <1>4 DEF OperatorStart, StartEffect
<1>5. CASE CreateBox
  BY <1>5 DEF CreateBox, NextAttempt, Fail
<1>6. CASE NoCapacity
  BY <1>6 DEF NoCapacity, NextAttempt, Fail
<1>7. CASE SearchFails
  BY <1>7 DEF SearchFails, Fail
<1>8. CASE RetireOld
  BY <1>8 DEF RetireOld
<1>9. CASE CacheNew
  BY <1>9 DEF CacheNew
<1>10. CASE Provisioned
  BY <1>10 DEF Provisioned
<1>11. CASE ProvisionFails
  BY <1>11 DEF ProvisionFails
<1>12. CASE Nvblox
  BY <1>12 DEF Nvblox, BoundaryPoll, Fail
<1>13. CASE GpuDown
  BY <1>13 DEF GpuDown, TakeDown, Returned, BoundaryPoll, Fail
<1>14. CASE GpuDownAborts
  BY <1>14 DEF GpuDownAborts, BoundaryPoll, Fail
<1>15. CASE StopCall
  BY <1>15 DEF StopCall, StopEffect, StopReturns, Returned, Fail
<1>16. CASE ExitConfirmed
  BY <1>16 DEF ExitConfirmed, StopReturns, Returned, Fail
<1>17. CASE ExitUnconfirmed
  BY <1>17 DEF ExitUnconfirmed, StopReturns, Returned, Fail
<1>18. CASE Post
  BY <1>18 DEF Post, BoundaryPoll, Fail
<1>19. CASE FinallyTakeDown
  BY <1>19 DEF FinallyTakeDown, TakeDown, Returned, Fail
<1>20. CASE ProcessExit
  BY <1>20 DEF ProcessExit, NoTick
<1>21. CASE Vast
  BY <1>21 DEF Vast, QueuedStartFires, StopCompletes
<1>22. CASE OperatorArms
  BY <1>22 DEF OperatorArms
<1>23. CASE Midnight
  BY <1>23 DEF Midnight
<1>24. CASE Kill
  BY <1>24 DEF Kill, NoTick
<1>25. CASE \E b \in Boxes : OwnerDestroys(b) \/ OwnerStops(b)
  BY <1>25 DEF OwnerDestroys, OwnerStops
<1>26. CASE Supervisor
  BY <1>26 DEF Supervisor, SupervisorCopies, SupervisorWrites, NoTick
<1>27. CASE UNCHANGED vars
  BY <1>27 DEF vars
<1> HIDE DEF RecordInv
<1>28. QED
  BY <1>1, <1>2, <1>3, <1>4, <1>5, <1>6, <1>7, <1>8, <1>9, <1>10, <1>11, <1>12, <1>13,
     <1>14, <1>15, <1>16, <1>17, <1>18, <1>19, <1>20, <1>21, <1>22, <1>23, <1>24, <1>25, <1>26, <1>27
     DEF Next, Driver, Environment

(* When no tick of the supervisor writes late, and under every other fault, a box the
   live run registered and no longer holds is either not running or its entry says
   that it was left up. *)
THEOREM EntriesAreTrue ==
  ASSUME "late_record" \notin Faults PROVE Spec => []RegisteredBoxReported
<1>1. Init => RecordInv
  BY InitReportInv DEF Init, RecordInv, RegisteredBoxReported, NoTick
<1>2. RecordInv /\ [Next]_vars => RecordInv'
  BY StepRecordInv, "late_record" \notin Faults
<1>3. RecordInv => RegisteredBoxReported
  BY DEF RecordInv
<1>4. QED
  BY <1>1, <1>2, <1>3, PTL DEF Spec

-----------------------------------------------------------------------------
(* One box at a time, and none forgotten *)

\* vast says the truth about starts and creates, and the driver lives to record them.
HonestStarts == Faults \cap {"queue", "spurious", "lost_reply", "kill"} = {}

\* The box the system answers for: the one just rented, else the cached one.
Current == IF pc \in {"created", "retired_old"} THEN cur ELSE cached

\* A replacement is under way: the refused box does not run, and the new id is new.
Replacing ==
  /\ pc \in {"search", "created", "retired_old"} => ~Running(iid)
  /\ pc \in {"created", "retired_old"} => cur \notin retired /\ cur # iid
                                        /\ box[cur] # "absent"
  /\ pc = "retired_old" => iid \in retired
  /\ pc # "retired_old" => cached \notin retired

ContractInv ==
  /\ TypeOK
  /\ iid = cached
  /\ box[cached] # "absent"
  /\ \A b \in retired : box[b] # "absent"
  /\ \A b \in Boxes : box[b] # "queued"
  /\ \A b \in Boxes : Running(b) => b = Current
  /\ Replacing
  /\ NoLostContract

LEMMA InitContractInv == Init => ContractInv
  BY InitTypeOK, BoxesAssumption
     DEF Init, ContractInv, Current, Replacing, Running, NoLostContract

LEMMA StepContractInv ==
  ASSUME HonestStarts, ContractInv, [Next]_vars
  PROVE  ContractInv' /\ (\A b \in retired : Running(b)' => Running(b))
<1>0. TypeOK'
  BY StepTypeOK DEF ContractInv
<1> USE <1>0 DEF HonestStarts, ContractInv, TypeOK, Current, Replacing, Running,
                 NoLostContract
<1>1. CASE StartDriver
  BY <1>1 DEF StartDriver, NoTick
<1>2. CASE Prep
  BY <1>2 DEF Prep, Fail
<1>3. CASE WorkerStart
  BY <1>3 DEF WorkerStart, StartReplies, StartEffect, Refusals, Fail
<1>4. CASE OperatorStart
  BY <1>4 DEF OperatorStart, StartReplies, StartEffect
<1>5. CASE CreateBox
  BY <1>5 DEF CreateBox, NextAttempt, Fail
<1>6. CASE NoCapacity
  BY <1>6 DEF NoCapacity, NextAttempt, Fail
<1>7. CASE SearchFails
  BY <1>7 DEF SearchFails, Fail
<1>8. CASE RetireOld
  BY <1>8 DEF RetireOld
<1>9. CASE CacheNew
  BY <1>9 DEF CacheNew
<1>10. CASE Provisioned
  BY <1>10 DEF Provisioned
<1>11. CASE ProvisionFails
  BY <1>11 DEF ProvisionFails
<1>12. CASE Nvblox
  BY <1>12 DEF Nvblox, BoundaryPoll, Fail
<1>13. CASE GpuDown
  BY <1>13 DEF GpuDown, TakeDown, Returned, BoundaryPoll, Fail
<1>14. CASE GpuDownAborts
  BY <1>14 DEF GpuDownAborts, BoundaryPoll, Fail
<1>15. CASE StopCall
  BY <1>15 DEF StopCall, StopEffect, StopReturns, Returned, Fail
<1>16. CASE ExitConfirmed
  BY <1>16 DEF ExitConfirmed, StopReturns, Returned, Fail
<1>17. CASE ExitUnconfirmed
  BY <1>17 DEF ExitUnconfirmed, StopReturns, Returned, Fail
<1>18. CASE Post
  BY <1>18 DEF Post, BoundaryPoll, Fail
<1>19. CASE FinallyTakeDown
  BY <1>19 DEF FinallyTakeDown, TakeDown, Returned, Fail
<1>20. CASE ProcessExit
  BY <1>20 DEF ProcessExit, NoTick
<1>21. CASE Vast
  BY <1>21 DEF Vast, QueuedStartFires, StopCompletes
<1>22. CASE OperatorArms
  BY <1>22 DEF OperatorArms
<1>23. CASE Midnight
  BY <1>23 DEF Midnight
<1>24. CASE Kill
  BY <1>24 DEF Kill, NoTick
<1>25. CASE \E b \in Boxes : OwnerDestroys(b) \/ OwnerStops(b)
  BY <1>25 DEF OwnerDestroys, OwnerStops
<1>26. CASE Supervisor
  BY <1>26 DEF Supervisor, SupervisorCopies, SupervisorWrites, NoTick
<1>27. CASE UNCHANGED vars
  BY <1>27 DEF vars
<1> HIDE DEF ContractInv, HonestStarts, Running
<1>28. QED
  BY <1>1, <1>2, <1>3, <1>4, <1>5, <1>6, <1>7, <1>8, <1>9, <1>10, <1>11, <1>12, <1>13,
     <1>14, <1>15, <1>16, <1>17, <1>18, <1>19, <1>20, <1>21, <1>22, <1>23, <1>24, <1>25, <1>26, <1>27
     DEF Next, Driver, Environment

(* When vast neither queues a start nor misleads the driver about one, and the driver
   is not killed, at most one box bills at any time and every rented contract is
   cached, on the owner's list or in the driver's hands. *)
THEOREM OneBoxNoneLost ==
  ASSUME HonestStarts PROVE Spec => [](OneBoxRunning /\ NoLostContract)
<1>1. Init => ContractInv
  BY InitContractInv
<1>2. ContractInv /\ [Next]_vars => ContractInv'
  BY StepContractInv, HonestStarts
<1>3. ContractInv => OneBoxRunning /\ NoLostContract
  BY DEF ContractInv, OneBoxRunning
<1>4. QED
  BY <1>1, <1>2, <1>3, PTL DEF Spec

(* Under the same assumption, a retired box never comes up again. *)
THEOREM RetiredStaysRetired == ASSUME HonestStarts PROVE Spec => RetiredStaysDown
<1>1. Init => ContractInv
  BY InitContractInv
<1>2. ContractInv /\ [Next]_vars => ContractInv'
  BY StepContractInv, HonestStarts
<1>3. ContractInv /\ [Next]_vars => [\A b \in retired : Running(b)' => Running(b)]_vars
  BY StepContractInv, HonestStarts
<1>4. QED
  BY <1>1, <1>2, <1>3, PTL DEF Spec, RetiredStaysDown

-----------------------------------------------------------------------------
(* DONE holds no box, and with no fault at all no box is unowned *)

\* A run holds at most the box it is using, and none before GPU_UP_NV has registered it
\* or after GPU_DOWN_NV has taken it down.
HoldInv ==
  /\ TypeOK
  /\ sessions \subseteq {iid}
  /\ pc \in {"prep", "acquire", "search", "created", "retired_old", "provision"}
       => sessions = {} /\ doc = "running"
  /\ pc = "provision" => cur = iid
  /\ pc \in {"idle", "post"} => sessions = {}
  /\ pc \in {"stop", "confirm"} /\ site \in {"abandon", "down"} => sessions = {}
  /\ DoneHoldsNoBox

LEMMA InitHoldInv == Init => HoldInv
  BY InitTypeOK DEF Init, HoldInv, DoneHoldsNoBox

LEMMA StepHoldInv == ASSUME HoldInv, [Next]_vars PROVE HoldInv'
<1>0. TypeOK'
  BY StepTypeOK DEF HoldInv
<1> USE <1>0 DEF HoldInv, TypeOK, DoneHoldsNoBox
<1>1. CASE StartDriver
  BY <1>1 DEF StartDriver, NoTick
<1>2. CASE Prep
  BY <1>2 DEF Prep, Fail
<1>3. CASE WorkerStart
  BY <1>3 DEF WorkerStart, StartReplies, StartEffect, Refusals, Fail
<1>4. CASE OperatorStart
  BY <1>4 DEF OperatorStart, StartReplies, StartEffect
<1>5. CASE CreateBox
  BY <1>5 DEF CreateBox, NextAttempt, Fail
<1>6. CASE NoCapacity
  BY <1>6 DEF NoCapacity, NextAttempt, Fail
<1>7. CASE SearchFails
  BY <1>7 DEF SearchFails, Fail
<1>8. CASE RetireOld
  BY <1>8 DEF RetireOld
<1>9. CASE CacheNew
  BY <1>9 DEF CacheNew
<1>10. CASE Provisioned
  BY <1>10 DEF Provisioned
<1>11. CASE ProvisionFails
  BY <1>11 DEF ProvisionFails
<1>12. CASE Nvblox
  BY <1>12 DEF Nvblox, BoundaryPoll, Fail
<1>13. CASE GpuDown
  BY <1>13 DEF GpuDown, TakeDown, Returned, BoundaryPoll, Fail
<1>14. CASE GpuDownAborts
  BY <1>14 DEF GpuDownAborts, BoundaryPoll, Fail
<1>15. CASE StopCall
  BY <1>15 DEF StopCall, StopEffect, StopReturns, Returned, Fail
<1>16. CASE ExitConfirmed
  BY <1>16 DEF ExitConfirmed, StopReturns, Returned, Fail
<1>17. CASE ExitUnconfirmed
  BY <1>17 DEF ExitUnconfirmed, StopReturns, Returned, Fail
<1>18. CASE Post
  BY <1>18 DEF Post, BoundaryPoll, Fail
<1>19. CASE FinallyTakeDown
  BY <1>19 DEF FinallyTakeDown, TakeDown, Returned, Fail
<1>20. CASE ProcessExit
  BY <1>20 DEF ProcessExit, NoTick
<1>21. CASE Vast
  BY <1>21 DEF Vast, QueuedStartFires, StopCompletes
<1>22. CASE OperatorArms
  BY <1>22 DEF OperatorArms
<1>23. CASE Midnight
  BY <1>23 DEF Midnight
<1>24. CASE Kill
  BY <1>24 DEF Kill, NoTick
<1>25. CASE \E b \in Boxes : OwnerDestroys(b) \/ OwnerStops(b)
  BY <1>25 DEF OwnerDestroys, OwnerStops
<1>26. CASE Supervisor
  BY <1>26 DEF Supervisor, SupervisorCopies, SupervisorWrites, NoTick
<1>27. CASE UNCHANGED vars
  BY <1>27 DEF vars
<1> HIDE DEF HoldInv
<1>28. QED
  BY <1>1, <1>2, <1>3, <1>4, <1>5, <1>6, <1>7, <1>8, <1>9, <1>10, <1>11, <1>12, <1>13,
     <1>14, <1>15, <1>16, <1>17, <1>18, <1>19, <1>20, <1>21, <1>22, <1>23, <1>24, <1>25, <1>26, <1>27
     DEF Next, Driver, Environment

(* A driver that reports DONE holds no box, whatever the faults: the one it used, a
   replacement rented in mid-run included, was taken down first. *)
THEOREM DoneWithoutABox == Spec => []DoneHoldsNoBox
<1>1. HoldInv => DoneHoldsNoBox
  BY DEF HoldInv
<1>2. QED
  BY <1>1, InitHoldInv, StepHoldInv, PTL DEF Spec

\* The box of the run, from its bring-up to its take-down, and what the artifacts of
\* GPU_DOWN_NV say of it afterwards.
DoneInv ==
  /\ ReportInv
  /\ HoldInv
  /\ seen \subseteq {iid}
  /\ pc \in {"nvblox", "gpu_down"} => sessions = seen
  /\ pc \in {"stop", "confirm"} /\ site = "down" => seen \subseteq {cur}
  /\ pc = "post" \/ doc = "DONE" => \A b \in seen : Running(b) => downArt \in LeftUp

LEMMA StepDoneInv == ASSUME DoneInv, [Next]_vars PROVE DoneInv'
<1>0. ReportInv' /\ HoldInv' /\ TypeOK'
  BY StepReportInv, StepHoldInv DEF DoneInv, ReportInv
<1> USE <1>0 DEF DoneInv, ReportInv, HoldInv, TypeOK, NoneSeenYet, NoneQueued, Running, LeftUp
<1>1. CASE StartDriver
  BY <1>1 DEF StartDriver, NoTick
<1>2. CASE Prep
  BY <1>2 DEF Prep, Fail
<1>3. CASE WorkerStart
  BY <1>3 DEF WorkerStart, StartEffect, Refusals, Fail
<1>4. CASE OperatorStart
  BY <1>4 DEF OperatorStart, StartEffect
<1>5. CASE CreateBox
  BY <1>5 DEF CreateBox, NextAttempt, Fail
<1>6. CASE NoCapacity
  BY <1>6 DEF NoCapacity, NextAttempt, Fail
<1>7. CASE SearchFails
  BY <1>7 DEF SearchFails, Fail
<1>8. CASE RetireOld
  BY <1>8 DEF RetireOld
<1>9. CASE CacheNew
  BY <1>9 DEF CacheNew
<1>10. CASE Provisioned
  BY <1>10 DEF Provisioned
<1>11. CASE ProvisionFails
  BY <1>11 DEF ProvisionFails
<1>12. CASE Nvblox
  BY <1>12 DEF Nvblox, BoundaryPoll, Fail
<1>13. CASE GpuDown
  BY <1>13 DEF GpuDown, TakeDown, Returned, BoundaryPoll, Fail
<1>14. CASE GpuDownAborts
  BY <1>14 DEF GpuDownAborts, BoundaryPoll, Fail
<1>15. CASE StopCall
  BY <1>15 DEF StopCall, StopEffect, StopReturns, Returned, Fail
<1>16. CASE ExitConfirmed
  BY <1>16 DEF ExitConfirmed, StopReturns, Returned, Fail
<1>17. CASE ExitUnconfirmed
  BY <1>17 DEF ExitUnconfirmed, StopReturns, Returned, Fail
<1>18. CASE Post
  BY <1>18 DEF Post, BoundaryPoll, Fail
<1>19. CASE FinallyTakeDown
  BY <1>19 DEF FinallyTakeDown, TakeDown, Returned, Fail
<1>20. CASE ProcessExit
  BY <1>20 DEF ProcessExit, NoTick
<1>21. CASE Vast
  BY <1>21 DEF Vast, QueuedStartFires, StopCompletes
<1>22. CASE OperatorArms
  BY <1>22 DEF OperatorArms
<1>23. CASE Midnight
  BY <1>23 DEF Midnight
<1>24. CASE Kill
  BY <1>24 DEF Kill, NoTick
<1>25. CASE \E b \in Boxes : OwnerDestroys(b) \/ OwnerStops(b)
  BY <1>25 DEF OwnerDestroys, OwnerStops
<1>26. CASE Supervisor
  BY <1>26 DEF Supervisor, SupervisorCopies, SupervisorWrites, NoTick
<1>27. CASE UNCHANGED vars
  BY <1>27 DEF vars
<1> HIDE DEF DoneInv
<1>28. QED
  BY <1>1, <1>2, <1>3, <1>4, <1>5, <1>6, <1>7, <1>8, <1>9, <1>10, <1>11, <1>12, <1>13,
     <1>14, <1>15, <1>16, <1>17, <1>18, <1>19, <1>20, <1>21, <1>22, <1>23, <1>24, <1>25, <1>26, <1>27
     DEF Next, Driver, Environment

(* Under every fault, a box reported as confirmed down is down, whoever wrote its entry
   last, and a run that reports DONE and whose box is still up says so in the artifacts
   of GPU_DOWN_NV. *)
THEOREM ReportsAreTrue == Spec => [](ConfirmedIsDown /\ DoneReportsItsBox)
<1>1. Init => DoneInv
  BY InitReportInv, InitHoldInv DEF Init, DoneInv
<1>2. DoneInv /\ [Next]_vars => DoneInv'
  BY StepDoneInv
<1>3. DoneInv => ConfirmedIsDown /\ DoneReportsItsBox
  BY DEF DoneInv, ReportInv, ConfirmedEverywhere, DoneReportsItsBox
<1>4. QED
  BY <1>1, <1>2, <1>3, PTL DEF Spec

\* Without faults a run stays armed to its end.
OwnedInv ==
  /\ HoldInv
  /\ ContractInv
  /\ RecordInv
  /\ pc # "idle" => armed
  /\ NoUnownedBox

LEMMA StepOwnedInv ==
  ASSUME Faults = {}, OwnedInv, [Next]_vars
  PROVE  OwnedInv'
<1>a. HonestStarts
  BY DEF HonestStarts
<1>b. HoldInv' /\ ContractInv' /\ RecordInv'
  BY <1>a, StepHoldInv, StepContractInv, StepRecordInv, Faults = {} DEF OwnedInv
<1> USE <1>b DEF OwnedInv, HoldInv, TypeOK, ContractInv, RecordInv, Replacing, NoUnownedBox,
                 Running, InHand, LeftUp
<1>1. CASE StartDriver
  BY <1>1 DEF StartDriver, NoTick
<1>2. CASE Prep
  BY <1>2 DEF Prep, Fail
<1>3. CASE WorkerStart
  BY <1>3 DEF WorkerStart, StartReplies, StartEffect, Refusals, Fail
<1>4. CASE OperatorStart
  BY <1>4 DEF OperatorStart, StartReplies, StartEffect
<1>5. CASE CreateBox
  BY <1>5 DEF CreateBox, NextAttempt, Fail
<1>6. CASE NoCapacity
  BY <1>6 DEF NoCapacity, NextAttempt, Fail
<1>7. CASE SearchFails
  BY <1>7 DEF SearchFails, Fail
<1>8. CASE RetireOld
  BY <1>8 DEF RetireOld
<1>9. CASE CacheNew
  BY <1>9 DEF CacheNew
<1>10. CASE Provisioned
  BY <1>10 DEF Provisioned
<1>11. CASE ProvisionFails
  BY <1>11 DEF ProvisionFails
<1>12. CASE Nvblox
  BY <1>12 DEF Nvblox, BoundaryPoll, Fail
<1>13. CASE GpuDown
  BY <1>13 DEF GpuDown, TakeDown, Returned, BoundaryPoll, Fail
<1>14. CASE GpuDownAborts
  BY <1>14 DEF GpuDownAborts, BoundaryPoll, Fail
<1>15. CASE StopCall
  BY <1>15 DEF StopCall, StopReplies, StopEffect, StopReturns, Returned, Fail
<1>16. CASE ExitConfirmed
  BY <1>16 DEF ExitConfirmed, StopReturns, Returned, Fail
<1>17. CASE ExitUnconfirmed
  BY <1>17 DEF ExitUnconfirmed, StopReturns, Returned, Fail
<1>18. CASE Post
  BY <1>18 DEF Post, BoundaryPoll, Fail
<1>19. CASE FinallyTakeDown
  BY <1>19 DEF FinallyTakeDown, TakeDown, Returned, Fail
<1>20. CASE ProcessExit
  BY <1>20 DEF ProcessExit, NoTick
<1>21. CASE Vast
  BY <1>21 DEF Vast, QueuedStartFires, StopCompletes
<1>22. CASE OperatorArms
  BY <1>22 DEF OperatorArms
<1>23. CASE Midnight
  BY <1>23 DEF Midnight
<1>24. CASE Kill
  BY <1>24 DEF Kill, NoTick
<1>25. CASE \E b \in Boxes : OwnerDestroys(b) \/ OwnerStops(b)
  BY <1>25 DEF OwnerDestroys, OwnerStops
<1>26. CASE Supervisor
  BY <1>26 DEF Supervisor, SupervisorCopies, SupervisorWrites, NoTick
<1>27. CASE UNCHANGED vars
  BY <1>27 DEF vars
<1> HIDE DEF OwnedInv
<1>28. QED
  BY <1>1, <1>2, <1>3, <1>4, <1>5, <1>6, <1>7, <1>8, <1>9, <1>10, <1>11, <1>12, <1>13,
     <1>14, <1>15, <1>16, <1>17, <1>18, <1>19, <1>20, <1>21, <1>22, <1>23, <1>24, <1>25, <1>26, <1>27
     DEF Next, Driver, Environment

(* With no fault at all, a box that runs is in the driver's hands or some status.json
   says that it was left up. *)
THEOREM EveryBoxOwned == ASSUME Faults = {} PROVE Spec => []NoUnownedBox
<1>1. Init => OwnedInv
  BY InitHoldInv, InitContractInv, InitReportInv
     DEF OwnedInv, RecordInv, RegisteredBoxReported, Init, NoUnownedBox, Running, NoTick
<1>2. OwnedInv /\ [Next]_vars => OwnedInv'
  BY StepOwnedInv, Faults = {}
<1>3. OwnedInv => NoUnownedBox
  BY DEF OwnedInv
<1>4. QED
  BY <1>1, <1>2, <1>3, PTL DEF Spec

=============================================================================
