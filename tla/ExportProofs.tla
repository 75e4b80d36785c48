---------------------------- MODULE ExportProofs ----------------------------
(***************************************************************************)
(* What leaves the system.  The USD export, for every grid, set of layers, *)
(* platforms and objects and every number of runs and requests; the Isaac  *)
(* validation of a stage, for every set of stages, builds and command lines *)
(* and every number of steps.                                              *)
(***************************************************************************)
EXTENDS Studio, FiniteSetTheorems, WellFoundedInduction, TLAPS

\* The checks between the opened stage and the verdict, and those after the drop.
Floored == {"scene", "cook", "audit", "audit_schema", "drop", "stepping", "sweep", "dynamics", "log"}
Dropped == {"sweep", "dynamics", "log"}

\* Nothing is decided before the end.
Undecided == isaacPc # "done" => isaacFatal = None /\ isaacCode = None

\* What the checks passed so far have established.
Established ==
  /\ isaacPc = "usd_only" => isaacArgs.usdOnly
  /\ isaacPc \in {"imports", "open", "preflight"} \union Floored => ~isaacArgs.usdOnly
  /\ isaacPc \in {"preflight"} \union Floored => Isaac!Opened
  /\ isaacPc \in Floored => Isaac!HasFloor

\* The report holds the verdict on the sphere, and a settled one was at rest long enough.
SphereJudged ==
  /\ isaacDrop.hold = isaacSeen
  /\ isaacDrop.verdict = "settled" => isaacSeen >= SettleHold
  /\ isaacPc \in Dropped =>
       /\ "sphere_drop" \in DOMAIN isaacChecks
       /\ isaacChecks["sphere_drop"] = Isaac!Check(Isaac!PassIf(isaacDrop.verdict = "settled"), TRUE)

ReportTyped == \A n \in DOMAIN isaacChecks : isaacChecks[n].status \in Isaac!Statuses

\* The required checks that can have failed while the sequence goes on: each place adds its own.
Early == {"start", "imports", "open", "usd_only", "preflight"}
Audited == {"drop", "stepping"} \union Dropped
UnmetBefore ==
  (IF isaacPc \in Early THEN {} ELSE DOMAIN Isaac!PreflightChecks)
    \union (IF isaacPc \in {"audit_schema"} \union Audited THEN {"collider_coverage"} ELSE {})
    \union (IF isaacPc \in Dropped THEN {"sphere_drop"} ELSE {})
    \union (IF isaacPc \in {"dynamics", "log"} THEN {"no_static_prim_below_floor"} ELSE {})
    \union (IF isaacPc = "log" THEN {"dynamics_settling"} ELSE {})

\* A required check that failed or was skipped still says so in the report, but for the overlap
\* that the build does not have.
Unmet(entry) == entry.required /\ entry.status \in {"fail", "skipped"}
UnmetKnown == \A n \in DOMAIN isaacChecks : Unmet(isaacChecks[n]) => n \in isaacUnmet
UnmetShown ==
  isaacPc # "done" =>
    /\ isaacUnmet \subseteq UnmetBefore
    /\ \A n \in isaacUnmet :
         \/ n = "collider_coverage" /\ Isaac!FellBack
         \/ n \in DOMAIN isaacChecks /\ Unmet(isaacChecks[n])

\* The entries made before each place of the Isaac sequence, and what the audit's stands for.
Entered ==
  /\ isaacPc \in {"preflight"} \union Floored => "stage_opened" \in DOMAIN isaacChecks
  /\ isaacPc \in Floored => DOMAIN Isaac!PreflightChecks \subseteq DOMAIN isaacChecks
  /\ isaacPc = "audit_schema" => Isaac!FellBack
  /\ isaacPc \in Floored \ {"scene"} => "physics_scene" \in DOMAIN isaacChecks
  /\ isaacPc \in Floored \ {"scene", "cook"} => "cooking" \in DOMAIN isaacChecks
  /\ isaacPc \in Audited =>
       /\ "collider_coverage" \in DOMAIN isaacChecks
       /\ isaacArgs.check # "none" =>
            isaacChecks["collider_coverage"] = Isaac!Check(Isaac!PassIf(\A p \in isaacFile.prims : Isaac!Confirmed(p)), TRUE)
  /\ isaacPc \in {"dynamics", "log"} => "no_static_prim_below_floor" \in DOMAIN isaacChecks

IsaacInv ==
  Undecided /\ Established /\ SphereJudged /\ ReportTyped /\ UnmetKnown /\ UnmetShown /\ Entered /\ Isaac!PassIsEarned

-----------------------------------------------------------------------------
LEMMA InitIsaacInv == Isaac!Init => IsaacInv
  BY NoneAssumption DEF Isaac!Init, IsaacInv, Undecided, Established, SphereJudged, ReportTyped, UnmetKnown, UnmetShown, Entered, UnmetBefore,
      Isaac!PassIsEarned, Floored, Dropped, Audited

\* A verdict of 0 found no required check failed or left out.
LEMMA JudgedPass ==
  ASSUME NEW entries, \A n \in DOMAIN entries : entries[n].status \in Isaac!Statuses,
         isaacFatal = None, Isaac!Judge(entries), isaacCode' = 0
  PROVE  /\ \A n \in DOMAIN entries : entries[n].required => entries[n].status \in {"pass", "warn"}
         /\ isaacArgs.strict => \A n \in DOMAIN entries : entries[n].required => entries[n].status # "warn"
         /\ isaacChecks' = entries
         /\ isaacUnmet' = isaacUnmet
  BY DEF Isaac!Judge, Isaac!Finish, Isaac!Report, Isaac!OverallStatus, Isaac!Passes, Isaac!Statuses

\* No step changes what is validated, where, and how.
LEMMA FrameKept == ASSUME [Isaac!Next]_isaacVars PROVE UNCHANGED <<isaacArgs, isaacFile, isaacBuild>>
  BY DEF Isaac!Next, isaacVars, Isaac!Start, Isaac!LateImports, Isaac!OpenStageIsaac,
      Isaac!Preflight, Isaac!RunUsdOnly,
         Isaac!EnsurePhysicsScene, Isaac!Cook, Isaac!AuditFallback, Isaac!AuditColliders, Isaac!StartDrop, Isaac!StepSphere, Isaac!BelowFloorSweep,
         Isaac!DynamicsPhase, Isaac!HarvestLog, Isaac!Raise, Isaac!Next1, Isaac!EnvironmentMismatch, Isaac!ValidationAbort, Isaac!Frame

LEMMA StepUndecided == ASSUME IsaacInv, [Isaac!Next]_isaacVars PROVE Undecided'
<1>1. Isaac!Opened' = Isaac!Opened /\ Isaac!HasFloor' = Isaac!HasFloor
  BY FrameKept DEF Isaac!Opened, Isaac!HasFloor
<1> USE <1>1, FrameKept DEF IsaacInv, Undecided
<1>2. CASE Isaac!Start
  BY <1>2 DEF Isaac!Start, Isaac!Next1, Isaac!EnvironmentMismatch, Isaac!ValidationAbort,
      Isaac!Judge, Isaac!Finish, Isaac!EndDrop
<1>3. CASE Isaac!LateImports
  BY <1>3 DEF Isaac!LateImports, Isaac!Next1, Isaac!EnvironmentMismatch, Isaac!ValidationAbort,
      Isaac!Judge, Isaac!Finish, Isaac!EndDrop
<1>4. CASE Isaac!OpenStageIsaac
  BY <1>4 DEF Isaac!OpenStageIsaac, Isaac!Next1, Isaac!EnvironmentMismatch, Isaac!ValidationAbort,
      Isaac!Judge, Isaac!Finish, Isaac!EndDrop
<1>5. CASE Isaac!Preflight
  BY <1>5 DEF Isaac!Preflight, Isaac!Next1, Isaac!EnvironmentMismatch, Isaac!ValidationAbort,
      Isaac!Judge, Isaac!Finish, Isaac!EndDrop
<1>6. CASE Isaac!RunUsdOnly
  BY <1>6 DEF Isaac!RunUsdOnly, Isaac!Next1, Isaac!EnvironmentMismatch, Isaac!ValidationAbort,
      Isaac!Judge, Isaac!Finish, Isaac!EndDrop
<1>7. CASE Isaac!EnsurePhysicsScene
  BY <1>7 DEF Isaac!EnsurePhysicsScene, Isaac!Next1, Isaac!EnvironmentMismatch,
      Isaac!ValidationAbort, Isaac!Judge, Isaac!Finish, Isaac!EndDrop
<1>8. CASE Isaac!Cook
  BY <1>8 DEF Isaac!Cook, Isaac!Next1, Isaac!EnvironmentMismatch, Isaac!ValidationAbort,
      Isaac!Judge, Isaac!Finish, Isaac!EndDrop
<1>9. CASE Isaac!AuditColliders
  BY <1>9 DEF Isaac!AuditColliders, Isaac!Next1, Isaac!EnvironmentMismatch, Isaac!ValidationAbort,
      Isaac!Judge, Isaac!Finish, Isaac!EndDrop
<1>9a. CASE Isaac!AuditFallback
  BY <1>9a DEF Isaac!AuditFallback, Isaac!Next1, Isaac!EnvironmentMismatch, Isaac!ValidationAbort,
      Isaac!Judge, Isaac!Finish, Isaac!EndDrop
<1>10. CASE Isaac!StartDrop
  BY <1>10 DEF Isaac!StartDrop, Isaac!Next1, Isaac!EnvironmentMismatch, Isaac!ValidationAbort,
      Isaac!Judge, Isaac!Finish, Isaac!EndDrop
<1>11. CASE \E z \in {"nan", "below", "rest", "moving", "still"} : Isaac!StepSphere(z)
  BY <1>11 DEF Isaac!StepSphere, Isaac!Next1, Isaac!EnvironmentMismatch, Isaac!ValidationAbort,
      Isaac!Judge, Isaac!Finish, Isaac!EndDrop
<1>12. CASE Isaac!BelowFloorSweep
  BY <1>12 DEF Isaac!BelowFloorSweep, Isaac!Next1, Isaac!EnvironmentMismatch, Isaac!ValidationAbort,
      Isaac!Judge, Isaac!Finish, Isaac!EndDrop
<1>13. CASE \E raises \in BOOLEAN : Isaac!DynamicsPhase(raises)
  BY <1>13 DEF Isaac!DynamicsPhase, Isaac!Next1, Isaac!EnvironmentMismatch, Isaac!ValidationAbort,
      Isaac!Judge, Isaac!Finish, Isaac!EndDrop
<1>14. CASE \E errors, warnings \in BOOLEAN : Isaac!HarvestLog(errors, warnings)
  BY <1>14 DEF Isaac!HarvestLog, Isaac!Next1, Isaac!EnvironmentMismatch, Isaac!ValidationAbort,
      Isaac!Judge, Isaac!Finish, Isaac!EndDrop
<1>15. CASE Isaac!Raise
  BY <1>15 DEF Isaac!Raise, Isaac!Next1, Isaac!EnvironmentMismatch, Isaac!ValidationAbort,
      Isaac!Judge, Isaac!Finish, Isaac!EndDrop
<1>16. CASE UNCHANGED isaacVars
  BY <1>16 DEF isaacVars
<1>17. QED
  BY <1>2, <1>3, <1>4, <1>5, <1>6, <1>7, <1>8, <1>9, <1>9a, <1>10, <1>11, <1>12, <1>13, <1>14, <1>15, <1>16
  DEF Isaac!Next

LEMMA StepEstablished == ASSUME IsaacInv, [Isaac!Next]_isaacVars PROVE Established'
<1>1. Isaac!Opened' = Isaac!Opened /\ Isaac!HasFloor' = Isaac!HasFloor
  BY FrameKept DEF Isaac!Opened, Isaac!HasFloor
<1> USE <1>1, FrameKept DEF IsaacInv, Established, Floored
<1>2. CASE Isaac!Start
  BY <1>2 DEF Isaac!Start, Isaac!Next1, Isaac!EnvironmentMismatch, Isaac!ValidationAbort,
      Isaac!Judge, Isaac!Finish, Isaac!EndDrop
<1>3. CASE Isaac!LateImports
  BY <1>3 DEF Isaac!LateImports, Isaac!Next1, Isaac!EnvironmentMismatch, Isaac!ValidationAbort,
      Isaac!Judge, Isaac!Finish, Isaac!EndDrop
<1>4. CASE Isaac!OpenStageIsaac
  BY <1>4 DEF Isaac!OpenStageIsaac, Isaac!Next1, Isaac!EnvironmentMismatch, Isaac!ValidationAbort,
      Isaac!Judge, Isaac!Finish, Isaac!EndDrop
<1>5. CASE Isaac!Preflight
  BY <1>5 DEF Isaac!Preflight, Isaac!Next1, Isaac!EnvironmentMismatch, Isaac!ValidationAbort,
      Isaac!Judge, Isaac!Finish, Isaac!EndDrop
<1>6. CASE Isaac!RunUsdOnly
  BY <1>6 DEF Isaac!RunUsdOnly, Isaac!Next1, Isaac!EnvironmentMismatch, Isaac!ValidationAbort,
      Isaac!Judge, Isaac!Finish, Isaac!EndDrop
<1>7. CASE Isaac!EnsurePhysicsScene
  BY <1>7 DEF Isaac!EnsurePhysicsScene, Isaac!Next1, Isaac!EnvironmentMismatch,
      Isaac!ValidationAbort, Isaac!Judge, Isaac!Finish, Isaac!EndDrop
<1>8. CASE Isaac!Cook
  BY <1>8 DEF Isaac!Cook, Isaac!Next1, Isaac!EnvironmentMismatch, Isaac!ValidationAbort,
      Isaac!Judge, Isaac!Finish, Isaac!EndDrop
<1>9. CASE Isaac!AuditColliders
  BY <1>9 DEF Isaac!AuditColliders, Isaac!Next1, Isaac!EnvironmentMismatch, Isaac!ValidationAbort,
      Isaac!Judge, Isaac!Finish, Isaac!EndDrop
<1>9a. CASE Isaac!AuditFallback
  BY <1>9a DEF Isaac!AuditFallback, Isaac!Next1, Isaac!EnvironmentMismatch, Isaac!ValidationAbort,
      Isaac!Judge, Isaac!Finish, Isaac!EndDrop
<1>10. CASE Isaac!StartDrop
  BY <1>10 DEF Isaac!StartDrop, Isaac!Next1, Isaac!EnvironmentMismatch, Isaac!ValidationAbort,
      Isaac!Judge, Isaac!Finish, Isaac!EndDrop
<1>11. CASE \E z \in {"nan", "below", "rest", "moving", "still"} : Isaac!StepSphere(z)
  BY <1>11 DEF Isaac!StepSphere, Isaac!Next1, Isaac!EnvironmentMismatch, Isaac!ValidationAbort,
      Isaac!Judge, Isaac!Finish, Isaac!EndDrop
<1>12. CASE Isaac!BelowFloorSweep
  BY <1>12 DEF Isaac!BelowFloorSweep, Isaac!Next1, Isaac!EnvironmentMismatch, Isaac!ValidationAbort,
      Isaac!Judge, Isaac!Finish, Isaac!EndDrop
<1>13. CASE \E raises \in BOOLEAN : Isaac!DynamicsPhase(raises)
  BY <1>13 DEF Isaac!DynamicsPhase, Isaac!Next1, Isaac!EnvironmentMismatch, Isaac!ValidationAbort,
      Isaac!Judge, Isaac!Finish, Isaac!EndDrop
<1>14. CASE \E errors, warnings \in BOOLEAN : Isaac!HarvestLog(errors, warnings)
  BY <1>14 DEF Isaac!HarvestLog, Isaac!Next1, Isaac!EnvironmentMismatch, Isaac!ValidationAbort,
      Isaac!Judge, Isaac!Finish, Isaac!EndDrop
<1>15. CASE Isaac!Raise
  BY <1>15 DEF Isaac!Raise, Isaac!Next1, Isaac!EnvironmentMismatch, Isaac!ValidationAbort,
      Isaac!Judge, Isaac!Finish, Isaac!EndDrop
<1>16. CASE UNCHANGED isaacVars
  BY <1>16 DEF isaacVars
<1>17. QED
  BY <1>2, <1>3, <1>4, <1>5, <1>6, <1>7, <1>8, <1>9, <1>9a, <1>10, <1>11, <1>12, <1>13, <1>14, <1>15, <1>16
  DEF Isaac!Next

-----------------------------------------------------------------------------
(* What the report says *)

LEMMA AddCheckTyped ==
  ASSUME ReportTyped, NEW name, NEW entry, entry.status \in Isaac!Statuses
  PROVE  \A n \in DOMAIN Isaac!AddCheck(name, entry) : Isaac!AddCheck(name, entry)[n].status \in Isaac!Statuses
  BY DEF ReportTyped, Isaac!AddCheck

LEMMA AddChecksTyped ==
  ASSUME ReportTyped, NEW more, \A n \in DOMAIN more : more[n].status \in Isaac!Statuses
  PROVE  \A n \in DOMAIN Isaac!AddChecks(more) : Isaac!AddChecks(more)[n].status \in Isaac!Statuses
  BY DEF ReportTyped, Isaac!AddChecks

LEMMA PreflightTyped == \A n \in DOMAIN Isaac!PreflightChecks : Isaac!PreflightChecks[n].status \in Isaac!Statuses
  BY DEF Isaac!PreflightChecks, Isaac!Check, Isaac!PassIf, Isaac!MassSanity, Isaac!GpuConvexLimits,
      Isaac!Statuses

\* The report after RunUsdOnly.
ChecksUsdOnly ==
  [n \in DOMAIN Isaac!PreflightChecks \union {"stage_opened", "cooking", "collider_coverage",
                                        "sphere_drop", "physx_log_clean"} |->
     IF n \in DOMAIN Isaac!PreflightChecks THEN Isaac!PreflightChecks[n]
     ELSE IF n = "stage_opened" THEN Isaac!Check("pass", TRUE) ELSE Isaac!Check("skipped", FALSE)]

LEMMA UsdOnlyTyped == \A n \in DOMAIN ChecksUsdOnly : ChecksUsdOnly[n].status \in Isaac!Statuses
  BY PreflightTyped DEF ChecksUsdOnly, Isaac!Check, Isaac!Statuses

LEMMA StepReportTyped == ASSUME IsaacInv, [Isaac!Next]_isaacVars PROVE ReportTyped'
<1> USE AddCheckTyped DEF IsaacInv, Isaac!Check, Isaac!Statuses, Isaac!Report
<1>1. CASE Isaac!Start
  BY <1>1 DEF Isaac!Start, Isaac!EnvironmentMismatch, Isaac!Finish, ReportTyped
<1>2. CASE Isaac!LateImports
  BY <1>2 DEF Isaac!LateImports, Isaac!Next1, Isaac!EnvironmentMismatch, Isaac!Finish, ReportTyped
<1>3. CASE Isaac!OpenStageIsaac
  <2>1. CASE Isaac!Opened
    BY <1>3, <2>1 DEF Isaac!OpenStageIsaac, Isaac!Next1, ReportTyped
  <2>2. CASE ~Isaac!Opened
    <3> DEFINE entries == Isaac!AddCheck("stage_opened", Isaac!Check("fail", TRUE))
    <3>1. \A n \in DOMAIN entries : entries[n].status \in Isaac!Statuses
      OBVIOUS
    <3>2. Isaac!ValidationAbort(entries)
      BY <1>3, <2>2 DEF Isaac!OpenStageIsaac
    <3> HIDE DEF entries
    <3>3. QED
      BY <3>1, <3>2 DEF Isaac!ValidationAbort, Isaac!Finish, ReportTyped
  <2>3. QED
    BY <2>1, <2>2
<1>4. CASE Isaac!Preflight
  <2> DEFINE entries == Isaac!AddChecks(Isaac!PreflightChecks)
  <2>1. \A n \in DOMAIN entries : entries[n].status \in Isaac!Statuses
    BY AddChecksTyped, PreflightTyped
  <2>2. Isaac!Next1("preflight", "scene", entries) \/ Isaac!ValidationAbort(entries)
    BY <1>4 DEF Isaac!Preflight
  <2> HIDE DEF entries
  <2>3. QED
    BY <2>1, <2>2 DEF Isaac!Next1, Isaac!ValidationAbort, Isaac!Finish, ReportTyped
<1>5. CASE Isaac!RunUsdOnly
  <2>1. isaacChecks' = Isaac!AddCheck("stage_opened", Isaac!Check("fail", TRUE)) \/ isaacChecks' = Isaac!AddChecks(ChecksUsdOnly)
    BY <1>5 DEF Isaac!RunUsdOnly, Isaac!Finish, Isaac!Judge, ChecksUsdOnly
  <2>2. QED
    BY <2>1, AddChecksTyped, UsdOnlyTyped DEF ReportTyped
<1>6. CASE Isaac!EnsurePhysicsScene
  BY <1>6 DEF Isaac!EnsurePhysicsScene, Isaac!Next1, ReportTyped
<1>7. CASE Isaac!Cook
  BY <1>7 DEF Isaac!Cook, Isaac!Next1, Isaac!EnvironmentMismatch, Isaac!Finish, ReportTyped
<1>8. CASE Isaac!AuditColliders
  BY <1>8 DEF Isaac!AuditColliders, Isaac!Next1, Isaac!PassIf, ReportTyped
<1>8a. CASE Isaac!AuditFallback
  BY <1>8a DEF Isaac!AuditFallback, Isaac!Next1, ReportTyped
<1>9. CASE Isaac!StartDrop
  BY <1>9 DEF Isaac!StartDrop, Isaac!Next1, Isaac!EnvironmentMismatch, Isaac!Finish, ReportTyped
<1>10. CASE \E z \in {"nan", "below", "rest", "moving", "still"} : Isaac!StepSphere(z)
  BY <1>10 DEF Isaac!StepSphere, Isaac!EndDrop, Isaac!PassIf, ReportTyped
<1>11. CASE Isaac!BelowFloorSweep
  BY <1>11 DEF Isaac!BelowFloorSweep, Isaac!Next1, Isaac!PassIf, ReportTyped
<1>12. CASE \E raises \in BOOLEAN : Isaac!DynamicsPhase(raises)
  BY <1>12 DEF Isaac!DynamicsPhase, Isaac!Next1, ReportTyped
<1>13. CASE \E errors, warnings \in BOOLEAN : Isaac!HarvestLog(errors, warnings)
  BY <1>13 DEF Isaac!HarvestLog, Isaac!Judge, Isaac!Finish, ReportTyped
<1>14. CASE Isaac!Raise
  BY <1>14 DEF Isaac!Raise, Isaac!Finish, ReportTyped
<1>15. CASE UNCHANGED isaacVars
  BY <1>15 DEF isaacVars, ReportTyped
<1>16. QED
  BY <1>1, <1>2, <1>3, <1>4, <1>5, <1>6, <1>7, <1>8, <1>8a, <1>9, <1>10, <1>11, <1>12, <1>13, <1>14,
     <1>15 DEF Isaac!Next

-----------------------------------------------------------------------------
(* The sphere *)

LEMMA StepSphereJudged == ASSUME IsaacInv, [Isaac!Next]_isaacVars PROVE SphereJudged'
<1> USE DEF IsaacInv, SphereJudged, Dropped, Isaac!Report
<1>1. CASE Isaac!Start
  BY <1>1 DEF Isaac!Start, Isaac!EnvironmentMismatch, Isaac!Finish, Isaac!Frame
<1>2. CASE Isaac!LateImports
  BY <1>2 DEF Isaac!LateImports, Isaac!Next1, Isaac!EnvironmentMismatch, Isaac!Finish
<1>3. CASE Isaac!OpenStageIsaac
  BY <1>3 DEF Isaac!OpenStageIsaac, Isaac!Next1, Isaac!ValidationAbort, Isaac!Finish
<1>4. CASE Isaac!Preflight
  BY <1>4 DEF Isaac!Preflight, Isaac!Next1, Isaac!ValidationAbort, Isaac!Finish
<1>5. CASE Isaac!RunUsdOnly
  BY <1>5 DEF Isaac!RunUsdOnly, Isaac!Judge, Isaac!Finish
<1>6. CASE Isaac!EnsurePhysicsScene
  BY <1>6 DEF Isaac!EnsurePhysicsScene, Isaac!Next1
<1>7. CASE Isaac!Cook
  BY <1>7 DEF Isaac!Cook, Isaac!Next1, Isaac!EnvironmentMismatch, Isaac!Finish
<1>8. CASE Isaac!AuditColliders
  BY <1>8 DEF Isaac!AuditColliders, Isaac!Next1
<1>8a. CASE Isaac!AuditFallback
  BY <1>8a DEF Isaac!AuditFallback, Isaac!Next1
<1>9. CASE Isaac!StartDrop
  BY <1>9 DEF Isaac!StartDrop, Isaac!Next1, Isaac!EnvironmentMismatch, Isaac!Finish
<1>10. CASE \E z \in {"nan", "below", "rest", "moving", "still"} : Isaac!StepSphere(z)
  <2>1. PICK z \in {"nan", "below", "rest", "moving", "still"} : Isaac!StepSphere(z)
    BY <1>10
  <2>2. isaacDrop'.hold = isaacSeen' /\ isaacDrop'.hold = Isaac!Held(z)
    BY <2>1 DEF Isaac!StepSphere, Isaac!Held
  <2>3. isaacDrop'.verdict = "settled" => Isaac!Held(z) >= SettleHold
    BY <2>1 DEF Isaac!StepSphere
  <2>4. isaacPc' \in Dropped => Isaac!EndDrop(isaacDrop'.verdict)
    BY <2>1 DEF Isaac!StepSphere
  <2>5. QED
    BY <2>2, <2>3, <2>4 DEF Isaac!EndDrop, Isaac!AddCheck
<1>11. CASE Isaac!BelowFloorSweep
  BY <1>11 DEF Isaac!BelowFloorSweep, Isaac!Next1, Isaac!AddCheck
<1>12. CASE \E raises \in BOOLEAN : Isaac!DynamicsPhase(raises)
  BY <1>12 DEF Isaac!DynamicsPhase, Isaac!Next1, Isaac!AddCheck
<1>13. CASE \E errors, warnings \in BOOLEAN : Isaac!HarvestLog(errors, warnings)
  BY <1>13 DEF Isaac!HarvestLog, Isaac!Judge, Isaac!Finish
<1>14. CASE Isaac!Raise
  BY <1>14 DEF Isaac!Raise, Isaac!Finish
<1>15. CASE UNCHANGED isaacVars
  BY <1>15 DEF isaacVars
<1>16. QED
  BY <1>1, <1>2, <1>3, <1>4, <1>5, <1>6, <1>7, <1>8, <1>8a, <1>9, <1>10, <1>11, <1>12, <1>13, <1>14,
     <1>15 DEF Isaac!Next

-----------------------------------------------------------------------------
(* What was required and did not pass *)

\* An entry leaves the others alone.
LEMMA AddCheckKeeps ==
  ASSUME NEW name, NEW entry, Isaac!Report(Isaac!AddCheck(name, entry))
  PROVE  /\ DOMAIN isaacChecks' = DOMAIN isaacChecks \union {name}
         /\ isaacChecks'[name] = entry
         /\ \A n \in DOMAIN isaacChecks \ {name} : isaacChecks'[n] = isaacChecks[n]
  BY DEF Isaac!Report, Isaac!AddCheck

LEMMA AddChecksKeeps ==
  ASSUME NEW more, Isaac!Report(Isaac!AddChecks(more))
  PROVE  /\ DOMAIN isaacChecks' = DOMAIN isaacChecks \union DOMAIN more
         /\ \A n \in DOMAIN more : isaacChecks'[n] = more[n]
         /\ \A n \in DOMAIN isaacChecks \ DOMAIN more : isaacChecks'[n] = isaacChecks[n]
  BY DEF Isaac!Report, Isaac!AddChecks

LEMMA ReportKnown == ASSUME NEW entries, Isaac!Report(entries) PROVE UnmetKnown'
  BY DEF Isaac!Report, UnmetKnown, Unmet

LEMMA StepUnmetKnown == ASSUME IsaacInv, [Isaac!Next]_isaacVars PROVE UnmetKnown'
<1>1. ASSUME UNCHANGED <<isaacChecks, isaacUnmet>> PROVE UnmetKnown'
  BY <1>1 DEF IsaacInv, UnmetKnown
<1>2. \A entries, a, b : Isaac!Next1(a, b, entries) => Isaac!Report(entries)
  BY DEF Isaac!Next1
<1>3. \A entries, c : Isaac!Finish(entries, c) => Isaac!Report(entries)
  BY DEF Isaac!Finish
<1>4. (\E entries : Isaac!Report(entries)) \/ UNCHANGED <<isaacChecks, isaacUnmet>>
  <2> USE <1>2, <1>3 DEF Isaac!EnvironmentMismatch, Isaac!ValidationAbort, Isaac!Judge
  <2>1. CASE Isaac!Start
    BY <2>1 DEF Isaac!Start
  <2>2. CASE Isaac!LateImports
    BY <2>2 DEF Isaac!LateImports
  <2>3. CASE Isaac!OpenStageIsaac
    BY <2>3 DEF Isaac!OpenStageIsaac
  <2>4. CASE Isaac!Preflight
    BY <2>4 DEF Isaac!Preflight
  <2>5. CASE Isaac!RunUsdOnly
    BY <2>5 DEF Isaac!RunUsdOnly
  <2>6. CASE Isaac!EnsurePhysicsScene
    BY <2>6 DEF Isaac!EnsurePhysicsScene
  <2>7. CASE Isaac!Cook
    BY <2>7 DEF Isaac!Cook
  <2>8. CASE Isaac!AuditFallback
    BY <2>8 DEF Isaac!AuditFallback
  <2>9. CASE Isaac!AuditColliders
    BY <2>9 DEF Isaac!AuditColliders
  <2>10. CASE Isaac!StartDrop
    BY <2>10 DEF Isaac!StartDrop
  <2>11. ASSUME NEW z, Isaac!StepSphere(z) PROVE (\E entries : Isaac!Report(entries)) \/ UNCHANGED <<isaacChecks, isaacUnmet>>
    BY <2>11 DEF Isaac!StepSphere, Isaac!EndDrop
  <2>12. CASE Isaac!BelowFloorSweep
    BY <2>12 DEF Isaac!BelowFloorSweep
  <2>13. ASSUME NEW x, Isaac!DynamicsPhase(x) PROVE \E entries : Isaac!Report(entries)
    BY <2>13 DEF Isaac!DynamicsPhase
  <2>14. ASSUME NEW x, NEW y, Isaac!HarvestLog(x, y) PROVE \E entries : Isaac!Report(entries)
    BY <2>14 DEF Isaac!HarvestLog
  <2>15. CASE Isaac!Raise
    BY <2>15 DEF Isaac!Raise
  <2>16. CASE UNCHANGED isaacVars
    BY <2>16 DEF isaacVars
  <2>17. QED
    BY <2>1, <2>2, <2>3, <2>4, <2>5, <2>6, <2>7, <2>8, <2>9, <2>10, <2>11, <2>12, <2>13, <2>14,
       <2>15, <2>16 DEF Isaac!Next
<1>5. QED
  BY <1>1, <1>4, ReportKnown

\* A check entered for the first time, or after the fall back, hides none that failed.
LEMMA AddShown ==
  ASSUME IsaacInv, NEW name, NEW entry, Isaac!Report(Isaac!AddCheck(name, entry)), isaacPc # "done",
         UNCHANGED <<isaacArgs, isaacBuild>>,
         name \notin isaacUnmet \/ (name = "collider_coverage" /\ Isaac!FellBack),
         isaacUnmet \union (IF Unmet(entry) THEN {name} ELSE {}) \subseteq UnmetBefore'
  PROVE  UnmetShown'
<1>1. Isaac!FellBack' = Isaac!FellBack
  BY DEF Isaac!FellBack
<1>2. isaacUnmet' \subseteq isaacUnmet \union (IF Unmet(entry) THEN {name} ELSE {})
  <2>1. SUFFICES ASSUME NEW n \in isaacUnmet', n \notin isaacUnmet PROVE Unmet(entry) /\ n = name
    OBVIOUS
  <2>2. n \in DOMAIN isaacChecks' /\ Unmet(isaacChecks'[n])
    BY <2>1 DEF Isaac!Report, Unmet
  <2>3. QED
    BY <2>1, <2>2, AddCheckKeeps DEF IsaacInv, UnmetKnown
<1>3. ASSUME NEW n \in isaacUnmet'
      PROVE  \/ n = "collider_coverage" /\ Isaac!FellBack'
             \/ n \in DOMAIN isaacChecks' /\ Unmet(isaacChecks'[n])
  <2>1. CASE n = name
    <3>1. name \in DOMAIN isaacChecks' /\ isaacChecks'[name] = entry
      BY AddCheckKeeps
    <3>2. CASE Unmet(entry)
      BY <2>1, <3>1, <3>2
    <3>3. CASE ~Unmet(entry)
      BY <1>1, <1>2, <1>3, <2>1, <3>3
    <3>4. QED
      BY <3>2, <3>3
  <2>2. CASE n # name
    BY <1>1, <1>2, <1>3, <2>2, AddCheckKeeps DEF IsaacInv, UnmetShown
  <2>3. QED
    BY <2>1, <2>2
<1>4. QED
  BY <1>2, <1>3 DEF UnmetShown, Unmet

LEMMA StepUnmetShown == ASSUME IsaacInv, [Isaac!Next]_isaacVars PROVE UnmetShown'
<1> SUFFICES ASSUME isaacPc' # "done" PROVE UnmetShown'
  BY DEF UnmetShown
<1>1. \A entries, c : ~Isaac!Finish(entries, c)
  BY DEF Isaac!Finish
<1>2. \A entries : ~Isaac!EnvironmentMismatch(entries) /\ ~Isaac!ValidationAbort(entries) /\ ~Isaac!Judge(entries)
  BY <1>1 DEF Isaac!EnvironmentMismatch, Isaac!ValidationAbort, Isaac!Judge
<1>3. DOMAIN Isaac!PreflightChecks =
        {"stage_conventions", "floor_present", "floor_objects_footprint_overlap", "mass_sanity", "scale_sanity", "gpu_convex_limits"}
  BY DEF Isaac!PreflightChecks
<1>4. (DOMAIN Isaac!PreflightChecks)' = DOMAIN Isaac!PreflightChecks
  <2>1. (DOMAIN Isaac!PreflightChecks)' =
        {"stage_conventions", "floor_present", "floor_objects_footprint_overlap", "mass_sanity", "scale_sanity", "gpu_convex_limits"}
    BY DEF Isaac!PreflightChecks
  <2>2. QED
    BY <1>3, <2>1
<1>5. isaacPc # "done" => isaacUnmet \subseteq UnmetBefore
  BY DEF IsaacInv, UnmetShown
<1> DEFINE Same == UNCHANGED <<isaacChecks, isaacUnmet, isaacArgs, isaacBuild>> /\ UnmetBefore \subseteq UnmetBefore' /\ isaacPc # "done"
<1>6. ASSUME Same PROVE UnmetShown'
  BY <1>5, <1>6 DEF IsaacInv, UnmetShown, Isaac!FellBack
<1> HIDE DEF Same
<1> USE FrameKept, <1>2, <1>4, <1>5
<1> USE DEF UnmetBefore, Early, Audited, Dropped
<1>7. CASE Isaac!Start
  BY <1>6, <1>7 DEF Isaac!Start, Same
<1>8. CASE Isaac!LateImports
  <2>1. Isaac!Next1("imports", "open", isaacChecks)
    BY <1>8 DEF Isaac!LateImports
  <2>2. QED
    BY <1>6, <2>1 DEF Isaac!Next1, Same, Isaac!Report, IsaacInv, UnmetKnown, Unmet
<1>9. CASE Isaac!OpenStageIsaac
  <2>1. Isaac!Next1("open", "preflight", Isaac!AddCheck("stage_opened", Isaac!Check("pass", TRUE)))
    BY <1>9 DEF Isaac!OpenStageIsaac
  <2>2. QED
    BY <2>1, AddShown DEF Isaac!Next1, Isaac!Check, Unmet
<1>10. CASE Isaac!Preflight
  <2>1. Isaac!Next1("preflight", "scene", Isaac!AddChecks(Isaac!PreflightChecks))
    BY <1>10 DEF Isaac!Preflight
  <2>2. isaacUnmet = {} /\ isaacPc' = "scene" /\ Isaac!Report(Isaac!AddChecks(Isaac!PreflightChecks))
    BY <2>1 DEF Isaac!Next1
  <2>3. \A n \in isaacUnmet' : n \in DOMAIN isaacChecks' /\ Unmet(isaacChecks'[n])
    BY <2>2 DEF Isaac!Report, Unmet
  <2>4. \A n \in isaacUnmet' : n \in DOMAIN Isaac!PreflightChecks
    BY <2>2, <2>3, AddChecksKeeps DEF IsaacInv, UnmetKnown
  <2>5. QED
    BY <2>2, <2>3, <2>4 DEF UnmetShown
<1>11. CASE Isaac!RunUsdOnly
  BY <1>1, <1>11 DEF Isaac!RunUsdOnly
<1>12. CASE Isaac!EnsurePhysicsScene
  BY <1>3, <1>12, AddShown DEF Isaac!EnsurePhysicsScene, Isaac!Next1, Isaac!Check, Unmet
<1>13. CASE Isaac!Cook
  <2>1. Isaac!Next1("cook", "audit", Isaac!AddCheck("cooking", Isaac!Check("pass", TRUE)))
    BY <1>13 DEF Isaac!Cook
  <2>2. QED
    BY <1>3, <2>1, AddShown DEF Isaac!Next1, Isaac!Check, Unmet
<1>14. CASE Isaac!AuditFallback
  BY <1>3, <1>14, AddShown DEF Isaac!AuditFallback, Isaac!Next1
<1>15. CASE Isaac!AuditColliders
  <2>1. PICK entry : Isaac!Next1(isaacPc, "drop", Isaac!AddCheck("collider_coverage", entry))
    BY <1>15 DEF Isaac!AuditColliders
  <2>a. isaacPc = "audit_schema" => Isaac!FellBack
    BY DEF IsaacInv, Entered
  <2>2. isaacPc = "audit" \/ (isaacPc = "audit_schema" /\ Isaac!FellBack)
    BY <1>15, <2>a DEF Isaac!AuditColliders
  <2>3. Isaac!Report(Isaac!AddCheck("collider_coverage", entry)) /\ isaacPc' = "drop"
    BY <2>1 DEF Isaac!Next1
  <2>4. isaacPc = "audit" => "collider_coverage" \notin isaacUnmet
    BY <1>3
  <2>5. isaacUnmet \union {"collider_coverage"} \subseteq UnmetBefore'
    BY <2>2, <2>3
  <2>6. QED
    BY <2>2, <2>3, <2>4, <2>5, AddShown
<1>16. CASE Isaac!StartDrop
  BY <1>6, <1>16 DEF Isaac!StartDrop, Isaac!Next1, Same, Isaac!Report, IsaacInv, UnmetKnown, Unmet
<1>17. ASSUME NEW z, Isaac!StepSphere(z) PROVE UnmetShown'
  <2>1. isaacPc = "stepping"
    BY <1>17 DEF Isaac!StepSphere
  <2>2. CASE UNCHANGED <<isaacPc, isaacChecks, isaacUnmet>>
    BY <1>6, <2>1, <2>2 DEF Same
  <2>3. CASE \E verdict : Isaac!EndDrop(verdict)
    BY <1>3, <2>1, <2>3, AddShown DEF Isaac!EndDrop
  <2>4. QED
    BY <1>17, <2>2, <2>3 DEF Isaac!StepSphere
<1>18. CASE Isaac!BelowFloorSweep
  BY <1>3, <1>18, AddShown DEF Isaac!BelowFloorSweep, Isaac!Next1
<1>19. ASSUME NEW x, Isaac!DynamicsPhase(x) PROVE UnmetShown'
  <2>1. PICK entry : Isaac!Next1("dynamics", "log", Isaac!AddCheck("dynamics_settling", entry))
    BY <1>19 DEF Isaac!DynamicsPhase
  <2>2. QED
    BY <1>3, <2>1, AddShown DEF Isaac!Next1
<1>20. ASSUME NEW x, NEW y, Isaac!HarvestLog(x, y) PROVE FALSE
  BY <1>20 DEF Isaac!HarvestLog
<1>21. CASE Isaac!Raise
  BY <1>1, <1>21 DEF Isaac!Raise
<1>22. CASE UNCHANGED isaacVars
  BY <1>6, <1>22 DEF isaacVars, Same
<1>23. QED
  BY <1>7, <1>8, <1>9, <1>10, <1>11, <1>12, <1>13, <1>14, <1>15, <1>16, <1>17, <1>18, <1>19, <1>20,
     <1>21, <1>22 DEF Isaac!Next

LEMMA AddEntered ==
  ASSUME NEW name, NEW entry, Isaac!Report(Isaac!AddCheck(name, entry)), name # "collider_coverage"
  PROVE  /\ name \in DOMAIN isaacChecks'
         /\ DOMAIN isaacChecks \subseteq DOMAIN isaacChecks'
         /\ "collider_coverage" \in DOMAIN isaacChecks =>
              isaacChecks'["collider_coverage"] = isaacChecks["collider_coverage"]
  BY AddCheckKeeps

LEMMA StepEntered == ASSUME IsaacInv, [Isaac!Next]_isaacVars PROVE Entered'
<1> SUFFICES ASSUME isaacPc' # "done" PROVE Entered'
  BY DEF Entered, Floored, Audited, Dropped
<1>1. \A entries, c : ~Isaac!Finish(entries, c)
  BY DEF Isaac!Finish
<1>2. \A entries : ~Isaac!EnvironmentMismatch(entries) /\ ~Isaac!ValidationAbort(entries) /\ ~Isaac!Judge(entries)
  BY <1>1 DEF Isaac!EnvironmentMismatch, Isaac!ValidationAbort, Isaac!Judge
<1>3. DOMAIN Isaac!PreflightChecks =
        {"stage_conventions", "floor_present", "floor_objects_footprint_overlap", "mass_sanity", "scale_sanity", "gpu_convex_limits"}
  BY DEF Isaac!PreflightChecks
<1>4. (DOMAIN Isaac!PreflightChecks)' = DOMAIN Isaac!PreflightChecks
  <2>1. (DOMAIN Isaac!PreflightChecks)' =
        {"stage_conventions", "floor_present", "floor_objects_footprint_overlap", "mass_sanity", "scale_sanity", "gpu_convex_limits"}
    BY DEF Isaac!PreflightChecks
  <2>2. QED
    BY <1>3, <2>1
<1>5. Isaac!FellBack' = Isaac!FellBack /\ isaacFile' = isaacFile /\ isaacArgs' = isaacArgs
  BY FrameKept DEF Isaac!FellBack
<1>6. Isaac!PassIf(\A p \in isaacFile.prims : Isaac!Confirmed(p))' = Isaac!PassIf(\A p \in isaacFile.prims : Isaac!Confirmed(p))
  BY FrameKept DEF Isaac!PassIf, Isaac!Confirmed, Isaac!Functional
<1> USE <1>2, <1>4, <1>5, <1>6 DEF IsaacInv, Entered, Floored, Audited, Dropped, Isaac!Check
<1>7. CASE Isaac!Start
  BY <1>7 DEF Isaac!Start
<1>8. CASE Isaac!LateImports
  BY <1>8 DEF Isaac!LateImports, Isaac!Next1
<1>9. CASE Isaac!OpenStageIsaac
  <2>1. Isaac!Next1("open", "preflight", Isaac!AddCheck("stage_opened", Isaac!Check("pass", TRUE)))
    BY <1>9 DEF Isaac!OpenStageIsaac
  <2>2. isaacPc' = "preflight" /\ Isaac!Report(Isaac!AddCheck("stage_opened", Isaac!Check("pass", TRUE)))
    BY <2>1 DEF Isaac!Next1
  <2>3. "stage_opened" \in DOMAIN isaacChecks'
    BY <2>2, AddEntered
  <2>4. QED
    BY <2>2, <2>3
<1>10. CASE Isaac!Preflight
  BY <1>10, AddChecksKeeps DEF Isaac!Preflight, Isaac!Next1
<1>11. CASE Isaac!RunUsdOnly
  BY <1>1, <1>11 DEF Isaac!RunUsdOnly
<1>12. CASE Isaac!EnsurePhysicsScene
  <2>1. /\ isaacPc = "scene" /\ isaacPc' = "cook"
        /\ Isaac!Report(Isaac!AddCheck("physics_scene", Isaac!Check("pass", TRUE)))
    BY <1>12 DEF Isaac!EnsurePhysicsScene, Isaac!Next1
  <2>2. "physics_scene" \in DOMAIN isaacChecks' /\ DOMAIN isaacChecks \subseteq DOMAIN isaacChecks'
    BY <2>1, AddEntered
  <2>3. QED
    BY <2>1, <2>2
<1>13. CASE Isaac!Cook
  BY <1>13, AddCheckKeeps DEF Isaac!Cook, Isaac!Next1
<1>14. CASE Isaac!AuditFallback
  BY <1>14, AddCheckKeeps DEF Isaac!AuditFallback, Isaac!Next1
<1>15. CASE Isaac!AuditColliders
  <2> DEFINE entry == IF isaacArgs.check = "none" THEN Isaac!Check("skipped", FALSE)
                      ELSE Isaac!Check(Isaac!PassIf(\A p \in isaacFile.prims : Isaac!Confirmed(p)), TRUE)
  <2>1. Isaac!Report(Isaac!AddCheck("collider_coverage", entry)) /\ isaacPc' = "drop" /\ isaacPc \in {"audit", "audit_schema"}
    BY <1>15 DEF Isaac!AuditColliders, Isaac!Next1
  <2>2. isaacChecks'["collider_coverage"] = entry /\ DOMAIN isaacChecks' = DOMAIN isaacChecks \union {"collider_coverage"}
    BY <2>1, AddCheckKeeps
  <2>3. QED
    BY <2>1, <2>2
<1>16. CASE Isaac!StartDrop
  BY <1>16 DEF Isaac!StartDrop, Isaac!Next1, Isaac!Report
<1>17. ASSUME NEW z, Isaac!StepSphere(z) PROVE Entered'
  <2>1. isaacPc = "stepping"
    BY <1>17 DEF Isaac!StepSphere
  <2>2. CASE UNCHANGED <<isaacPc, isaacChecks, isaacUnmet>>
    BY <2>1, <2>2
  <2>3. CASE \E verdict : Isaac!EndDrop(verdict)
    <3>1. PICK entry : isaacPc' = "sweep" /\ Isaac!Report(Isaac!AddCheck("sphere_drop", entry))
      BY <2>3 DEF Isaac!EndDrop
    <3>2. DOMAIN isaacChecks \subseteq DOMAIN isaacChecks'
      BY <3>1, AddEntered
    <3>3. isaacChecks'["collider_coverage"] = isaacChecks["collider_coverage"]
      BY <2>1, <3>1, AddEntered
    <3>4. QED
      BY <2>1, <3>1, <3>2, <3>3
  <2>4. QED
    BY <1>17, <2>2, <2>3 DEF Isaac!StepSphere
<1>18. CASE Isaac!BelowFloorSweep
  <2>1. PICK entry : Isaac!Next1("sweep", "dynamics", Isaac!AddCheck("no_static_prim_below_floor", entry))
    BY <1>18 DEF Isaac!BelowFloorSweep
  <2>2. /\ isaacPc = "sweep" /\ isaacPc' = "dynamics"
        /\ Isaac!Report(Isaac!AddCheck("no_static_prim_below_floor", entry))
    BY <2>1 DEF Isaac!Next1
  <2>3. DOMAIN isaacChecks \subseteq DOMAIN isaacChecks' /\ "no_static_prim_below_floor" \in DOMAIN isaacChecks'
    BY <2>2, AddEntered
  <2>4. isaacChecks'["collider_coverage"] = isaacChecks["collider_coverage"]
    BY <2>2, AddEntered
  <2>5. QED
    BY <2>2, <2>3, <2>4
<1>19. ASSUME NEW x, Isaac!DynamicsPhase(x) PROVE Entered'
  <2>1. PICK entry : Isaac!Next1("dynamics", "log", Isaac!AddCheck("dynamics_settling", entry))
    BY <1>19 DEF Isaac!DynamicsPhase
  <2>2. QED
    <3>1. isaacPc = "dynamics" /\ isaacPc' = "log" /\ Isaac!Report(Isaac!AddCheck("dynamics_settling", entry))
      BY <2>1 DEF Isaac!Next1
    <3>2. DOMAIN isaacChecks \subseteq DOMAIN isaacChecks'
      BY <3>1, AddEntered
    <3>3. isaacChecks'["collider_coverage"] = isaacChecks["collider_coverage"]
      BY <3>1, AddEntered
    <3>4. QED
      BY <3>1, <3>2, <3>3
<1>20. ASSUME NEW x, NEW y, Isaac!HarvestLog(x, y) PROVE FALSE
  BY <1>20 DEF Isaac!HarvestLog
<1>21. CASE Isaac!Raise
  BY <1>1, <1>21 DEF Isaac!Raise
<1>22. CASE UNCHANGED isaacVars
  BY <1>22 DEF isaacVars
<1>23. QED
  BY <1>7, <1>8, <1>9, <1>10, <1>11, <1>12, <1>13, <1>14, <1>15, <1>16, <1>17, <1>18, <1>19, <1>20,
     <1>21, <1>22 DEF Isaac!Next

-----------------------------------------------------------------------------
(* The exit code *)

\* Only two steps end with 0: the verdict without Isaac, and the one after the log.
LEMMA ZeroIsJudged ==
  ASSUME IsaacInv, [Isaac!Next]_isaacVars, isaacCode' = 0
  PROVE  Isaac!RunUsdOnly \/ (\E errors, warnings \in BOOLEAN : Isaac!HarvestLog(errors, warnings))
           \/ UNCHANGED isaacVars
<1>0. None # 0
  BY NoneAssumption
<1>1. isaacPc # "done" => isaacCode = None
  BY DEF IsaacInv, Undecided
<1>2. \A entries : ~Isaac!ValidationAbort(entries) /\ ~Isaac!EnvironmentMismatch(entries)
  BY DEF Isaac!ValidationAbort, Isaac!EnvironmentMismatch, Isaac!Finish
<1>3. ASSUME Isaac!Start PROVE FALSE
  BY <1>0, <1>1, <1>2, <1>3 DEF Isaac!Start
<1>4. ASSUME Isaac!LateImports PROVE FALSE
  BY <1>0, <1>1, <1>2, <1>4 DEF Isaac!LateImports, Isaac!Next1
<1>5. ASSUME Isaac!OpenStageIsaac PROVE FALSE
  BY <1>0, <1>1, <1>2, <1>5 DEF Isaac!OpenStageIsaac, Isaac!Next1
<1>6. ASSUME Isaac!Preflight PROVE FALSE
  BY <1>0, <1>1, <1>2, <1>6 DEF Isaac!Preflight, Isaac!Next1
<1>7. ASSUME Isaac!EnsurePhysicsScene PROVE FALSE
  BY <1>0, <1>1, <1>7 DEF Isaac!EnsurePhysicsScene, Isaac!Next1
<1>8. ASSUME Isaac!Cook PROVE FALSE
  BY <1>0, <1>1, <1>2, <1>8 DEF Isaac!Cook, Isaac!Next1
<1>9. ASSUME Isaac!AuditColliders PROVE FALSE
  <2>1. isaacPc \in {"audit", "audit_schema"} /\ isaacCode' = isaacCode
    BY <1>9 DEF Isaac!AuditColliders, Isaac!Next1
  <2>2. QED
    BY <1>0, <1>1, <2>1
<1>9a. ASSUME Isaac!AuditFallback PROVE FALSE
  BY <1>0, <1>1, <1>9a DEF Isaac!AuditFallback, Isaac!Next1
<1>10. ASSUME Isaac!StartDrop PROVE FALSE
  BY <1>0, <1>1, <1>2, <1>10 DEF Isaac!StartDrop, Isaac!Next1
<1>11. ASSUME NEW z, Isaac!StepSphere(z) PROVE FALSE
  BY <1>0, <1>1, <1>11 DEF Isaac!StepSphere
<1>12. ASSUME Isaac!BelowFloorSweep PROVE FALSE
  BY <1>0, <1>1, <1>12 DEF Isaac!BelowFloorSweep, Isaac!Next1
<1>13. ASSUME NEW raises, Isaac!DynamicsPhase(raises) PROVE FALSE
  BY <1>0, <1>1, <1>13 DEF Isaac!DynamicsPhase, Isaac!Next1
<1>14. ASSUME Isaac!Raise PROVE FALSE
  BY <1>0, <1>1, <1>14 DEF Isaac!Raise, Isaac!Finish
<1>15. QED
  BY <1>3, <1>4, <1>5, <1>6, <1>7, <1>8, <1>9, <1>9a, <1>10, <1>11, <1>12, <1>13, <1>14 DEF Isaac!Next

LEMMA StepPassIsEarned == ASSUME IsaacInv, [Isaac!Next]_isaacVars PROVE Isaac!PassIsEarned'
<1> SUFFICES ASSUME isaacCode' = 0 PROVE Isaac!PassIsEarned'
  BY DEF Isaac!PassIsEarned
<1>1. /\ Isaac!Opened' = Isaac!Opened /\ Isaac!HasFloor' = Isaac!HasFloor /\ isaacArgs' = isaacArgs
      /\ Isaac!FellBack' = Isaac!FellBack /\ isaacFile' = isaacFile
  BY FrameKept DEF Isaac!Opened, Isaac!HasFloor, Isaac!FellBack
<1>2. \A p : Isaac!Confirmed(p)' = Isaac!Confirmed(p)
  BY FrameKept DEF Isaac!Confirmed, Isaac!Functional
<1>3. Isaac!Needed' = Isaac!Needed
  BY FrameKept DEF Isaac!Needed, Isaac!PreflightChecks
<1>4. CASE Isaac!RunUsdOnly
  <2> DEFINE entries == Isaac!AddChecks(ChecksUsdOnly)
  <2>1. Isaac!Opened /\ Isaac!Judge(entries) /\ isaacFatal' = isaacFatal /\ isaacPc = "usd_only"
    BY <1>4 DEF Isaac!RunUsdOnly, Isaac!Finish, ChecksUsdOnly
  <2>2. isaacArgs.usdOnly /\ isaacFatal = None /\ isaacUnmet = {}
    BY <2>1 DEF IsaacInv, Established, Undecided, UnmetShown, UnmetBefore, Early, Audited, Dropped
  <2>3. \A n \in DOMAIN entries : entries[n].status \in Isaac!Statuses
    BY AddChecksTyped, UsdOnlyTyped DEF IsaacInv
  <2>4. /\ \A n \in DOMAIN entries : entries[n].required => entries[n].status \in {"pass", "warn"}
        /\ isaacArgs.strict => \A n \in DOMAIN entries : entries[n].required => entries[n].status # "warn"
        /\ isaacChecks' = entries /\ isaacUnmet' = {}
    BY <2>1, <2>2, <2>3, JudgedPass
  <2>5. /\ "floor_present" \in DOMAIN entries
        /\ entries["floor_present"] = Isaac!Check(Isaac!PassIf(Isaac!HasFloor), TRUE)
    BY DEF Isaac!AddChecks, ChecksUsdOnly, Isaac!PreflightChecks
  <2>6. Isaac!Needed \subseteq DOMAIN entries
    BY <2>2 DEF Isaac!Needed, Isaac!AddChecks, ChecksUsdOnly
  <2> HIDE DEF entries
  <2>7. Isaac!HasFloor
    BY <2>4, <2>5 DEF Isaac!Check, Isaac!PassIf
  <2>8. QED
    BY <1>1, <1>3, <2>1, <2>2, <2>4, <2>6, <2>7 DEF Isaac!PassIsEarned
<1>5. ASSUME NEW errors \in BOOLEAN, NEW warnings \in BOOLEAN, Isaac!HarvestLog(errors, warnings)
      PROVE  Isaac!PassIsEarned'
  <2> DEFINE entry == IF ~isaacBuild.log THEN Isaac!Check("skipped", FALSE)
          ELSE Isaac!Check(IF errors THEN "fail"
                     ELSE IF warnings /\ ~isaacArgs.allowWarnings THEN "warn" ELSE "pass", TRUE)
  <2> DEFINE entries == Isaac!AddCheck("physx_log_clean", entry)
  <2>1. isaacPc = "log" /\ Isaac!Judge(entries) /\ isaacFatal' = isaacFatal /\ isaacDrop' = isaacDrop /\ isaacSeen' = isaacSeen
    BY <1>5 DEF Isaac!HarvestLog
  <2>2. Isaac!Opened /\ Isaac!HasFloor /\ isaacFatal = None /\ ~isaacArgs.usdOnly
    BY <2>1 DEF IsaacInv, Established, Undecided, Floored
  <2>3. \A n \in DOMAIN entries : entries[n].status \in Isaac!Statuses
    BY AddCheckTyped DEF IsaacInv, Isaac!Check, Isaac!Statuses
  <2>4. DOMAIN isaacChecks \subseteq DOMAIN entries /\ \A n \in DOMAIN isaacChecks \ {"physx_log_clean"} : entries[n] = isaacChecks[n]
    BY DEF Isaac!AddCheck
  <2> HIDE DEF entries
  <2>5. /\ \A n \in DOMAIN entries : entries[n].required => entries[n].status \in {"pass", "warn"}
        /\ isaacArgs.strict => \A n \in DOMAIN entries : entries[n].required => entries[n].status # "warn"
        /\ isaacChecks' = entries /\ isaacUnmet' = isaacUnmet
    BY <2>1, <2>2, <2>3, JudgedPass
  <2>6. /\ "sphere_drop" \in DOMAIN isaacChecks
        /\ isaacChecks["sphere_drop"] = Isaac!Check(Isaac!PassIf(isaacDrop.verdict = "settled"), TRUE)
    BY <2>1 DEF IsaacInv, SphereJudged, Dropped
  <2>7. isaacDrop.verdict = "settled" /\ isaacSeen >= SettleHold
    BY <2>4, <2>5, <2>6 DEF Isaac!Check, Isaac!PassIf, IsaacInv, SphereJudged
  <2>8. Isaac!Needed \subseteq DOMAIN isaacChecks
    BY <2>1, <2>2, <2>6 DEF Isaac!Needed, IsaacInv, Entered, Floored, Audited, Dropped
  <2>9. isaacUnmet \subseteq (IF Isaac!FellBack THEN {"collider_coverage"} ELSE {})
    <3>1. SUFFICES ASSUME NEW n \in isaacUnmet, ~(n = "collider_coverage" /\ Isaac!FellBack) PROVE FALSE
      OBVIOUS
    <3>2. n \in DOMAIN isaacChecks /\ Unmet(isaacChecks[n]) /\ n \in UnmetBefore
      BY <2>1, <3>1 DEF IsaacInv, UnmetShown
    <3>3. n # "physx_log_clean"
      BY <2>1, <3>2 DEF UnmetBefore, Early, Audited, Dropped, Isaac!PreflightChecks
    <3>4. QED
      BY <2>4, <2>5, <3>2, <3>3 DEF Unmet
  <2>10. isaacArgs.check # "none" => \A p \in isaacFile.prims : Isaac!Confirmed(p)
    <3>1. isaacArgs.check # "none" =>
            /\ "collider_coverage" \in DOMAIN isaacChecks
            /\ isaacChecks["collider_coverage"] = Isaac!Check(Isaac!PassIf(\A p \in isaacFile.prims : Isaac!Confirmed(p)), TRUE)
      BY <2>1 DEF IsaacInv, Entered, Audited, Dropped
    <3>2. QED
      BY <2>4, <2>5, <3>1 DEF Isaac!Check, Isaac!PassIf
  <2>11. QED
    BY <1>1, <1>2, <1>3, <2>1, <2>2, <2>4, <2>5, <2>7, <2>8, <2>9, <2>10 DEF Isaac!PassIsEarned
<1>6. CASE UNCHANGED isaacVars
  BY <1>1, <1>2, <1>3, <1>6 DEF isaacVars, IsaacInv, Isaac!PassIsEarned
<1>7. QED
  BY <1>4, <1>5, <1>6, ZeroIsJudged

-----------------------------------------------------------------------------
LEMMA StepIsaacInv == ASSUME IsaacInv, [Isaac!Next]_isaacVars PROVE IsaacInv'
  BY StepUndecided, StepEstablished, StepSphereJudged, StepReportTyped, StepUnmetKnown, StepUnmetShown,
     StepEntered, StepPassIsEarned
  DEF IsaacInv

LEMMA StepOfIsaac == [Next]_vars => [Isaac!Next]_isaacVars
  BY DEF Next, vars, isaacVars

(* However the sequence of checks was left, by a call the build lacks, a precondition, an
   exception or its end, an exit code of 0 means that the file opened with a floor, every check
   is in the report, no check that was ever entered as required had failed or was skipped but the
   overlap of a build that has none, the colliders were confirmed, and in Isaac the sphere came
   to rest. *)
THEOREM ExitZeroIsEarned == Spec => []PassIsEarned
<1>1. Init => IsaacInv
  BY InitIsaacInv DEF Init
<1>2. IsaacInv /\ [Next]_vars => IsaacInv'
  BY StepOfIsaac, StepIsaacInv
<1>3. IsaacInv => PassIsEarned
  BY DEF IsaacInv, PassIsEarned
<1>4. QED
  BY <1>1, <1>2, <1>3, PTL DEF Spec

-----------------------------------------------------------------------------
(* The boxes of an export *)

LEMMA UsdMin == ASSUME NEW S \in SUBSET Nat, S # {} PROVE Usd!Min(S) \in S /\ \A n \in S : Usd!Min(S) <= n
<1>1. \E m \in S : \A n \in S : ~(<<n, m>> \in OpToRel(<, Nat))
  BY NatLessThanWellFounded, WFMin
<1>2. \E m \in S : \A n \in S : m <= n
  <2>1. PICK m \in S : \A n \in S : ~(<<n, m>> \in OpToRel(<, Nat))
    BY <1>1
  <2>2. ASSUME NEW n \in S PROVE m <= n
    <3>1. m \in Nat /\ n \in Nat
      OBVIOUS
    <3>2. ~(n < m)
      BY <2>1, <3>1 DEF OpToRel
    <3>3. QED
      BY <3>1, <3>2
  <2>3. QED
    BY <2>2
<1>3. QED
  BY <1>2 DEF Usd!Min

Boxes == Nat \X Nat \X Nat \X Nat

\* A rectangle holds the cell that starts it, and open cells only.
LEMMA ClaimIsOpen ==
  ASSUME NEW open \in SUBSET Usd!Cells, NEW c \in open
  PROVE  /\ c \in Usd!Covered(Usd!Claim(c, open)) /\ Usd!Covered(Usd!Claim(c, open)) \subseteq open
         /\ Usd!Claim(c, open) \in Boxes
<1>1. W \in Nat /\ H \in Nat
  BY RobotsAssumption
<1>2. /\ c[1] \in Nat /\ c[2] \in Nat /\ c[1] < W /\ c[2] < H /\ c = <<c[1], c[2]>>
  BY <1>1 DEF Usd!Cells
<1> DEFINE S == {x \in c[1] .. W : <<x, c[2]>> \notin open}
           x1 == Usd!Min(S)
           T == {z \in c[2] .. H : \E x \in c[1] .. x1 - 1 : <<x, z>> \notin open}
           z1 == Usd!Min(T)
<1>3. S \in SUBSET Nat /\ W \in S
  BY <1>1, <1>2 DEF Usd!Cells
<1>4. x1 \in S /\ \A n \in S : x1 <= n
  <2> HIDE DEF S
  <2>1. S # {}
    BY <1>3
  <2>2. QED
    BY <1>3, <2>1, UsdMin
<1>5. x1 \in Nat /\ c[1] < x1 /\ \A x \in c[1] .. x1 - 1 : <<x, c[2]>> \in open
  <2> HIDE DEF x1
  <2>1. x1 \in c[1] .. W /\ <<x1, c[2]>> \notin open
    BY <1>4
  <2>2. x1 # c[1]
    BY <1>2, <2>1
  <2>3. ASSUME NEW x \in c[1] .. x1 - 1 PROVE <<x, c[2]>> \in open
    <3>1. x \in c[1] .. W /\ ~(x1 <= x)
      BY <1>1, <1>2, <2>1, <2>3
    <3>2. QED
      BY <1>4, <3>1
  <2>4. QED
    BY <1>1, <1>2, <2>1, <2>2, <2>3
<1> HIDE DEF x1
<1>6. T \in SUBSET Nat /\ H \in T
  <2>1. c[1] \in c[1] .. x1 - 1 /\ <<c[1], H>> \notin open
    BY <1>1, <1>2, <1>5 DEF Usd!Cells
  <2>2. QED
    BY <1>1, <1>2, <2>1
<1>7. z1 \in T /\ \A n \in T : z1 <= n
  <2> HIDE DEF T
  <2>1. T # {}
    BY <1>6
  <2>2. QED
    BY <1>6, <2>1, UsdMin
<1>8. z1 \in Nat /\ c[2] < z1 /\ \A x \in c[1] .. x1 - 1, z \in c[2] .. z1 - 1 : <<x, z>> \in open
  <2> HIDE DEF z1
  <2>1. z1 \in c[2] .. H /\ \E x \in c[1] .. x1 - 1 : <<x, z1>> \notin open
    BY <1>7
  <2>2. z1 # c[2]
    BY <1>5, <2>1
  <2>3. ASSUME NEW x \in c[1] .. x1 - 1, NEW z \in c[2] .. z1 - 1 PROVE <<x, z>> \in open
    <3>1. z \in c[2] .. H /\ ~(z1 <= z)
      BY <1>1, <1>2, <2>1, <2>3
    <3>2. QED
      BY <1>7, <3>1
  <2>4. QED
    BY <1>1, <1>2, <2>1, <2>2, <2>3
<1>9. Usd!Claim(c, open) = <<c[1], c[2], x1, z1>>
  BY DEF Usd!Claim, x1
<1> HIDE DEF z1
<1>10. Usd!Covered(Usd!Claim(c, open)) = (c[1] .. x1 - 1) \X (c[2] .. z1 - 1)
  BY <1>9 DEF Usd!Covered
<1>11. Usd!Claim(c, open) \in Boxes
  BY <1>2, <1>5, <1>8, <1>9 DEF Boxes
<1>12. QED
  BY <1>2, <1>5, <1>8, <1>10, <1>11

\* The scan comes to every cell.
LEMMA ScanIsComplete ==
  ASSUME NEW c \in Usd!Cells
  PROVE  \E i \in 1 .. W * H : Usd!RowMajor(i) = c
<1>1. W \in Nat /\ H \in Nat
  BY RobotsAssumption
<1>2. PICK x \in 0 .. W - 1, z \in 0 .. H - 1 : c = <<x, z>>
  BY DEF Usd!Cells
<1>3. x \in Nat /\ z \in Nat /\ x < W /\ z < H /\ W > 0
  BY <1>1, <1>2
<1> DEFINE n == z * W + x
<1>4. /\ z * W \in Nat /\ W * H = z * W + (H - z) * W
      /\ (H - z) * W = W + (H - z - 1) * W /\ (H - z - 1) * W \in Nat
  <2> DEFINE k == H - z - 1
  <2>1. k \in Nat /\ H = z + 1 + k /\ H - z = 1 + k
    BY <1>1, <1>3
  <2> HIDE DEF k
  <2>2. z * W \in Nat /\ k * W \in Nat /\ W * (z + 1 + k) = z * W + W + k * W /\ (1 + k) * W = W + k * W
    BY <1>1, <1>3, <2>1
  <2>3. H - z - 1 = k
    BY DEF k
  <2>4. QED
    BY <1>1, <1>3, <2>1, <2>2, <2>3
<1>5. n \in Nat /\ n + 1 \in 1 .. W * H
  <2>1. W * H \in Nat
    BY <1>1
  <2>2. n \in Nat /\ n + 1 <= z * W + W
    BY <1>1, <1>3, <1>4
  <2> HIDE DEF n
  <2>3. QED
    BY <1>1, <1>4, <2>1, <2>2
<1>6. n % W = x /\ n \div W = z
  <2> DEFINE q == n \div W
             r == n % W
  <2>1. q \in Nat /\ r \in 0 .. W - 1 /\ n = q * W + r
    <3> HIDE DEF n
    <3>1. QED
      BY <1>1, <1>3, <1>5
  <2> HIDE DEF q, r
  <2>2. \A a, b \in Nat : a < b => a * W + W <= b * W
    <3> TAKE a, b \in Nat
    <3> HAVE a < b
    <3> DEFINE k == b - a - 1
    <3>1. k \in Nat /\ b = a + 1 + k
      OBVIOUS
    <3> HIDE DEF k
    <3>2. b * W = a * W + W + k * W /\ k * W \in Nat /\ a * W \in Nat
      BY <1>1, <3>1
    <3>3. QED
      BY <1>1, <3>2
  <2>3. q * W \in Nat /\ z * W \in Nat /\ z * W + x = q * W + r
    BY <1>1, <1>3, <2>1
  <2>4. ~(q < z) /\ ~(z < q)
    BY <1>1, <1>3, <2>1, <2>2, <2>3
  <2>5. q = z
    BY <1>3, <2>1, <2>4
  <2>6. r = x
    BY <1>3, <2>1, <2>3, <2>5
  <2>7. QED
    BY <2>5, <2>6 DEF q, r
<1>7. Usd!RowMajor(n + 1) = <<x, z>>
  <2> DEFINE i == n + 1
  <2>1. i - 1 = n
    BY <1>5
  <2> HIDE DEF n, i
  <2>2. Usd!RowMajor(i) = <<x, z>>
    BY <1>6, <2>1 DEF Usd!RowMajor
  <2>3. QED
    BY <2>2 DEF i
<1>8. QED
  BY <1>2, <1>5, <1>7

\* What the scan has after each cell: there is such a function.
ScanOf(obstacle, N, scan) ==
  scan = [i \in 0 .. N |->
            IF i = 0 THEN [open |-> obstacle, boxes |-> <<>>] ELSE Usd!ClaimAt(Usd!RowMajor(i), scan[i - 1])]

LEMMA ScanExists == ASSUME NEW obstacle PROVE \A N \in Nat : \E scan : ScanOf(obstacle, N, scan)
<1> DEFINE Without == {N \in Nat : ~\E scan : ScanOf(obstacle, N, scan)}
<1>1. SUFFICES ASSUME Without # {} PROVE FALSE
  OBVIOUS
<1> DEFINE m == Usd!Min(Without)
<1>2. m \in Without /\ \A n \in Without : m <= n
  <2>1. Without \in SUBSET Nat
    OBVIOUS
  <2> HIDE DEF Without
  <2>2. QED
    BY <1>1, <2>1, UsdMin
<1> HIDE DEF m
<1>3. m \in Nat /\ ~\E scan : ScanOf(obstacle, m, scan)
  BY <1>2
<1>4. m # 0
  <2> DEFINE f == [i \in 0 .. 0 |-> [open |-> obstacle, boxes |-> <<>>]]
  <2>1. ScanOf(obstacle, 0, f)
    BY DEF ScanOf
  <2>2. QED
    BY <1>3, <2>1
<1>5. m - 1 \in Nat /\ m - 1 \notin Without
  BY <1>2, <1>3, <1>4
<1>6. PICK f : ScanOf(obstacle, m - 1, f)
  BY <1>5
<1> DEFINE g == [i \in 0 .. m |-> IF i = m THEN Usd!ClaimAt(Usd!RowMajor(m), f[m - 1]) ELSE f[i]]
           h == [i \in 0 .. m |->
            IF i = 0 THEN [open |-> obstacle, boxes |-> <<>>] ELSE Usd!ClaimAt(Usd!RowMajor(i), g[i - 1])]
<1>7. ASSUME NEW i \in 0 .. m PROVE g[i] = h[i]
  <2>1. CASE i = m
    <3>1. g[m - 1] = f[m - 1]
      BY <1>3, <1>5
    <3>2. QED
      BY <1>3, <1>4, <2>1, <3>1
  <2>2. CASE i # m
    <3>1. i \in 0 .. m - 1 /\ g[i] = f[i] /\ (i # 0 => i - 1 \in 0 .. m /\ i - 1 # m)
      BY <1>3, <2>2
    <3>2. i # 0 => g[i - 1] = f[i - 1]
      BY <3>1
    <3>3. f[i] = IF i = 0 THEN [open |-> obstacle, boxes |-> <<>>]
                 ELSE Usd!ClaimAt(Usd!RowMajor(i), f[i - 1])
      BY <1>6, <3>1 DEF ScanOf
    <3>4. QED
      BY <3>1, <3>2, <3>3
  <2>3. QED
    BY <2>1, <2>2
<1>8. g = h
  BY <1>7
<1>9. ScanOf(obstacle, m, g)
  BY <1>8 DEF ScanOf
<1>10. QED
  BY <1>3, <1>9

LEMMA MergedBoxes ==
  ASSUME NEW obstacle
  PROVE  \E scan : ScanOf(obstacle, W * H, scan) /\ Usd!MergeObstacleBoxes(obstacle) = scan[W * H].boxes
<1>1. W * H \in Nat
  BY RobotsAssumption
<1>2. \E scan : ScanOf(obstacle, W * H, scan)
  BY <1>1, ScanExists
<1>3. QED
  BY <1>2 DEF ScanOf, Usd!MergeObstacleBoxes

\* Boxes that cut a set of cells into parts.
Tile(boxes, cells) ==
  /\ UNION {Usd!Covered(boxes[i]) : i \in DOMAIN boxes} = cells
  /\ \A i, j \in DOMAIN boxes : i # j => Usd!Covered(boxes[i]) \cap Usd!Covered(boxes[j]) = {}

\* What the scan keeps: the boxes tile what it has claimed, and no cell it has passed is open.
Claimed(obstacle, s) ==
  /\ s = [open |-> s.open, boxes |-> s.boxes]
  /\ s.open \subseteq obstacle
  /\ s.boxes \in Seq(Boxes)
  /\ Tile(s.boxes, obstacle \ s.open)

LEMMA Appended ==
  ASSUME NEW S, NEW s \in Seq(S), NEW x \in S
  PROVE  /\ Append(s, x) \in Seq(S) /\ Len(s) + 1 \notin DOMAIN s
         /\ DOMAIN Append(s, x) = DOMAIN s \union {Len(s) + 1}
         /\ Append(s, x)[Len(s) + 1] = x
         /\ \A i \in DOMAIN s : Append(s, x)[i] = s[i]
  OBVIOUS

LEMMA ClaimAtKeeps ==
  ASSUME NEW obstacle \in SUBSET Usd!Cells, NEW s, Claimed(obstacle, s), NEW c
  PROVE  Claimed(obstacle, Usd!ClaimAt(c, s)) /\ Usd!ClaimAt(c, s).open \subseteq s.open \ {c}
<1>1. CASE c \notin s.open
  BY <1>1 DEF Usd!ClaimAt
<1>2. CASE c \in s.open
  <2> DEFINE box == Usd!Claim(c, s.open)
             boxes == Append(s.boxes, box)
             open == s.open \ Usd!Covered(box)
  <2>1. Usd!ClaimAt(c, s) = [open |-> open, boxes |-> boxes]
    BY <1>2 DEF Usd!ClaimAt
  <2>2. /\ s.open \in SUBSET Usd!Cells /\ s.open \subseteq obstacle
        /\ s.boxes \in Seq(Boxes) /\ Tile(s.boxes, obstacle \ s.open)
    BY DEF Claimed
  <2>3. c \in Usd!Covered(box) /\ Usd!Covered(box) \subseteq s.open /\ box \in Boxes
    BY <1>2, <2>2, ClaimIsOpen
  <2> HIDE DEF box
  <2> DEFINE n == Len(s.boxes) + 1
  <2>4. boxes \in Seq(Boxes) /\ \A i \in DOMAIN s.boxes : boxes[i] = s.boxes[i]
    BY <2>2, <2>3, Appended
  <2>5. n \notin DOMAIN s.boxes /\ DOMAIN boxes = DOMAIN s.boxes \union {n} /\ boxes[n] = box
    BY <2>2, <2>3, Appended
  <2> HIDE DEF boxes, n
  <2>6. UNION {Usd!Covered(boxes[i]) : i \in DOMAIN boxes} = obstacle \ open
    <3>1. {Usd!Covered(boxes[i]) : i \in DOMAIN boxes}
            = {Usd!Covered(s.boxes[i]) : i \in DOMAIN s.boxes} \union {Usd!Covered(box)}
      BY <2>4, <2>5
    <3>2. UNION {Usd!Covered(s.boxes[i]) : i \in DOMAIN s.boxes} = obstacle \ s.open
      BY <2>2 DEF Tile
    <3>3. QED
      BY <2>2, <2>3, <3>1, <3>2
  <2>7. ASSUME NEW i \in DOMAIN boxes, NEW j \in DOMAIN boxes, i # j
        PROVE  Usd!Covered(boxes[i]) \cap Usd!Covered(boxes[j]) = {}
    <3>1. \A k \in DOMAIN s.boxes : Usd!Covered(s.boxes[k]) \cap s.open = {}
      BY <2>2 DEF Tile
    <3>2. \A k \in DOMAIN s.boxes : Usd!Covered(boxes[k]) \cap Usd!Covered(box) = {}
      BY <2>3, <2>4, <3>1
    <3>3. CASE i \in DOMAIN s.boxes /\ j \in DOMAIN s.boxes
      BY <2>2, <2>4, <2>7, <3>3 DEF Tile
    <3>4. CASE i = n \/ j = n
      BY <2>5, <2>7, <3>2, <3>4
    <3>5. QED
      BY <2>5, <3>3, <3>4
  <2>8. Tile(boxes, obstacle \ open)
    BY <2>6, <2>7 DEF Tile
  <2>9. QED
    BY <2>1, <2>2, <2>3, <2>4, <2>8 DEF Claimed
<1>3. QED
  BY <1>1, <1>2

LEMMA ScanKeeps ==
  ASSUME NEW obstacle \in SUBSET Usd!Cells, NEW N \in Nat, NEW scan, ScanOf(obstacle, N, scan)
  PROVE  /\ Claimed(obstacle, scan[N])
         /\ \A j \in 1 .. N : Usd!RowMajor(j) \notin scan[N].open
<1> DEFINE Kept(i) == /\ Claimed(obstacle, scan[i])
                      /\ \A j \in 1 .. i : Usd!RowMajor(j) \notin scan[i].open
           Bad == {i \in 0 .. N : ~Kept(i)}
<1>1. SUFFICES ASSUME Bad # {} PROVE FALSE
  OBVIOUS
<1> DEFINE m == Usd!Min(Bad)
<1>2. m \in Bad /\ \A n \in Bad : m <= n
  <2>1. Bad \in SUBSET Nat
    OBVIOUS
  <2> HIDE DEF Bad
  <2>2. QED
    BY <1>1, <2>1, UsdMin
<1> HIDE DEF m
<1>3. m \in 0 .. N /\ ~Kept(m)
  BY <1>2
<1>4. ASSUME m = 0 PROVE FALSE
  <2> DEFINE none == <<>>
  <2>1. scan[m] = [open |-> obstacle, boxes |-> <<>>]
    BY <1>3, <1>4 DEF ScanOf
  <2>2. <<>> \in Seq(Boxes) /\ DOMAIN <<>> = {}
    OBVIOUS
  <2>3. Tile(<<>>, obstacle \ obstacle)
    BY <2>2 DEF Tile
  <2>4. Kept(m)
    BY <1>4, <2>1, <2>2, <2>3 DEF Claimed
  <2>5. QED
    BY <1>3, <2>4
<1>5. m - 1 \in 0 .. N /\ Kept(m - 1)
  <2>1. m - 1 \in 0 .. N /\ ~(m <= m - 1)
    BY <1>3, <1>4
  <2>2. QED
    BY <1>2, <2>1
<1>6. scan[m] = Usd!ClaimAt(Usd!RowMajor(m), scan[m - 1])
  BY <1>3, <1>4 DEF ScanOf
<1>7. Claimed(obstacle, scan[m]) /\ scan[m].open \subseteq scan[m - 1].open \ {Usd!RowMajor(m)}
  <2> DEFINE before == scan[m - 1]
             c == Usd!RowMajor(m)
  <2>1. Claimed(obstacle, before) /\ scan[m] = Usd!ClaimAt(c, before)
    BY <1>5, <1>6
  <2> HIDE DEF before, c
  <2>2. Claimed(obstacle, Usd!ClaimAt(c, before)) /\ Usd!ClaimAt(c, before).open \subseteq before.open \ {c}
    BY <2>1, ClaimAtKeeps
  <2>3. QED
    BY <2>1, <2>2 DEF before, c
<1>8. \A j \in 1 .. m : j = m \/ j \in 1 .. m - 1
  BY <1>3
<1>9. Kept(m)
  BY <1>5, <1>7, <1>8
<1>10. QED
  BY <1>3, <1>9

\* The boxes are an exact tiling of the obstacle cells.
LEMMA BoxesTile ==
  ASSUME NEW obstacle \in SUBSET Usd!Cells
  PROVE  Tile(Usd!MergeObstacleBoxes(obstacle), obstacle)
<1>1. W * H \in Nat
  BY RobotsAssumption
<1>2. PICK scan : ScanOf(obstacle, W * H, scan) /\ Usd!MergeObstacleBoxes(obstacle) = scan[W * H].boxes
  BY MergedBoxes
<1> DEFINE last == scan[W * H]
<1>3. Claimed(obstacle, last) /\ \A j \in 1 .. W * H : Usd!RowMajor(j) \notin last.open
  BY <1>1, <1>2, ScanKeeps
<1> HIDE DEF last
<1>4. last.open = {}
  BY <1>3, ScanIsComplete DEF Claimed
<1>5. Tile(last.boxes, obstacle)
  BY <1>3, <1>4 DEF Claimed
<1>6. QED
  BY <1>2, <1>5 DEF last

-----------------------------------------------------------------------------
(* The prims of an export *)

LEMMA UsdCardinality == \A S : Usd!Cardinality(S) = Cardinality(S)
  BY DEF Usd!Cardinality, Cardinality

Path(prims, i) == <<prims[i].parent, prims[i].base, prims[i].idx>>

LEMMA PathsDiffer ==
  ASSUME NEW objects, NEW fragments
  PROVE  LET prims == Usd!AddObjects(objects, fragments)
         IN \A i, j \in DOMAIN prims : i # j => Path(prims, i) # Path(prims, j)
<1> DEFINE kept == Usd!Exported(objects, fragments)
           Before(i) == {j \in 1 .. i - 1 : Sanitized[kept[j].name] = Sanitized[kept[i].name]}
           prims == Usd!AddObjects(objects, fragments)
<1>1. prims = [i \in 1 .. Len(kept) |->
        [parent |-> IF kept[i].fragment THEN "_fragments" ELSE "Objects",
         base |-> Sanitized[kept[i].name], idx |-> Usd!Cardinality(Before(i)),
         of |-> kept[i].file, source |-> Usd!Collider(kept[i])]]
  BY DEF Usd!AddObjects
<1>2. \A a, b : a .. b \subseteq Int
  OBVIOUS
<1>3. \A i \in 1 .. Len(kept) : i \in Nat \ {0}
  OBVIOUS
<1>4. ASSUME NEW i \in 1 .. Len(kept), NEW j \in 1 .. Len(kept), i < j,
             Sanitized[kept[i].name] = Sanitized[kept[j].name]
      PROVE  Usd!Cardinality(Before(i)) # Usd!Cardinality(Before(j))
  <2>1. i \in Nat /\ j \in Nat /\ i > 0
    BY <1>3
  <2>2. Before(i) \subseteq Before(j) /\ i \in Before(j) /\ i \notin Before(i)
    BY <1>4, <2>1
  <2>3. IsFiniteSet(Before(j))
    <3>1. 1 \in Int /\ j - 1 \in Int /\ Before(j) \subseteq 1 .. j - 1
      BY <2>1
    <3>2. IsFiniteSet(1 .. j - 1)
      BY <3>1, FS_Interval
    <3>3. QED
      BY <3>1, <3>2, FS_Subset
  <2> HIDE DEF Before
  <2>4. Before(i) # Before(j)
    BY <2>2
  <2>5. Cardinality(Before(i)) # Cardinality(Before(j))
    BY <2>2, <2>3, <2>4, FS_Subset
  <2>6. QED
    BY <2>5, UsdCardinality
<1> HIDE DEF kept, Before, prims
<1>5. ASSUME NEW i \in DOMAIN prims, NEW j \in DOMAIN prims, i # j, Path(prims, i) = Path(prims, j)
      PROVE  FALSE
  <2>1. i \in 1 .. Len(kept) /\ j \in 1 .. Len(kept) /\ i \in Nat /\ j \in Nat
    BY <1>1, <1>3
  <2>2. /\ prims[i].base = Sanitized[kept[i].name] /\ prims[j].base = Sanitized[kept[j].name]
        /\ prims[i].idx = Usd!Cardinality(Before(i)) /\ prims[j].idx = Usd!Cardinality(Before(j))
    BY <1>1, <2>1
  <2>3. prims[i].base = prims[j].base /\ prims[i].idx = prims[j].idx
    BY <1>5 DEF Path
  <2>4. i < j \/ j < i
    BY <1>5, <2>1
  <2>5. QED
    BY <1>4, <2>1, <2>2, <2>3, <2>4
<1>6. QED
  BY <1>5 DEF prims

-----------------------------------------------------------------------------
(* What is in the cache, what a request waits for, what was answered *)

\* A file made for a platform of this radius.
MadeFor(file, radius) ==
  /\ file.radius = radius
  /\ \E robot \in Robots, layer \in Layers :
       Radius[robot] = radius /\ Tile(file.boxes, Usd!CellsForHeight(layer, Height[robot]))
  /\ \A i, j \in DOMAIN file.prims : i # j => Path(file.prims, i) # Path(file.prims, j)

\* The directory of a scene, its exports each made for the platform of its key.
Directory(d) ==
  /\ d = [run |-> d.run, layer |-> d.layer, usd |-> d.usd, nvblox |-> d.nvblox, msa |-> d.msa]
  /\ d.layer \in Layers \union {None}
  /\ \A k \in DOMAIN d.usd : MadeFor(d.usd[k], k[3])

Waiting(r) ==
  /\ r = [at |-> r.at, key |-> r.key, robot |-> r.robot, cloud |-> r.cloud, fragments |-> r.fragments,
          run |-> r.run, layer |-> r.layer]
  /\ r.robot \in Robots /\ r.layer \in Layers /\ r.key[3] = Radius[r.robot]

Answered(a) == a.kind = "usd" => a.robot \in Robots /\ MadeFor(a.file, Radius[a.robot])

ExportInv ==
  /\ exportDisk = None \/ Directory(exportDisk)
  /\ exportReq = None \/ Waiting(exportReq)
  /\ Answered(exportAnswer)

LEMMA InitExportInv == Usd!Init => ExportInv
  BY DEF Usd!Init, Usd!Answer, ExportInv, Answered

\* A stage is what the request asks for.
LEMMA StageMadeFor ==
  ASSUME NEW r, Waiting(r), NEW objects, NEW cloud
  PROVE  MadeFor(Usd!BuildStage(r, objects, cloud), r.key[3])
<1> DEFINE file == Usd!BuildStage(r, objects, cloud)
           obstacle == Usd!CellsForHeight(r.layer, Height[r.robot])
<1>1. /\ file.radius = Radius[r.robot] /\ file.boxes = Usd!MergeObstacleBoxes(obstacle)
      /\ file.prims = Usd!AddObjects(objects, r.fragments)
  BY DEF Usd!BuildStage, Usd!AddStructure
<1>2. r.robot \in Robots /\ r.layer \in Layers /\ r.key[3] = Radius[r.robot]
  BY DEF Waiting
<1>3. obstacle \in SUBSET Usd!Cells
  BY DEF Usd!CellsForHeight
<1>4. Tile(file.boxes, obstacle)
  <2> HIDE DEF obstacle, file
  <2>1. QED
    BY <1>1, <1>3, BoxesTile
<1>5. \A i, j \in DOMAIN file.prims : i # j => Path(file.prims, i) # Path(file.prims, j)
  BY <1>1, PathsDiffer
<1>6. \E robot \in Robots, layer \in Layers :
        Radius[robot] = r.key[3] /\ Tile(file.boxes, Usd!CellsForHeight(layer, Height[robot]))
  BY <1>2, <1>4
<1> HIDE DEF file
<1>7. MadeFor(file, r.key[3])
  BY <1>1, <1>2, <1>5, <1>6 DEF MadeFor
<1>8. QED
  BY <1>7 DEF file

LEMMA EmptyDirectory == Directory(Usd!EmptyDir)
  BY DEF Directory, Usd!EmptyDir

\* Publishing into a directory leaves the exports, and a layer is a layer.
LEMMA Published ==
  ASSUME NEW d, Directory(d)
  PROVE  /\ \A run : Directory([d EXCEPT !.run = run])
         /\ \A layer \in Layers : Directory([d EXCEPT !.layer = layer])
         /\ \A on : Directory([d EXCEPT !.nvblox = on])
         /\ \A files : Directory([d EXCEPT !.msa = files])
<1>1. /\ d = [run |-> d.run, layer |-> d.layer, usd |-> d.usd, nvblox |-> d.nvblox, msa |-> d.msa]
      /\ d.layer \in Layers \union {None} /\ \A k \in DOMAIN d.usd : MadeFor(d.usd[k], k[3])
  BY DEF Directory
<1> DEFINE Of(r, l, n, m) == [run |-> r, layer |-> l, usd |-> d.usd, nvblox |-> n, msa |-> m]
<1>2. \A r, n, m : \A l \in Layers \union {None} : Directory(Of(r, l, n, m))
  BY <1>1 DEF Directory
<1>3. \A x : /\ [d EXCEPT !.run = x] = Of(x, d.layer, d.nvblox, d.msa)
             /\ [d EXCEPT !.layer = x] = Of(d.run, x, d.nvblox, d.msa)
             /\ [d EXCEPT !.nvblox = x] = Of(d.run, d.layer, x, d.msa)
             /\ [d EXCEPT !.msa = x] = Of(d.run, d.layer, d.nvblox, x)
  BY <1>1
<1> HIDE DEF Of
<1>4. ASSUME NEW run PROVE Directory([d EXCEPT !.run = run])
  <2>1. Directory(Of(run, d.layer, d.nvblox, d.msa))
    BY <1>1, <1>2
  <2>2. QED
    BY <1>3, <2>1
<1>5. \A layer \in Layers : Directory([d EXCEPT !.layer = layer])
  BY <1>2, <1>3
<1>6. \A on : Directory([d EXCEPT !.nvblox = on])
  BY <1>1, <1>2, <1>3
<1>7. ASSUME NEW files PROVE Directory([d EXCEPT !.msa = files])
  <2>1. Directory(Of(d.run, d.layer, d.nvblox, files))
    BY <1>1, <1>2
  <2>2. QED
    BY <1>3, <2>1
<1>8. QED
  BY <1>4, <1>5, <1>6, <1>7

\* An export adds its file.
LEMMA Added ==
  ASSUME NEW d, Directory(d), NEW key, NEW file, MadeFor(file, key[3])
  PROVE  Directory([d EXCEPT !.usd = [k \in DOMAIN @ \union {key} |-> IF k = key THEN file ELSE @[k]]])
<1> DEFINE more == [k \in DOMAIN d.usd \union {key} |-> IF k = key THEN file ELSE d.usd[k]]
<1>1. \A k \in DOMAIN more : MadeFor(more[k], k[3])
  BY DEF Directory
<1>2. /\ d = [run |-> d.run, layer |-> d.layer, usd |-> d.usd, nvblox |-> d.nvblox, msa |-> d.msa]
      /\ d.layer \in Layers \union {None}
  BY DEF Directory
<1> HIDE DEF more
<1>3. [d EXCEPT !.usd = more]
        = [run |-> d.run, layer |-> d.layer, usd |-> more, nvblox |-> d.nvblox, msa |-> d.msa]
  BY <1>2
<1>4. Directory([d EXCEPT !.usd = more])
  BY <1>1, <1>2, <1>3 DEF Directory
<1>5. QED
  BY <1>4 DEF more

\* No other answer is of the kind of an export.
LEMMA FirstOfNames ==
  ASSUME NEW candidates, DOMAIN candidates \in SUBSET Nat, NEW names
  PROVE  \/ Usd!FirstOf(candidates, names) = None
         \/ \E i \in DOMAIN candidates : Usd!FirstOf(candidates, names) = candidates[i]
<1> DEFINE found == {i \in DOMAIN candidates : candidates[i] \in names}
<1>1. CASE found = {}
  BY <1>1 DEF Usd!FirstOf
<1>2. CASE found # {}
  <2>1. found \in SUBSET Nat
    OBVIOUS
  <2>2. Usd!FirstOf(candidates, names) = candidates[Usd!Min(found)]
    BY <1>2 DEF Usd!FirstOf
  <2> HIDE DEF found
  <2>3. Usd!Min(found) \in found
    BY <1>2, <2>1, UsdMin
  <2>4. QED
    BY <2>2, <2>3 DEF found
<1>3. QED
  BY <1>1, <1>2

LEMMA ReadsNoUsd == ASSUME NEW robot PROVE \A a \in Usd!Reads(robot) : Answered(a)
<1>1. \A what : what # "usd" => Answered(Usd!Found(what))
  BY DEF Usd!Found, Usd!Answer, Answered
<1>2. Answered(Usd!Found(Usd!ResolveMsaGlb))
  <2>1. DOMAIN Usd!MsaGlbCandidates = {1, 2, 3, 4}
    BY DEF Usd!MsaGlbCandidates
  <2>2. \A i \in {1, 2, 3, 4} : Usd!MsaGlbCandidates[i] # "usd"
    BY DEF Usd!MsaGlbCandidates
  <2>3. QED
    BY <1>1, <2>1, <2>2, FirstOfNames DEF Usd!ResolveMsaGlb, Usd!Found, Usd!Answer, Answered
<1>3. Answered(Usd!Found(Usd!ResolveMsaObjects))
  <2>1. DOMAIN Usd!MsaObjectsCandidates = {1, 2}
    BY DEF Usd!MsaObjectsCandidates
  <2>2. \A i \in {1, 2} : Usd!MsaObjectsCandidates[i] # "usd"
    BY DEF Usd!MsaObjectsCandidates
  <2>3. QED
    BY <1>1, <2>1, <2>2, FirstOfNames DEF Usd!ResolveMsaObjects, Usd!Found, Usd!Answer, Answered
<1>4. Answered(Usd!ReadMsaMeta)
  BY <1>1 DEF Usd!ReadMsaMeta, Usd!Answer, Answered
<1>5. \A name : name # "usd" => Answered(Usd!FileOf(name))
  BY <1>1 DEF Usd!FileOf, Usd!Found, Usd!Answer, Answered
<1>6. Answered(Usd!GetSceneLayers)
  BY DEF Usd!GetSceneLayers, Usd!Answer, Answered
<1>7. \A format : Answered(Usd!GetSceneMap(format, robot))
  BY DEF Usd!GetSceneMap, Usd!Answer, Answered
<1>8. \A what : what # "usd" => Answered(Usd!FileOfRun(what))
  BY <1>1 DEF Usd!FileOfRun, Usd!Answer, Answered
<1>9. QED
  BY <1>2, <1>3, <1>4, <1>5, <1>6, <1>7, <1>8 DEF Usd!Reads

LEMMA StepDirectory ==
  ASSUME ExportInv, [Usd!Next]_exportVars PROVE exportDisk' = None \/ Directory(exportDisk')
<1>1. exportDisk = None \/ Directory(exportDisk)
  BY DEF ExportInv
<1>2. CASE Usd!Export
  <2> DEFINE objects == IF exportRow = None THEN <<>> ELSE exportRow.run.objects
             cloud == IF exportReq.cloud /\ exportDisk # None /\ exportDisk.run # None
                      THEN exportDisk.run.cloud ELSE None
             dir == IF exportDisk = None THEN Usd!EmptyDir ELSE exportDisk
             file == Usd!BuildStage(exportReq, objects, cloud)
  <2>1. Waiting(exportReq)
    BY <1>2 DEF Usd!Export, ExportInv
  <2>2. MadeFor(file, exportReq.key[3])
    BY <2>1, StageMadeFor
  <2>3. Directory(dir)
    BY <1>1, EmptyDirectory
  <2>4. \/ exportDisk' = exportDisk
        \/ exportDisk' = [dir EXCEPT !.usd = [k \in DOMAIN @ \union {exportReq.key} |->
                                                IF k = exportReq.key THEN file ELSE @[k]]]
    BY <1>2 DEF Usd!Export
  <2> HIDE DEF file, dir
  <2>5. QED
    BY <1>1, <2>2, <2>3, <2>4, Added
<1>3. ASSUME NEW run, Usd!FetchArtifacts(run) PROVE Directory(exportDisk')
  <2> DEFINE dir == IF exportDisk = None THEN Usd!EmptyDir ELSE exportDisk
  <2>1. Directory(dir)
    BY <1>1, EmptyDirectory
  <2>2. exportDisk' = [dir EXCEPT !.run = run]
    BY <1>3 DEF Usd!FetchArtifacts
  <2> HIDE DEF dir
  <2>3. QED
    BY <2>1, <2>2, Published
<1>4. ASSUME NEW layer \in Layers, Usd!PublishLayer(layer) PROVE Directory(exportDisk')
  <2>1. Directory(exportDisk) /\ exportDisk' = [exportDisk EXCEPT !.layer = layer]
    BY <1>1, <1>4 DEF Usd!PublishLayer
  <2>2. QED
    BY <2>1, Published
<1>5. CASE Usd!PublishNvblox
  <2>1. Directory(exportDisk) /\ exportDisk' = [exportDisk EXCEPT !.nvblox = TRUE]
    BY <1>1, <1>5 DEF Usd!PublishNvblox
  <2>2. QED
    BY <2>1, Published
<1>6. ASSUME NEW name, NEW whole, Usd!PublishMsa(name, whole) PROVE Directory(exportDisk')
  <2> DEFINE files == {m \in exportDisk.msa : m.name # name} \union {[name |-> name, whole |-> whole]}
  <2>1. Directory(exportDisk) /\ exportDisk' = [exportDisk EXCEPT !.msa = files]
    BY <1>1, <1>6 DEF Usd!PublishMsa
  <2> HIDE DEF files
  <2>2. QED
    BY <2>1, Published
<1>7. Usd!RemoveDirectory => exportDisk' = None
  BY DEF Usd!RemoveDirectory
<1>8. \A robot, cloud, fragments : Usd!GetSceneUsd(robot, cloud, fragments) => exportDisk' = exportDisk
  BY DEF Usd!GetSceneUsd
<1>9. Usd!SetUsdPath \/ (\E robot \in Robots : Usd!Read(robot)) \/ Usd!StartRun \/ Usd!FinishRun
        \/ Usd!FailRun \/ Usd!DeleteRow \/ Usd!DeleteVideo \/ UNCHANGED exportVars => exportDisk' = exportDisk
  BY DEF Usd!SetUsdPath, Usd!Read, Usd!StartRun, Usd!FinishRun, Usd!FailRun, Usd!DeleteRow,
         Usd!DeleteVideo, exportVars
<1>10. QED
  BY <1>1, <1>2, <1>3, <1>4, <1>5, <1>6, <1>7, <1>8, <1>9 DEF Usd!Next

LEMMA StepWaiting ==
  ASSUME ExportInv, [Usd!Next]_exportVars PROVE exportReq' = None \/ Waiting(exportReq')
<1>1. exportReq = None \/ Waiting(exportReq)
  BY DEF ExportInv
<1>2. ASSUME NEW robot \in Robots, NEW cloud, NEW fragments, Usd!GetSceneUsd(robot, cloud, fragments)
      PROVE  exportReq' = None \/ Waiting(exportReq')
  <2> DEFINE key == Usd!CacheFilename(cloud, fragments, robot)
  <2>1. CASE exportReq' = exportReq
    BY <1>1, <2>1
  <2>2. CASE exportReq' # exportReq
    <3>1. /\ exportReq' = [at |-> "objects", key |-> key, robot |-> robot, cloud |-> cloud,
                           fragments |-> fragments, run |-> exportRow.run, layer |-> exportDisk.layer]
          /\ exportDisk # None /\ exportDisk.layer # None
      BY <1>2, <2>2 DEF Usd!GetSceneUsd
    <3>2. exportDisk.layer \in Layers
      BY <3>1 DEF ExportInv, Directory
    <3>3. key[3] = Radius[robot]
      BY DEF Usd!CacheFilename
    <3> HIDE DEF key
    <3>4. QED
      BY <3>1, <3>2, <3>3 DEF Waiting
  <2>3. QED
    BY <2>1, <2>2
<1>3. CASE Usd!Export
  <2>1. Waiting(exportReq) /\ (exportReq' = None \/ exportReq' = [exportReq EXCEPT !.at = "commit"])
    BY <1>1, <1>3 DEF Usd!Export
  <2>2. QED
    BY <2>1 DEF Waiting
<1>4. Usd!SetUsdPath => exportReq' = None
  BY DEF Usd!SetUsdPath
<1>5. (\E robot \in Robots : Usd!Read(robot)) \/ Usd!StartRun \/ Usd!FinishRun \/ Usd!FailRun
        \/ (\E run \in Runs : Usd!FetchArtifacts(run)) \/ (\E layer \in Layers : Usd!PublishLayer(layer))
        \/ Usd!PublishNvblox \/ (\E name \in MsaFiles, whole \in BOOLEAN : Usd!PublishMsa(name, whole))
        \/ Usd!RemoveDirectory \/ Usd!DeleteRow \/ Usd!DeleteVideo \/ UNCHANGED exportVars
        => exportReq' = exportReq
  BY DEF Usd!Read, Usd!StartRun, Usd!FinishRun, Usd!FailRun, Usd!FetchArtifacts,
         Usd!PublishLayer, Usd!PublishNvblox, Usd!PublishMsa, Usd!RemoveDirectory, Usd!DeleteRow, Usd!DeleteVideo, exportVars
<1>6. QED
  BY <1>1, <1>2, <1>3, <1>4, <1>5 DEF Usd!Next

LEMMA StepAnswered == ASSUME ExportInv, [Usd!Next]_exportVars PROVE Answered(exportAnswer')
<1>1. Answered(exportAnswer)
  BY DEF ExportInv
<1>2. ASSUME NEW robot \in Robots, NEW cloud, NEW fragments, Usd!GetSceneUsd(robot, cloud, fragments)
      PROVE  Answered(exportAnswer')
  <2> DEFINE key == Usd!CacheFilename(cloud, fragments, robot)
  <2>1. \/ exportAnswer' = exportAnswer
        \/ exportAnswer' \in {Usd!Answer("error", 404), Usd!Answer("error", 409), Usd!Answer("nvblox", 200)}
        \/ /\ exportDisk # None /\ key \in DOMAIN exportDisk.usd
           /\ exportAnswer' = [kind |-> "usd", code |-> 200, robot |-> robot, file |-> exportDisk.usd[key]]
    BY <1>2 DEF Usd!GetSceneUsd
  <2>2. key[3] = Radius[robot]
    BY DEF Usd!CacheFilename
  <2>3. \A code : Answered(Usd!Answer("error", code)) /\ Answered(Usd!Answer("nvblox", code))
    BY DEF Answered, Usd!Answer
  <2> HIDE DEF key
  <2>4. exportDisk # None /\ key \in DOMAIN exportDisk.usd => MadeFor(exportDisk.usd[key], Radius[robot])
    BY <2>2 DEF ExportInv, Directory
  <2>5. QED
    BY <1>1, <2>1, <2>3, <2>4 DEF Answered
<1>3. CASE Usd!Export
  BY <1>1, <1>3 DEF Usd!Export, Answered, Usd!Answer
<1>4. CASE Usd!SetUsdPath
  <2>1. Waiting(exportReq)
    BY <1>4 DEF Usd!SetUsdPath, ExportInv
  <2>2. \/ exportAnswer' = Usd!Answer("error", 500)
        \/ /\ exportDisk # None /\ exportReq.key \in DOMAIN exportDisk.usd
           /\ exportAnswer' = [kind |-> "usd", code |-> 200, robot |-> exportReq.robot,
                               file |-> exportDisk.usd[exportReq.key]]
    BY <1>4 DEF Usd!SetUsdPath
  <2>3. exportDisk # None /\ exportReq.key \in DOMAIN exportDisk.usd
          => MadeFor(exportDisk.usd[exportReq.key], Radius[exportReq.robot])
    BY <2>1 DEF ExportInv, Directory, Waiting
  <2>4. exportReq.robot \in Robots
    BY <2>1 DEF Waiting
  <2>5. QED
    BY <2>2, <2>3, <2>4 DEF Answered, Usd!Answer
<1>5. ASSUME NEW robot \in Robots, Usd!Read(robot) PROVE Answered(exportAnswer')
  <2>1. exportAnswer' \in {Usd!Answer("error", 404), Usd!Answer("error", 409)}
          \/ exportAnswer' \in Usd!Reads(robot)
    BY <1>5 DEF Usd!Read
  <2>2. \A code : Answered(Usd!Answer("error", code))
    BY DEF Answered, Usd!Answer
  <2>3. QED
    BY <2>1, <2>2, ReadsNoUsd
<1>6. Usd!StartRun \/ Usd!FinishRun \/ Usd!FailRun
        \/ (\E run \in Runs : Usd!FetchArtifacts(run)) \/ (\E layer \in Layers : Usd!PublishLayer(layer))
        \/ Usd!PublishNvblox \/ (\E name \in MsaFiles, whole \in BOOLEAN : Usd!PublishMsa(name, whole))
        \/ Usd!RemoveDirectory \/ Usd!DeleteRow \/ Usd!DeleteVideo \/ UNCHANGED exportVars
        => exportAnswer' = exportAnswer
  BY DEF Usd!StartRun, Usd!FinishRun, Usd!FailRun, Usd!FetchArtifacts,
         Usd!PublishLayer, Usd!PublishNvblox, Usd!PublishMsa, Usd!RemoveDirectory, Usd!DeleteRow, Usd!DeleteVideo, exportVars
<1>7. QED
  BY <1>1, <1>2, <1>3, <1>4, <1>5, <1>6 DEF Usd!Next

LEMMA StepExportInv == ASSUME ExportInv, [Usd!Next]_exportVars PROVE ExportInv'
  BY StepDirectory, StepWaiting, StepAnswered DEF ExportInv

LEMMA StepOfUsd == [Next]_vars => [Usd!Next]_exportVars
  BY DEF Next, vars, exportVars

\* A file made for the radius of a platform is made for its height.
LEMMA ServedIsRequested == ASSUME ExportInv PROVE ExportIsTheRequested
<1>1. SUFFICES ASSUME exportAnswer.kind = "usd" PROVE ExportIsTheRequested
  BY DEF ExportIsTheRequested, Usd!ExportIsTheRequested
<1>2. exportAnswer.robot \in Robots /\ MadeFor(exportAnswer.file, Radius[exportAnswer.robot])
  BY <1>1 DEF ExportInv, Answered
<1>3. PICK robot \in Robots, layer \in Layers :
        /\ Radius[robot] = Radius[exportAnswer.robot]
        /\ Tile(exportAnswer.file.boxes, Usd!CellsForHeight(layer, Height[robot]))
  BY <1>2 DEF MadeFor
<1>4. Height[robot] = Height[exportAnswer.robot]
  BY <1>2, <1>3, RobotsAssumption
<1>5. Tile(exportAnswer.file.boxes, Usd!CellsForHeight(layer, Height[exportAnswer.robot]))
  BY <1>3, <1>4
<1>6. QED
  BY <1>1, <1>2, <1>5 DEF ExportIsTheRequested, Usd!ExportIsTheRequested, MadeFor, Tile, Path

(* Whatever was requested before, published, run again or deleted meanwhile, and whichever file the
   cache already held: the USD that is served carries the radius of the platform it was asked for,
   its boxes tile exactly the cells that platform cannot drive under, none overlapping another, and
   no two objects share a prim. *)
THEOREM RequestedExport == Spec => []ExportIsTheRequested
<1>1. Init => ExportInv
  BY InitExportInv DEF Init
<1>2. ExportInv /\ [Next]_vars => ExportInv'
  BY StepOfUsd, StepExportInv
<1>3. ExportInv => ExportIsTheRequested
  BY ServedIsRequested
<1>4. QED
  BY <1>1, <1>2, <1>3, PTL DEF Spec
=============================================================================
