--------------------------- MODULE IsaacValidate ---------------------------
(***************************************************************************)
(* tools/isaac_validate.py: the checks of an exported stage in order, each  *)
(* entered in the report under its name (a second entry replaces the        *)
(* first), and the exit code.  A call the Isaac build lacks, a precondition *)
(* that fails and an exception leave the sequence at once; the report is    *)
(* written in every case.                                                   *)
(*                                                                         *)
(* What PhysX does to the sphere is any sequence of positions: what a step  *)
(* decides on is one of "nan", "below", "rest" (slow and at rest height),   *)
(* "still" (where it started) and "moving".  A mass of 1 is a tiny one;      *)
(* overlap is None when the stage has no objects.                           *)
(***************************************************************************)
EXTENDS Integers, FiniteSets

CONSTANTS
  Files,       \* inputs: None, or [opens, conventions, floor, overlap, masses, badScale, over, prims, sunk, movers]
  Builds,      \* Isaac builds: [sim, modules, cook, overlapBox, world, log]
  Options,     \* command lines: [usdOnly, check, strict, gpu, dynamics, failOnEjected, allowWarnings]
  Steps,       \* physics steps of the drop
  SettleHold,  \* consecutive steps at rest that count as settled
  None

VARIABLES
  args, file, build,
  pc,        \* the check that comes next
  checks,    \* the report: name |-> [status, required]
  unmet,     \* history: the checks that were once entered as required and failed or skipped
  drop,      \* the sphere: [step, hold, verdict]
  seen,      \* history of the drop: consecutive steps at rest up to the last one
  fatal,     \* None, "env" or "internal"
  code       \* exit code, None before

vars == <<args, file, build, pc, checks, unmet, drop, seen, fatal, code>>

Statuses == {"pass", "warn", "fail", "skipped"}
Check(status, required) == [status |-> status, required |-> required]
AddCheck(name, entry) == [n \in DOMAIN checks \union {name} |-> IF n = name THEN entry ELSE checks[n]]
AddChecks(more) == [n \in DOMAIN checks \union DOMAIN more |-> IF n \in DOMAIN more THEN more[n] ELSE checks[n]]
PassIf(b) == IF b THEN "pass" ELSE "fail"

(* The report becomes these entries: what a later entry of the same name replaces is gone. *)
Report(entries) ==
  /\ checks' = entries
  /\ unmet' = unmet \union {n \in DOMAIN entries : entries[n].required /\ entries[n].status \in {"fail", "skipped"}}

(* A required check that did not run counts as a failure; a warning does when strict. *)
Passes(entries) ==
  \A n \in DOMAIN entries :
    entries[n].required => entries[n].status \notin {"fail", "skipped"} /\ (args.strict => entries[n].status # "warn")

OverallStatus(entries) == IF fatal # None THEN "error" ELSE IF Passes(entries) THEN "pass" ELSE "fail"

(* report.finish: the verdict is written and the process ends. *)
Finish(entries, exit) ==
  /\ Report(entries) /\ code' = exit /\ pc' = "done"

Judge(entries) == Finish(entries, IF OverallStatus(entries) = "pass" THEN 0 ELSE 1)

-----------------------------------------------------------------------------
(* Before the stage is open. *)

Init ==
  /\ args \in Options /\ file \in Files /\ build \in Builds
  /\ pc = "start" /\ checks = [n \in {} |-> None] /\ unmet = {}
  /\ drop = [step |-> 0, hold |-> 0, verdict |-> "still_moving"]
  /\ seen = 0 /\ fatal = None /\ code = None

Frame == UNCHANGED <<args, file, build>>

(* An API the build lacks: exit 3, and the report names it. *)
EnvironmentMismatch(entries) ==
  /\ fatal' = "env" /\ Finish(entries, 3)
  /\ UNCHANGED <<drop, seen>> /\ Frame

ValidationAbort(entries) ==
  /\ Finish([n \in DOMAIN entries \union {"validation_aborted"} |->
               IF n = "validation_aborted" THEN Check("fail", TRUE) ELSE entries[n]], 1)
  /\ UNCHANGED <<drop, seen, fatal>> /\ Frame

Next1(from, to, entries) ==
  /\ pc = from /\ pc' = to /\ Report(entries)
  /\ UNCHANGED <<drop, seen, fatal, code>> /\ Frame

Start ==
  /\ pc = "start"
  /\ IF args.usdOnly THEN pc' = "usd_only" /\ UNCHANGED <<checks, unmet, code, fatal, drop, seen>> /\ Frame
     ELSE IF build.sim THEN pc' = "imports" /\ UNCHANGED <<checks, unmet, code, fatal, drop, seen>> /\ Frame
     ELSE EnvironmentMismatch(checks)

LateImports ==
  /\ pc = "imports"
  /\ IF build.modules THEN Next1("imports", "open", checks) ELSE EnvironmentMismatch(checks)

Opened == file # None /\ file.opens

OpenStageIsaac ==
  /\ pc = "open"
  /\ IF Opened THEN Next1("open", "preflight", AddCheck("stage_opened", Check("pass", TRUE)))
     ELSE ValidationAbort(AddCheck("stage_opened", Check("fail", TRUE)))

-----------------------------------------------------------------------------
(* The checks that need no physics. *)

MassSanity == IF \E m \in file.masses : m <= 0 THEN "fail" ELSE IF \E m \in file.masses : m = 1 THEN "warn" ELSE "pass"
GpuConvexLimits == IF ~file.over THEN "pass" ELSE IF args.gpu THEN "fail" ELSE "warn"
HasFloor == file.floor

PreflightChecks ==
  [stage_conventions |-> Check(PassIf(file.conventions), TRUE),
   floor_present |-> Check(PassIf(HasFloor), TRUE),
   floor_objects_footprint_overlap |->
     IF ~HasFloor \/ file.overlap = None THEN Check("skipped", FALSE) ELSE Check(PassIf(file.overlap), TRUE),
   mass_sanity |-> Check(MassSanity, TRUE),
   scale_sanity |-> Check(PassIf(~file.badScale), TRUE),
   gpu_convex_limits |-> Check(GpuConvexLimits, args.gpu)]

Preflight ==
  /\ pc = "preflight"
  /\ IF HasFloor THEN Next1("preflight", "scene", AddChecks(PreflightChecks))
     ELSE ValidationAbort(AddChecks(PreflightChecks))

RunUsdOnly ==
  /\ pc = "usd_only"
  /\ IF ~Opened THEN Finish(AddCheck("stage_opened", Check("fail", TRUE)), 3)
     ELSE Judge(AddChecks([n \in DOMAIN PreflightChecks \union {"stage_opened", "cooking", "collider_coverage", "sphere_drop", "physx_log_clean"} |->
                  IF n \in DOMAIN PreflightChecks THEN PreflightChecks[n]
                  ELSE IF n = "stage_opened" THEN Check("pass", TRUE) ELSE Check("skipped", FALSE)]))
  /\ UNCHANGED <<drop, seen, fatal>> /\ Frame

-----------------------------------------------------------------------------
(* PhysX: scene, cooking, colliders. *)

EnsurePhysicsScene == Next1("scene", "cook", AddCheck("physics_scene", Check("pass", TRUE)))

Cook ==
  /\ pc = "cook"
  /\ IF build.cook THEN Next1("cook", "audit", AddCheck("cooking", Check("pass", TRUE))) ELSE EnvironmentMismatch(checks)

FellBack == ~args.usdOnly /\ args.check = "overlap" /\ ~build.overlapBox

(* A build that cannot overlap is caught here and not an exit 3: the report says that the
   required check is skipped, and the loop goes on with the schema alone. *)
AuditFallback ==
  /\ FellBack
  /\ Next1("audit", "audit_schema", AddCheck("collider_coverage", Check("skipped", TRUE)))

Functional == args.check = "overlap" /\ build.overlapBox
Confirmed(p) == p.api /\ (Functional => p.extent /\ p.shape)

(* Each collider is overlapped where it should be, or only has its schema looked at.  The
   loop's entry has the name of the one that said "skipped". *)
AuditColliders ==
  /\ (pc = "audit" /\ ~FellBack) \/ pc = "audit_schema"
  /\ Next1(pc, "drop", AddCheck("collider_coverage",
       IF args.check = "none" THEN Check("skipped", FALSE)
       ELSE Check(PassIf(\A p \in file.prims : Confirmed(p)), TRUE)))

-----------------------------------------------------------------------------
(* The sphere. *)

StartDrop ==
  /\ pc = "drop"
  /\ IF build.world THEN Next1("drop", "stepping", checks) ELSE EnvironmentMismatch(checks)

(* mutant of Held: a step that moves does not start the count again. *)
HeldInAll(z) == IF z = "rest" THEN drop.hold + 1 ELSE drop.hold

Held(z) == IF z = "rest" THEN drop.hold + 1 ELSE 0

EndDrop(verdict) ==
  /\ pc' = "sweep"
  /\ Report(AddCheck("sphere_drop", Check(PassIf(verdict = "settled"), TRUE)))

StepSphere(z) ==
  /\ pc = "stepping"
  /\ LET step == drop.step + 1
         hold == Held(z)
         verdict == IF z = "nan" THEN "non_finite" ELSE IF z = "below" THEN "tunneled"
                    ELSE IF hold >= SettleHold THEN "settled"
                    ELSE IF step = Steps /\ z = "still" THEN "never_fell" ELSE "still_moving"
     IN /\ drop' = [step |-> step, hold |-> hold, verdict |-> verdict]
        /\ IF verdict # "still_moving" \/ step = Steps THEN EndDrop(verdict) ELSE UNCHANGED <<pc, checks, unmet>>
  /\ seen' = IF z = "rest" THEN seen + 1 ELSE 0
  /\ UNCHANGED <<fatal, code>> /\ Frame

-----------------------------------------------------------------------------
(* After the drop. *)

BelowFloorSweep == Next1("sweep", "dynamics", AddCheck("no_static_prim_below_floor", Check(PassIf(~file.sunk), TRUE)))

(* Diagnostic: an exception in it is a warning that never gates. *)
DynamicsPhase(raises) ==
  LET ejected == "ejected" \in file.movers
  IN Next1("dynamics", "log", AddCheck("dynamics_settling",
       IF ~args.dynamics THEN Check("skipped", FALSE)
       ELSE IF raises THEN Check("warn", FALSE)
       ELSE Check(IF ~ejected THEN "pass" ELSE IF args.failOnEjected THEN "fail" ELSE "warn", args.failOnEjected)))

HarvestLog(errors, warnings) ==
  /\ pc = "log"
  /\ Judge(AddCheck("physx_log_clean",
       IF ~build.log THEN Check("skipped", FALSE)
       ELSE Check(IF errors THEN "fail" ELSE IF warnings /\ ~args.allowWarnings THEN "warn" ELSE "pass", TRUE)))
  /\ UNCHANGED <<drop, seen, fatal>> /\ Frame

(* Anything else that raises between the first import and the verdict. *)
Raise ==
  /\ pc \in {"imports", "open", "preflight", "scene", "cook", "audit", "audit_schema", "drop", "stepping", "sweep", "log"}
  /\ fatal' = "internal" /\ Finish(checks, 4)
  /\ UNCHANGED <<drop, seen>> /\ Frame

Next ==
  \/ Start \/ LateImports \/ OpenStageIsaac \/ Preflight \/ RunUsdOnly
  \/ EnsurePhysicsScene \/ Cook \/ AuditFallback \/ AuditColliders \/ StartDrop
  \/ \E z \in {"nan", "below", "rest", "moving", "still"} : StepSphere(z)
  \/ BelowFloorSweep
  \/ \E raises \in BOOLEAN : DynamicsPhase(raises)
  \/ \E errors, warnings \in BOOLEAN : HarvestLog(errors, warnings)
  \/ Raise

Spec == Init /\ [][Next]_vars

-----------------------------------------------------------------------------
(* What has to be in the report of a stage that passed. *)
Needed ==
  DOMAIN PreflightChecks \union {"stage_opened"}
    \union IF args.usdOnly THEN {} ELSE {"physics_scene", "cooking", "collider_coverage", "sphere_drop", "no_static_prim_below_floor"}

(* An exit code of 0 is earned whichever way the sequence was left: the file opened with a
   floor, every check has an entry, none that was required failed or was skipped at any time,
   and in Isaac the sphere lay still for the whole of the last SettleHold steps and every
   collider was overlapped.  The one thing that can have been left out is the overlap, and only
   where the build has none and the command line asked for it: then the colliders have the
   schema at least. *)
PassIsEarned ==
  code = 0 =>
    /\ Opened /\ HasFloor /\ fatal = None
    /\ Needed \subseteq DOMAIN checks
    /\ unmet \subseteq (IF FellBack THEN {"collider_coverage"} ELSE {})
    /\ args.strict => \A n \in DOMAIN checks : checks[n].required => checks[n].status # "warn"
    /\ ~args.usdOnly => drop.verdict = "settled" /\ seen >= SettleHold
    /\ ~args.usdOnly /\ args.check # "none" => \A p \in file.prims : Confirmed(p)

-----------------------------------------------------------------------------
(* What the repository says of itself and the model contradicts: README, "Disagreements
   found".  No run is spent on it. *)

(* The module docstring, of "every Omniverse/PhysX call beyond the documented SimulationApp
   bootstrap": "if a call is missing in the build you run it, this exits 3". *)
MissingCallExits3 ==
  code # None /\ pc = "done" /\ ~args.usdOnly /\ args.check = "overlap" /\ "collider_coverage" \in DOMAIN checks
    => (~build.overlapBox => code # 0)

(* The test of the report: "the general 'required check must actually run' rule". *)
RequiredCheckRuns == code = 0 => unmet = {}
=============================================================================
