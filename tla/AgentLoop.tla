------------------------------ MODULE AgentLoop ------------------------------
(***************************************************************************)
(* scripts/msa/agent_loop: a generator model proposes one bounded edit of  *)
(* an object, a verifier model judges it, and a tool measures it.  SceneState *)
(* holds what the tools may change; run_object_combo drives one object     *)
(* through a few steps; main runs every object with every verifier.        *)
(*                                                                         *)
(* Yaw is in units of 5 degrees, scale in percent, lengths in cm; the      *)
(* rasterised overlap is the distance to the object's best fit.            *)
(***************************************************************************)
EXTENDS Integers, Sequences

CONSTANTS
  Objects, Size,      \* the objects and each one's longer side
  Best,               \* object |-> [yaw, scale] of the real footprint
  StartYaw, StartScale, StepsPerObject,
  MaxRotateStep, MaxRotateCumulative, ScaleStepMin, ScaleStepMax, MaxFootprintDelta,
  Verifiers,
  MaxApplied          \* bound on the calls of SceneState.apply

VARIABLES
  state, lights, exposure, applied,   \* SceneState, and the calls of apply so far
  todo, pc,                           \* the combinations left, and where the loop is
  cur,                                \* run_object_combo: [o, yaw, scale, start, loss, step]
  trial,                              \* the proposal the verifier judges
  tally,                              \* accepted, rejected, ... of this combination
  results, written

vars == <<state, lights, exposure, applied, todo, pc, cur, trial, tally, results, written>>

Abs(n) == IF n < 0 THEN -n ELSE n
Kinds == {"rotate", "scale", "swap_asset", "set_material", "set_light", "set_exposure", "flag", "delete"}
Amounts == -MaxRotateStep - 1 .. MaxRotateStep + 1
Factors == {ScaleStepMin - 1, ScaleStepMin, ScaleStepMax, ScaleStepMax + 1}
Fresh == [yaw |-> 0, scale |-> 100, asset |-> FALSE, material |-> FALSE, flags |-> 0]
Zero == [accepted |-> 0, rejected |-> 0, flagged |-> 0, parse |-> 0, api |-> 0]
Nothing == [o |-> "none", yaw |-> 0, scale |-> 100, start |-> 0, loss |-> 0, step |-> 0]

(* check_action_static: an argument is out of range, empty, or the action is not one of
   the seven.  "amount" is the yaw step, the factor, or 1 for a proper argument. *)
StaticOK(a) ==
  CASE a.kind = "rotate" -> Abs(a.amount) <= MaxRotateStep
    [] a.kind = "scale" -> a.amount \in ScaleStepMin .. ScaleStepMax
    [] a.kind = "delete" -> FALSE
    [] OTHER -> a.kind = "set_exposure" \/ a.amount = 1

Scaled(s, f) == (s * f) \div 100
Shift(o, s) == (Size[o] * Abs(s - 100)) \div 200

WithinBounds(o, yaw, s) == Abs(yaw) <= MaxRotateCumulative /\ Shift(o, s) <= MaxFootprintDelta

-----------------------------------------------------------------------------
(* SceneState.apply: all of an action or none of it. *)

Changed(a) ==
  LET s == state[a.o]
  IN CASE a.kind = "rotate" -> [s EXCEPT !.yaw = @ + a.amount]
       [] a.kind = "scale" -> [s EXCEPT !.scale = Scaled(@, a.amount)]
       [] a.kind = "swap_asset" -> [s EXCEPT !.asset = TRUE]
       [] a.kind = "set_material" -> [s EXCEPT !.material = TRUE]
       [] OTHER -> [s EXCEPT !.flags = @ + 1]

Rejected(a) ==
  \/ ~StaticOK(a)
  \/ a.kind \notin {"set_light", "set_exposure"} /\ a.o \notin Objects
  \/ a.kind \in {"rotate", "scale"} /\ a.o \in Objects /\ ~WithinBounds(a.o, Changed(a).yaw, Changed(a).scale)

Apply(a) ==
  /\ applied < MaxApplied /\ applied' = applied + 1
  /\ \/ Rejected(a) /\ UNCHANGED <<state, lights, exposure>>
     \/ /\ ~Rejected(a) /\ a.kind = "set_light"
        /\ lights' = lights \union {a.o} /\ UNCHANGED <<state, exposure>>
     \/ /\ ~Rejected(a) /\ a.kind = "set_exposure"
        /\ exposure' = a.amount /\ UNCHANGED <<state, lights>>
     \/ /\ ~Rejected(a) /\ a.kind \notin {"set_light", "set_exposure"}
        /\ state' = [state EXCEPT ![a.o] = Changed(a)] /\ UNCHANGED <<lights, exposure>>
  /\ UNCHANGED <<todo, pc, cur, trial, tally, results, written>>

-----------------------------------------------------------------------------
(* run_object_combo *)

Loss(o, yaw, s) == 5 * Abs(yaw - Best[o].yaw) + Abs(s - Best[o].scale)
Count(field) == tally' = [tally EXCEPT ![field] = @ + 1]
NextStep == cur' = [cur EXCEPT !.step = @ + 1]
Kept == UNCHANGED <<state, lights, exposure, applied, todo, results, written>>

Begin(o, v) ==
  /\ pc = "idle" /\ <<o, v>> \in todo
  /\ todo' = todo \ {<<o, v>>} /\ pc' = "generate" /\ tally' = Zero
  /\ LET l == Loss(o, StartYaw, StartScale)
     IN cur' = [o |-> o, yaw |-> StartYaw, scale |-> StartScale, start |-> l, loss |-> l, step |-> 0]
  /\ UNCHANGED <<state, lights, exposure, applied, trial, results, written>>

TrialOf(a) == [yaw |-> cur.yaw + (IF a.kind = "rotate" THEN a.amount ELSE 0),
               scale |-> IF a.kind = "scale" THEN Scaled(cur.scale, a.amount) ELSE cur.scale]
Judged(t) == WithinBounds(cur.o, t.yaw, t.scale)

GeneratorFails ==
  /\ pc = "generate" /\ cur.step < StepsPerObject
  /\ Count("api") /\ pc' = "report" /\ UNCHANGED <<cur, trial>> /\ Kept

(* An answer that is no JSON, names another action, or breaks a step's bounds. *)
Unusable(a) ==
  /\ pc = "generate" /\ cur.step < StepsPerObject
  /\ a.kind \notin {"rotate", "scale", "flag"} \/ (a.kind # "flag" /\ ~StaticOK(a))
  /\ Count("parse") /\ NextStep /\ UNCHANGED <<pc, trial>> /\ Kept

(* A known action without its number: KeyError and TypeError are not caught. *)
Malformed ==
  /\ pc = "generate" /\ cur.step < StepsPerObject
  /\ pc' = "crashed" /\ UNCHANGED <<cur, trial, tally>> /\ Kept

GiveUp ==
  /\ pc = "generate" /\ cur.step < StepsPerObject
  /\ Count("flagged") /\ pc' = "report" /\ UNCHANGED <<cur, trial>> /\ Kept

Propose(a) ==
  /\ pc = "generate" /\ cur.step < StepsPerObject
  /\ a.kind \in {"rotate", "scale"} /\ StaticOK(a)
  /\ \/ ~Judged(TrialOf(a)) /\ Count("rejected") /\ NextStep /\ UNCHANGED <<pc, trial>>
     \/ /\ Judged(TrialOf(a)) /\ trial' = TrialOf(a) /\ pc' = "verify"
        /\ UNCHANGED <<cur, tally>>
  /\ Kept

VerifierFails ==
  /\ pc = "verify" /\ Count("api") /\ pc' = "report" /\ UNCHANGED <<cur, trial>> /\ Kept

(* mutant of Accepted: the verifier alone decides. *)
AcceptedByModel(says) == says
Accepted(says) == says /\ Loss(cur.o, trial.yaw, trial.scale) < cur.loss

Verify(says) ==
  /\ pc = "verify" /\ pc' = "generate"
  /\ \/ /\ Accepted(says) /\ Count("accepted")
        /\ cur' = [cur EXCEPT !.yaw = trial.yaw, !.scale = trial.scale,
                     !.loss = Loss(cur.o, trial.yaw, trial.scale), !.step = @ + 1]
     \/ ~Accepted(says) /\ Count("rejected") /\ NextStep
  /\ UNCHANGED trial /\ Kept

StepsSpent == pc = "generate" /\ cur.step = StepsPerObject /\ pc' = "report"
              /\ UNCHANGED <<cur, trial, tally>> /\ Kept

Report ==
  /\ pc = "report" /\ pc' = "idle"
  /\ results' = Append(results, [final |-> cur, tally |-> tally])
  /\ UNCHANGED <<state, lights, exposure, applied, todo, cur, trial, tally, written>>

(* The results are written once, after the last combination. *)
WriteResults ==
  /\ pc = "idle" /\ todo = {} /\ ~written /\ written' = TRUE
  /\ UNCHANGED <<state, lights, exposure, applied, todo, pc, cur, trial, tally, results>>

Proposals == [kind : {"rotate"}, amount : Amounts] \union [kind : {"scale"}, amount : Factors]
               \union [kind : {"delete"}, amount : {1}]
Edits ==
  {[kind |-> k, amount |-> n, o |-> o] :
     k \in Kinds, n \in {0, 1, MaxRotateStep, ScaleStepMin}, o \in Objects \union {"unknown"}}

Init ==
  /\ state = [o \in Objects |-> Fresh] /\ lights = {} /\ exposure = 1 /\ applied = 0
  /\ todo = Objects \X Verifiers /\ pc = "idle" /\ cur = Nothing
  /\ trial = [yaw |-> 0, scale |-> 100] /\ tally = Zero /\ results = << >> /\ written = FALSE

Next ==
  \/ \E a \in Edits : Apply(a)
  \/ \E o \in Objects, v \in Verifiers : Begin(o, v)
  \/ \E a \in Proposals : Unusable(a) \/ Propose(a)
  \/ GeneratorFails \/ Malformed \/ GiveUp \/ VerifierFails
  \/ \E says \in BOOLEAN : Verify(says)
  \/ StepsSpent \/ Report \/ WriteResults

Spec == Init /\ [][Next]_vars

-----------------------------------------------------------------------------
(* Properties *)

TypeOK ==
  /\ DOMAIN state = Objects /\ lights \subseteq Objects \union {"unknown"}
  /\ applied \in 0 .. MaxApplied /\ todo \subseteq Objects \X Verifiers
  /\ pc \in {"idle", "generate", "verify", "report", "crashed"} /\ written \in BOOLEAN
  /\ cur.step \in 0 .. StepsPerObject /\ DOMAIN tally = DOMAIN Zero

WithinTotal(o, r) == Abs(r.yaw) <= MaxRotateCumulative /\ Shift(o, r.scale) <= MaxFootprintDelta

(* What a refinement has come to.  The start it is given is checked against no bound: an
   object can begin outside, and stays there until an edit brings it inside. *)
Sound(r, accepted) ==
  IF accepted = 0 THEN r.yaw = StartYaw /\ r.scale = StartScale /\ r.loss = r.start
  ELSE WithinTotal(r.o, r) /\ r.loss < r.start

(* However many bounded steps are made, an object that was edited is within the total turn and
   the total shift it may be given, wherever its refinement started, and it fits better than it
   did; one with no accepted edit is exactly where it started.  That holds at every moment of a
   refinement and of each result reported, whatever the two models answer.  Code:
   SceneState.apply, the bounds and final_accept of run_object_combo. *)
RefinementIsBounded ==
  /\ \A o \in Objects : WithinTotal(o, state[o])
  /\ cur.o \in Objects => Sound(cur, tally.accepted)
  /\ \A i \in DOMAIN results : Sound(results[i].final, results[i].tally.accepted)
=============================================================================
