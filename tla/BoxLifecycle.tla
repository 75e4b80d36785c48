---------------------------- MODULE BoxLifecycle ----------------------------
(***************************************************************************)
(* The rented GPU box: how pipeline/run_pipeline.py, through box_ops.py    *)
(* and vast_client.py, starts or rents one, proves it answers, uses it and *)
(* stops it, in a world where vast.ai may refuse in words, queue a start,  *)
(* lose a reply or refuse a stop, where the ARMED file goes stale at       *)
(* midnight and where the driver may be killed.                            *)
(*                                                                         *)
(* One driver process at a time (the worker runs one job), several in      *)
(* sequence: `runs' counts them.  A dry run makes no vast call and a       *)
(* precomputed run touches no box, so only live runs are modelled.  The    *)
(* CPU steps before the box are "prep", those after it "post"; a stage     *)
(* that fails is a choice, whatever its reason (ssh deadline, transfer     *)
(* gate, budget abort, time-out).                                          *)
(***************************************************************************)
EXTENDS Naturals, FiniteSets

CONSTANTS
  Boxes,        \* instance ids vast may ever hand out
  FirstBox,     \* the id in pipeline/state/nvblox_box_id before the first run
  MaxAttempts,  \* --capacity-max-attempts
  MaxRuns,      \* bound: driver processes started
  Faults        \* what the environment may do, a subset of FaultKinds

FaultKinds == {
  "queue",        \* "Required resources are currently unavailable, state change queued"
  "spurious",     \* a call that worked is answered with text holding a refusal marker
  "lost_reply",   \* a call takes effect and the CLI still fails (CALL_TIMEOUT_S)
  "stop_refused", \* a stop call fails or is refused, with no effect
  "midnight",     \* the date changes under a run: ARMED no longer names today
  "kill",         \* SIGKILL/SIGTERM of the driver, e.g. run_job's own time-out
  "late_record"   \* a tick of the supervisor writes the record it copied earlier
}

ASSUME BoxesAssumption == FirstBox \in Boxes /\ IsFiniteSet(Boxes)
ASSUME BoundsAssumption == MaxAttempts \in Nat \ {0} /\ MaxRuns \in Nat
ASSUME FaultsAssumption == Faults \subseteq FaultKinds

VARIABLES
  box,       \* vast's own view of every instance
  armed,     \* pipeline/ARMED exists and names today
  cached,    \* <state-dir>/nvblox_box_id
  retired,   \* <state-dir>/retired_box_ids, the list the owner destroys
  recorded,  \* the last status.json `boxes' entry any run wrote for an id
  pc,        \* the driver's main thread
  worker,    \* --worker-mode
  keepUp,    \* --keep-box-up
  iid,       \* a.nvblox_instance_id
  cur,       \* the box being created, brought up or stopped
  attempt,   \* acquire_box's loop counter
  sessions,  \* Pipeline.sessions: currently up
  seen,      \* Pipeline.boxes_seen: ever registered by this run
  site,      \* which caller of BoxSession.stop is running
  info,      \* sess.info of each box of the running driver
  tick,      \* the supervisor between copying one box's info and its set_box
  downArt,   \* status.json's artifacts of GPU_DOWN_NV: what take_down returned
  doc,       \* status.json `state', folded to running / DONE / FAILED
  runs       \* driver processes started so far

persistent == <<armed, cached, retired>>
reports    == <<info, tick, downArt>>
volatile   == <<worker, keepUp, iid, cur, attempt, sessions, seen, site, reports>>
vars == <<box, armed, cached, retired, recorded, pc, worker, keepUp, iid, cur,
          attempt, sessions, seen, site, info, tick, downArt, doc, runs>>

BoxStates == {"absent", "exited", "queued", "running", "stopping", "destroyed"}
Records   == {"none", "up", "kept_up", "stop_error", "confirmed", "unconfirmed"}
LeftUp    == {"kept_up", "stop_error", "unconfirmed"}  \* records that say "still costing"
Sites     == {"none", "abandon", "down", "final"}
PCs       == {"idle", "prep", "acquire", "search", "created", "retired_old", "provision",
              "nvblox", "gpu_down", "stop", "confirm", "post", "finally"}
Docs      == {"none", "running", "DONE", "FAILED"}
NoTick    == [box |-> FirstBox, copy |-> "none", busy |-> FALSE]

Running(b) == box[b] = "running"

Init ==
  /\ box = [b \in Boxes |-> IF b = FirstBox THEN "exited" ELSE "absent"]
  /\ armed \in BOOLEAN
  /\ cached = FirstBox
  /\ retired = {}
  /\ recorded = [b \in Boxes |-> "none"]
  /\ pc = "idle"
  /\ worker = FALSE /\ keepUp = FALSE
  /\ iid = FirstBox /\ cur = FirstBox
  /\ attempt = 1
  /\ sessions = {} /\ seen = {}
  /\ site = "none"
  /\ info = [b \in Boxes |-> "none"] /\ tick = NoTick /\ downArt = "none"
  /\ doc = "none"
  /\ runs = 0

-----------------------------------------------------------------------------
(* vast.ai as the calls see it *)

\* What a `start instance' may answer.  A call that is not armed never reaches vast.
StartReplies(s) ==
  IF ~armed THEN {"error"}
  ELSE {r \in {"ok", "refused", "queued", "misread", "error", "applied"} :
          /\ r = "ok"      => s # "destroyed"
          /\ r = "refused" => s # "running"
          /\ r = "queued"  => s \in {"exited", "stopping"} /\ "queue" \in Faults
          /\ r = "misread" => s # "destroyed" /\ "spurious" \in Faults
          /\ r = "applied" => s # "destroyed" /\ "lost_reply" \in Faults}

StartEffect(s, r) ==
  IF r \in {"ok", "misread", "applied"} THEN "running"
  ELSE IF r = "queued" THEN "queued" ELSE s

\* Replies whose text holds a refusal marker: VastStartUnavailable.  Any other failure
\* is VastCallFailed, VastNotArmed or a time-out.
AnyFailure == {"refused", "queued", "misread", "error", "applied"}  \* mutant
Refusals == {"refused", "queued", "misread"}

\* What a `stop instance' may answer, and its effect when it is accepted.  Its answer
\* is searched for refusal markers too.
StopReplies ==
  IF ~armed THEN {"error"}
  ELSE {r \in {"ok", "error", "applied"} :
          /\ r = "error"   => "stop_refused" \in Faults
          /\ r = "applied" => Faults \cap {"lost_reply", "spurious"} # {}}

StopEffect(s) ==
  IF s = "running" THEN "stopping" ELSE IF s = "queued" THEN "exited" ELSE s

QueuedStartFires(b) ==
  /\ box[b] = "queued"
  /\ box' = [box EXCEPT ![b] = "running"]
  /\ UNCHANGED <<persistent, recorded, pc, volatile, doc, runs>>

StopCompletes(b) ==
  /\ box[b] = "stopping"
  /\ box' = [box EXCEPT ![b] = "exited"]
  /\ UNCHANGED <<persistent, recorded, pc, volatile, doc, runs>>

\* The operator's own acts: arming the day, destroying a retired box, stopping by
\* hand a box that a status.json names as still up.
OperatorArms ==
  /\ ~armed
  /\ armed' = TRUE
  /\ UNCHANGED <<box, cached, retired, recorded, pc, volatile, doc, runs>>

OwnerDestroys(b) ==
  /\ b \in retired /\ box[b] # "destroyed"
  /\ box' = [box EXCEPT ![b] = "destroyed"]
  /\ UNCHANGED <<persistent, recorded, pc, volatile, doc, runs>>

OwnerStops(b) ==
  /\ pc = "idle"
  /\ recorded[b] \in LeftUp /\ box[b] = "running"
  /\ box' = [box EXCEPT ![b] = "stopping"]
  /\ UNCHANGED <<persistent, recorded, pc, volatile, doc, runs>>

Midnight ==
  /\ "midnight" \in Faults
  /\ armed
  /\ armed' = FALSE
  /\ UNCHANGED <<box, cached, retired, recorded, pc, volatile, doc, runs>>

-----------------------------------------------------------------------------
(* the driver *)

\* StepFailed reaches run(): terminal("FAILED"), then the finally block.
Fail == pc' = "finally" /\ doc' = "FAILED"

\* main(): a live run is refused (exit 2, nothing written) unless ARMED is valid.
StartDriver ==
  /\ pc = "idle" /\ runs < MaxRuns
  /\ armed
  /\ pc' = "prep"
  /\ runs' = runs + 1
  /\ worker' \in BOOLEAN /\ keepUp' \in BOOLEAN
  /\ iid' = cached /\ cur' = cached
  /\ attempt' = 1
  /\ sessions' = {} /\ seen' = {}
  /\ site' = "none"
  /\ info' = [b \in Boxes |-> "none"] /\ tick' = NoTick /\ downArt' = "none"
  /\ doc' = "running"
  /\ UNCHANGED <<box, persistent, recorded>>

\* QUEUED .. MVFILTER: no box is touched.
Prep ==
  /\ pc = "prep"
  /\ \/ pc' = "acquire" /\ doc' = doc
     \/ Fail
  /\ UNCHANGED <<box, persistent, recorded, volatile, runs>>

\* start_or_create: the cached box first.  Only a refusal leads to a replacement,
\* any other exception is a failed step.
WorkerStart ==
  /\ pc = "acquire" /\ worker
  /\ \E r \in StartReplies(box[iid]) :
       /\ box' = [box EXCEPT ![iid] = StartEffect(@, r)]
       /\ \/ r = "ok" /\ pc' = "provision" /\ cur' = iid /\ doc' = doc
          \/ r \in Refusals /\ pc' = "search" /\ cur' = cur /\ doc' = doc
          \/ r \notin Refusals \cup {"ok"} /\ Fail /\ cur' = cur
  /\ UNCHANGED <<persistent, recorded, worker, keepUp, iid, attempt, sessions, seen,
                 site, reports, runs>>

\* Mutant: the loop is off by one.
OneAttemptTooMany ==
  \/ attempt <= MaxAttempts /\ attempt' = attempt + 1 /\ pc' = "acquire" /\ doc' = doc
  \/ Fail /\ attempt' = attempt

\* Mutant: the retries are not counted.
UncountedAttempt == pc' = "acquire" /\ UNCHANGED <<attempt, doc>>

\* VastStartUnavailable out of start_or_create: wait and try again, unless this was the
\* last attempt or the wall clock leaves no room for another.
NextAttempt ==
  \/ attempt < MaxAttempts /\ attempt' = attempt + 1 /\ pc' = "acquire" /\ doc' = doc
  \/ Fail /\ attempt' = attempt

\* Offers ranked, the best one rented.  The reply may be lost, or its JSON may hold one
\* of the refusal markers.
CreateBox ==
  /\ pc = "search" /\ armed
  /\ \E n \in Boxes :
       /\ box[n] = "absent"
       /\ box' = [box EXCEPT ![n] = "running"]
       /\ \/ pc' = "created" /\ cur' = n /\ UNCHANGED <<attempt, doc>>
          \/ "lost_reply" \in Faults /\ Fail /\ UNCHANGED <<attempt, cur>>
          \/ "spurious" \in Faults /\ NextAttempt /\ cur' = cur
  /\ UNCHANGED <<persistent, recorded, worker, keepUp, iid, sessions, seen, site,
                 reports, runs>>

\* No offer passes the filter, or the create itself is refused.
NoCapacity ==
  /\ pc = "search" /\ armed
  /\ NextAttempt
  /\ UNCHANGED <<box, persistent, recorded, worker, keepUp, iid, cur, sessions, seen,
                 site, reports, runs>>

\* The search or the create raises something that is not a refusal.
SearchFails ==
  /\ pc = "search"
  /\ Fail
  /\ UNCHANGED <<box, persistent, recorded, volatile, runs>>

\* Mutant: the replaced id is not put on the owner's list.
RetireForgotten ==
  /\ pc = "created"
  /\ pc' = "retired_old"
  /\ UNCHANGED <<box, persistent, recorded, volatile, doc, runs>>

\* Two files, one write each: the refused id goes on the owner's list ...
RetireOld ==
  /\ pc = "created"
  /\ retired' = retired \cup {iid}
  /\ pc' = "retired_old"
  /\ UNCHANGED <<box, armed, cached, recorded, volatile, doc, runs>>

\* Mutant: the new id is used by this run and not cached for the next.
NewNotCached ==
  /\ pc = "retired_old"
  /\ iid' = cur
  /\ pc' = "provision"
  /\ UNCHANGED <<box, persistent, recorded, worker, keepUp, cur, attempt, sessions, seen,
                 site, reports, doc, runs>>

\* ... then the new one becomes the cached one, and acquire_box takes it over.
CacheNew ==
  /\ pc = "retired_old"
  /\ cached' = cur
  /\ iid' = cur
  /\ pc' = "provision"
  /\ UNCHANGED <<box, armed, retired, recorded, worker, keepUp, cur, attempt, sessions,
                 seen, site, reports, doc, runs>>

\* The operator path: the start is inside BoxSession.__enter__'s guarded block, so
\* whatever it raises, the stop follows.
OperatorStart ==
  /\ pc = "acquire" /\ ~worker
  /\ cur' = iid
  /\ \E r \in StartReplies(box[iid]) :
       /\ box' = [box EXCEPT ![iid] = StartEffect(@, r)]
       /\ \/ r = "ok" /\ pc' = "provision" /\ site' = site
          \/ r # "ok" /\ pc' = "stop" /\ site' = "abandon"
  /\ UNCHANGED <<persistent, recorded, worker, keepUp, iid, attempt, sessions, seen,
                 reports, doc, runs>>

\* ssh answered, key modes, both probes and nvidia-smi went through: the session is
\* registered and reported.
Provisioned ==
  /\ pc = "provision"
  /\ sessions' = sessions \cup {cur}
  /\ seen' = seen \cup {cur}
  /\ info' = [info EXCEPT ![cur] = "up"]
  /\ recorded' = [recorded EXCEPT ![cur] = "up"]
  /\ pc' = "nvblox"
  /\ UNCHANGED <<box, persistent, worker, keepUp, iid, cur, attempt, site, tick, downArt,
                 doc, runs>>

\* Mutant: a failed bring-up raises without stopping the box.
ProvisionFailsUnstopped ==
  /\ pc = "provision"
  /\ Fail
  /\ UNCHANGED <<box, persistent, recorded, volatile, runs>>

\* Anything in __enter__ raised: the box is stopped and the exception goes on; the
\* session was never registered.
ProvisionFails ==
  /\ pc = "provision"
  /\ pc' = "stop" /\ site' = "abandon"
  /\ UNCHANGED <<box, persistent, recorded, worker, keepUp, iid, cur, attempt, sessions,
                 seen, reports, doc, runs>>

\* poll_cost at a step's boundary, once a box has been registered: by the main thread,
\* which alone changes an info, so what it writes is current.  A reply without a price
\* writes nothing.
BoundaryPoll ==
  recorded' \in {recorded, [b \in Boxes |-> IF b \in seen THEN info[b] ELSE recorded[b]]}

\* NVBLOX and FLOOR on the box.
Nvblox ==
  /\ pc = "nvblox"
  /\ BoundaryPoll
  /\ \/ pc' = "gpu_down" /\ doc' = doc
     \/ Fail
  /\ UNCHANGED <<box, persistent, volatile, runs>>

\* take_down, or __enter__'s own stop, returns to its caller.  What it returned becomes
\* the artifacts of GPU_DOWN_NV, unless a budget abort noticed after it fails the step;
\* the finally block drops it.
Returned(from, outcome) ==
  /\ site' = "none"
  /\ \/ from = "abandon" /\ Fail /\ downArt' = downArt
     \/ from = "down"    /\ pc' = "post"    /\ doc' = doc /\ downArt' = outcome
     \/ from = "down"    /\ Fail /\ downArt' = downArt
     \/ from = "final"   /\ pc' = "finally" /\ doc' = doc /\ downArt' = downArt

\* take_down: the session is popped first, then left up on purpose or stopped.
TakeDown(b, from) ==
  /\ sessions' = sessions \ {b}
  /\ cur' = b
  /\ \/ /\ keepUp
        /\ info' = [info EXCEPT ![b] = "kept_up"]
        /\ recorded' = [recorded EXCEPT ![b] = "kept_up"]
        /\ Returned(from, "kept_up")
     \/ /\ ~keepUp
        /\ pc' = "stop" /\ site' = from
        /\ BoundaryPoll /\ (from = "final" => recorded' = recorded)
        /\ UNCHANGED <<info, downArt, doc>>

\* Mutant: the take-down uses the id captured before acquire_box ran.
GpuDownCapturedId ==
  /\ pc = "gpu_down"
  /\ IF FirstBox \in sessions
       THEN TakeDown(FirstBox, "down")
       ELSE pc' = "post" /\ UNCHANGED <<recorded, cur, sessions, site, info, downArt, doc>>
  /\ UNCHANGED <<box, persistent, worker, keepUp, iid, attempt, seen, tick, runs>>

\* GPU_DOWN_NV: the id is read when the step runs, not when the run began.  With no
\* session under that id the check passes and the step is skipped.
GpuDown ==
  /\ pc = "gpu_down"
  /\ IF iid \in sessions
       THEN TakeDown(iid, "down")
       ELSE pc' = "post" /\ BoundaryPoll
            /\ UNCHANGED <<cur, sessions, site, info, downArt, doc>>
  /\ UNCHANGED <<box, persistent, worker, keepUp, iid, attempt, seen, tick, runs>>

\* The step boundary before GPU_DOWN_NV raises instead (a budget abort).
GpuDownAborts ==
  /\ pc = "gpu_down"
  /\ BoundaryPoll
  /\ Fail
  /\ UNCHANGED <<box, persistent, volatile, runs>>

\* Mutant: only a clean stop is told to anyone.
CleanStopReported(outcome) ==
  /\ IF site # "abandon" /\ outcome = "confirmed"
       THEN /\ info' = [info EXCEPT ![cur] = outcome]
            /\ recorded' = [recorded EXCEPT ![cur] = outcome]
            /\ Returned(site, outcome)
       ELSE UNCHANGED <<info, recorded>> /\ Returned(site, "none")

\* BoxSession.stop returns to its caller.  Only a registered session is reported.
StopReturns(outcome) ==
  /\ IF site = "abandon"
       THEN UNCHANGED <<info, recorded>>
       ELSE /\ info' = [info EXCEPT ![cur] = outcome]
            /\ recorded' = [recorded EXCEPT ![cur] = outcome]
  /\ Returned(site, outcome)

\* The stop call: an error is recorded and swallowed, with no second try.
StopCall ==
  /\ pc = "stop"
  /\ \E r \in StopReplies :
       /\ box' = [box EXCEPT ![cur] = IF r = "error" THEN @ ELSE StopEffect(@)]
       /\ \/ /\ r = "ok"
             /\ pc' = "confirm"
             /\ UNCHANGED <<recorded, info, downArt, site, doc>>
          \/ r # "ok" /\ StopReturns("stop_error")
  /\ UNCHANGED <<persistent, worker, keepUp, iid, cur, attempt, sessions, seen, tick, runs>>

\* Mutant: an instance that is on its way down passes for exited.
StoppingPassesForExited ==
  /\ pc = "confirm" /\ armed
  /\ ~Running(cur)
  /\ StopReturns("confirmed")
  /\ UNCHANGED <<box, persistent, worker, keepUp, iid, cur, attempt, sessions, seen, tick,
                 runs>>

\* `show' reports exited before the deadline ...
ExitConfirmed ==
  /\ pc = "confirm" /\ armed
  /\ box[cur] = "exited"
  /\ StopReturns("confirmed")
  /\ UNCHANGED <<box, persistent, worker, keepUp, iid, cur, attempt, sessions, seen, tick,
                 runs>>

\* ... or the deadline passes first.
ExitUnconfirmed ==
  /\ pc = "confirm"
  /\ StopReturns("unconfirmed")
  /\ UNCHANGED <<box, persistent, worker, keepUp, iid, cur, attempt, sessions, seen, tick,
                 runs>>

\* LAYERS .. INGEST, each behind a boundary of its own, then DONE.
Post ==
  /\ pc = "post"
  /\ BoundaryPoll
  /\ \/ pc' = "finally" /\ doc' = "DONE"
     \/ Fail
  /\ UNCHANGED <<box, persistent, volatile, runs>>

\* Mutant: the finally block forgets the sessions without stopping their boxes.
FinallyForgets ==
  /\ pc = "finally"
  /\ sessions # {} /\ sessions' = {}
  /\ UNCHANGED <<box, persistent, recorded, pc, worker, keepUp, iid, cur, attempt, seen,
                 site, reports, doc, runs>>

\* The finally block: every session still open is taken down, each in its own try.  No
\* boundary polls here.
FinallyTakeDown ==
  /\ pc = "finally"
  /\ \E b \in sessions : TakeDown(b, "final")
  /\ UNCHANGED <<box, persistent, worker, keepUp, iid, attempt, seen, tick, runs>>

\* The main thread returns and the process exits; the supervisor is told to stop, is not
\* joined, and dies with it, in mid-tick if need be.
ProcessExit ==
  /\ pc = "finally" /\ sessions = {}
  /\ pc' = "idle" /\ tick' = NoTick
  /\ UNCHANGED <<box, persistent, recorded, worker, keepUp, iid, cur, attempt, sessions,
                 seen, site, info, downArt, doc, runs>>

\* A killed driver runs no finally; its sessions die with it.
Kill ==
  /\ "kill" \in Faults
  /\ pc # "idle"
  /\ pc' = "idle" /\ tick' = NoTick
  /\ sessions' = {} /\ seen' = {} /\ site' = "none"
  /\ UNCHANGED <<box, persistent, recorded, worker, keepUp, iid, cur, attempt, info, downArt,
                 doc, runs>>

\* A tick of the supervisor thread asks vast about a box this run registered, stopped
\* or not, and copies its info ...
SupervisorCopies(b) ==
  /\ "late_record" \in Faults
  /\ pc # "idle" /\ b \in seen /\ ~tick.busy
  /\ tick' = [box |-> b, copy |-> info[b], busy |-> TRUE]
  /\ UNCHANGED <<box, persistent, recorded, pc, worker, keepUp, iid, cur, attempt, sessions,
                 seen, site, info, downArt, doc, runs>>

\* ... and writes the whole copy as that box's entry, whatever was written since.
SupervisorWrites ==
  /\ tick.busy
  /\ recorded' = [recorded EXCEPT ![tick.box] = tick.copy]
  /\ tick' = NoTick
  /\ UNCHANGED <<box, persistent, pc, worker, keepUp, iid, cur, attempt, sessions, seen,
                 site, info, downArt, doc, runs>>

Supervisor == SupervisorWrites \/ \E b \in Boxes : SupervisorCopies(b)

-----------------------------------------------------------------------------
Driver ==
  \/ Prep \/ WorkerStart \/ OperatorStart
  \/ CreateBox \/ NoCapacity \/ SearchFails \/ RetireOld \/ CacheNew
  \/ Provisioned \/ ProvisionFails
  \/ Nvblox \/ GpuDown \/ GpuDownAborts
  \/ StopCall \/ ExitConfirmed \/ ExitUnconfirmed
  \/ Post \/ FinallyTakeDown \/ ProcessExit

Vast == \E b \in Boxes : QueuedStartFires(b) \/ StopCompletes(b)

Environment ==
  \/ Vast
  \/ OperatorArms \/ Midnight \/ Kill
  \/ \E b \in Boxes : OwnerDestroys(b) \/ OwnerStops(b)

Next == StartDriver \/ Driver \/ Supervisor \/ Environment

Spec == Init /\ [][Next]_vars

\* Every wait of the driver has a deadline, so its main thread keeps moving; vast
\* carries out the state changes it accepted.  Nothing is assumed of the operator.
Fairness ==
  /\ WF_vars(Driver)
  /\ \A b \in Boxes : WF_vars(QueuedStartFires(b)) /\ WF_vars(StopCompletes(b))

FairSpec == Spec /\ Fairness

-----------------------------------------------------------------------------
(* Type invariant *)
TypeOK ==
  /\ box \in [Boxes -> BoxStates]
  /\ armed \in BOOLEAN
  /\ cached \in Boxes
  /\ retired \subseteq Boxes
  /\ recorded \in [Boxes -> Records]
  /\ pc \in PCs
  /\ worker \in BOOLEAN /\ keepUp \in BOOLEAN
  /\ iid \in Boxes /\ cur \in Boxes
  /\ attempt \in 1..MaxAttempts
  /\ sessions \subseteq Boxes /\ seen \subseteq Boxes
  /\ site \in Sites
  /\ info \in [Boxes -> Records]
  /\ tick \in [box: Boxes, copy: Records, busy: BOOLEAN]
  /\ downArt \in Records
  /\ doc \in Docs
  /\ runs \in 0..MaxRuns

\* The driver still has the box in hand and will stop it (or is stopping it).
InHand(b) ==
  \/ b \in sessions
  \/ b = cur /\ pc \in {"created", "retired_old", "provision", "stop"}

(* Nobody pays for a box nobody answers for: a box that is up is in the driver's
   hands, or some status.json says it was left up.  Code: the finally block of
   Pipeline.run, BoxSession.__enter__'s own stop, take_down. *)
NoUnownedBox == \A b \in Boxes : Running(b) => InHand(b) \/ recorded[b] \in LeftUp

(* Every rented contract can be found again: it is the cached id, or on the list the
   owner destroys, or in the hands of the create that has just returned.  Code:
   retire_box_id and set_cached_box_id in start_or_create. *)
NoLostContract ==
  \A b \in Boxes : box[b] \in {"exited", "queued", "running", "stopping"} =>
     b = cached \/ b \in retired \/ (pc \in {"created", "retired_old"} /\ b = cur)

(* A replacement is rented only when the box it replaces is not up, so two boxes never
   bill at once, across runs that left a box up included.  Code: start_or_create. *)
OneBoxRunning == \A b, c \in Boxes : Running(b) /\ Running(c) => b = c

(* `exited_confirmed' is never claimed early: the box this run reports as confirmed
   is down, also when the supervisor writes an older copy over the entry.  Code: the
   confirmation loop of BoxSession.stop, take_down, poll_cost. *)
ConfirmedIsDown ==
  \A b \in seen : recorded[b] = "confirmed" => box[b] \in {"exited", "destroyed"}

(* A run that reports DONE and whose box is still up says so, and why: the artifacts of
   GPU_DOWN_NV hold what take_down found, and no tick of the supervisor reaches them.
   Code: take_down's return, step's finish_step, the abort check between the two. *)
DoneReportsItsBox ==
  doc = "DONE" => \A b \in seen : Running(b) => downArt \in LeftUp

(* The run never reports DONE while it still holds a session: GPU_DOWN_NV must have
   taken down the box that is up, a replacement rented in mid-run included. *)
DoneHoldsNoBox == doc = "DONE" => sessions = {}

(* Once retired, a box is not started again by any later run.  Code: the cache is
   rewritten in the same call that retires the id. *)
RetiredStaysDown ==
  [][\A b \in retired : Running(b)' => Running(b)]_vars

(* Every box that comes up goes down again unless it was kept up on purpose. *)
BoxComesDown ==
  \A b \in Boxes : Running(b) ~> (~Running(b) \/ recorded[b] = "kept_up")

(* A driver process always ends: the capacity loop, the ssh wait and the exit
   confirmation are all bounded. *)
DriverEnds == (pc # "idle") ~> (pc = "idle")

-----------------------------------------------------------------------------
(* What the repository says of itself, refuted by a run, or contradicted as README
   says under "Disagreements found" *)

(* "the request is then sitting in a queue that must be cancelled" (box_ops.py): no
   start is left in vast's queue by a driver that has ended. *)
QueuedStartIsCancelled == pc = "idle" => \A b \in Boxes : box[b] # "queued"

(* "`why is this box costing money' must be answerable from status.json alone, by someone
   who did not start the run" (run_pipeline.py): a registered box that is still up, and
   that the run took its hands off, has an entry saying that it was left up. *)
RegisteredBoxReported ==
  \A b \in seen : Running(b) => InHand(b) \/ recorded[b] \in LeftUp

(* "Every box brought up is stopped from its own `finally`, on success and on failure
   alike" (run_pipeline.py): after the run, no registered box is up unless kept. *)
EveryBoxIsStopped ==
  pc = "idle" => \A b \in seen : Running(b) => recorded[b] = "kept_up"
=============================================================================
