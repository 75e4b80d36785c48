----------------------------- MODULE CostControl -----------------------------
(***************************************************************************)
(* The money of a run: the worker's daily cap and ledger                   *)
(* (pipeline/worker_driver.py), the driver's main thread as it passes from *)
(* step to step, its supervisor thread that measures the cost and cuts an  *)
(* overrun (pipeline/run_pipeline.py), and the box, which bills one dollar *)
(* per unit of time from its start until it has really exited.             *)
(*                                                                         *)
(* One box per run and one job at a time: replacements and refusals are    *)
(* BoxLifecycle's.  Both threads poll the cost; a poll is three steps.     *)
(***************************************************************************)
EXTENDS Naturals

CONSTANTS
  Cap,        \* PIPELINE_DAILY_USD
  PerRun,     \* the job's own max_usd
  Interval,   \* HEARTBEAT_S
  StepMax,    \* the longest a step lasts: its time-outs
  ConfirmMax, \* --exit-confirm-s
  MaxRuns,    \* bound: jobs
  MaxTime,    \* bound: the clock
  Faults      \* a subset of FaultKinds

FaultKinds == {
  "refuses",         \* the driver exits 2 before it writes a status.json
  "killed",          \* run_job's own time-out kills the driver
  "show_fails",      \* vastai show instance fails
  "provision_fails", \* the box starts but never answers
  "stop_fails",      \* vast refuses the stop
  "exit_late",       \* a stopped box is not seen to exit within --exit-confirm-s
  "midnight"         \* the date changes
}

ASSUME BoundsAssumption ==
  /\ {Cap, PerRun, Interval, StepMax, ConfirmMax, MaxRuns, MaxTime} \subseteq Nat
  /\ Interval > 0
ASSUME FaultsAssumption == Faults \subseteq FaultKinds

VARIABLES
  now, day,  \* the clock and the calendar
  ledger,    \* daily_spend.json
  runs,      \* jobs taken so far
  maxUsd,    \* --max-usd of the run, after the clamp
  pc, goal,  \* the main thread; the step it is to enter, at a boundary
  since,     \* when the main thread got where it is
  open,      \* the session is in `sessions'
  seen,      \* ... and in `boxes_seen'
  from, end, \* its billing_from and stopped_at_monotonic, 0: none
  info,      \* its record
  status,    \* status.json: cost and the record of the box
  booked,    \* Supervisor.ledger of the box
  poll,      \* per thread, how far its poll_cost is and the record it copied
  due,       \* when the supervisor's next tick is due
  alarm,     \* abort_reason is set
  up, asked, \* the box bills; vast has accepted a stop
  bill,      \* history: what vast bills, per day
  stale      \* history: what was booked, per day, for drivers that had refused

worker == <<ledger, runs, maxUsd, stale>>
main   == <<pc, goal, since>>
sess   == <<open, seen, from, end, info>>
sup    == <<booked, poll, due, alarm>>
box    == <<up, asked>>
clock  == <<now, day, bill>>
vars   == <<worker, main, sess, status, sup, box, clock>>

Days    == {1, 2}
Threads == {"main", "sup"}
Infos   == {"none", "up", "stop_failed", "unconfirmed", "exited"}
Steps   == {"prepare", "gpu_up", "nvblox", "gpu_down", "check", "produce"}
PCs     == Steps \cup {"off", "boundary", "stop_new", "stop", "stop_last",
                       "record", "record_last", "exit", "refused"}
Idle    == [at |-> "idle", copy |-> "none"]

Least(a, b) == IF a < b THEN a ELSE b
Largest(S) == CHOOSE m \in S : \A n \in S : n <= m

Init ==
  /\ now = 1 /\ day = 1 /\ bill = [d \in Days |-> 0]
  /\ ledger = [d \in Days |-> 0] /\ stale = [d \in Days |-> 0] /\ runs = 0 /\ maxUsd = 0
  /\ pc = "off" /\ goal = "prepare" /\ since = 1
  /\ open = FALSE /\ seen = FALSE /\ from = 0 /\ end = 0 /\ info = "none"
  /\ status = [cost |-> 0, box |-> "none"]
  /\ booked = 0 /\ poll = [t \in Threads |-> Idle] /\ due = 1 /\ alarm = FALSE
  /\ up = FALSE /\ asked = FALSE

-----------------------------------------------------------------------------
(* The worker: run_job *)

Go(p) == pc' = p /\ since' = now

Unclamped(spent) == PerRun  \* mutant: the run's cap is not clamped to what the day has left

Clamp(spent) == Least(PerRun, Cap - spent)

\* The cap is checked, and the run's own clamped, before the driver is started.  The
\* driver begins with a status.json of its own, unless it refuses to start.
StartJob ==
  /\ pc = "off" /\ runs < MaxRuns
  /\ ledger[day] < Cap
  /\ runs' = runs + 1
  /\ maxUsd' = Clamp(ledger[day])
  /\ \/ /\ Go("prepare") /\ goal' = "gpu_up"
        /\ status' = [cost |-> 0, box |-> "none"]
        /\ booked' = 0 /\ alarm' = FALSE /\ due' = now
        /\ poll' = [t \in Threads |-> Idle]
        /\ open' = FALSE /\ seen' = FALSE /\ from' = 0 /\ end' = 0 /\ info' = "none"
     \/ /\ "refuses" \in Faults
        /\ Go("refused")
        /\ UNCHANGED <<goal, status, sup, sess>>
  /\ UNCHANGED <<ledger, stale, box, clock>>

\* The driver is gone; whatever status.json says is booked on today's date: after a driver
\* that refused, the cost of whichever run wrote it last.
BookCost ==
  /\ pc \in {"exit", "refused"}
  /\ ledger' = [ledger EXCEPT ![day] = @ + status.cost]
  /\ stale' = [stale EXCEPT ![day] = @ + (IF pc = "refused" THEN status.cost ELSE 0)]
  /\ Go("off")
  /\ UNCHANGED <<runs, maxUsd, goal, sess, status, sup, box, clock>>

\* subprocess.run's time-out: no finally clause of the driver, nothing booked.
KillDriver ==
  /\ "killed" \in Faults
  /\ pc \notin {"off", "exit", "refused"}
  /\ Go("off")
  /\ poll' = [t \in Threads |-> Idle]
  /\ UNCHANGED <<worker, goal, sess, status, booked, due, alarm, box, clock>>

-----------------------------------------------------------------------------
(* The main thread *)

\* The CPU steps before the box: FRAMES .. MVFILTER.  Nothing is billed yet.
Prepared ==
  /\ pc = "prepare"
  /\ Go("boundary")
  /\ UNCHANGED <<worker, goal, sess, status, sup, box, clock>>

\* Mutant: the boundary looks at the supervisor's last verdict only.
EnterUnpolled ==
  /\ pc = "boundary" /\ poll["main"].at = "idle"
  /\ ~alarm
  /\ Go(goal)
  /\ open' = (open /\ goal # "gpu_down")
  /\ from' = IF goal = "gpu_up" THEN now ELSE from
  /\ up' = (up \/ goal = "gpu_up") /\ asked' = (asked /\ goal # "gpu_up")
  /\ UNCHANGED <<worker, goal, seen, end, info, status, sup, clock>>

\* The boundary polls the cost once a box has been up, then looks at abort_reason.
Enter ==
  /\ pc = "boundary" /\ poll["main"].at = IF seen THEN "done" ELSE "idle"
  /\ poll' = [poll EXCEPT !["main"] = Idle]
  /\ IF alarm
       THEN /\ Go(IF open THEN "stop_last" ELSE "exit") /\ open' = FALSE
            /\ UNCHANGED <<from, box>>
       ELSE /\ Go(goal)
            /\ open' = (open /\ goal # "gpu_down")
            /\ from' = IF goal = "gpu_up" THEN now ELSE from
            /\ up' = (up \/ goal = "gpu_up")
            /\ asked' = (asked /\ goal # "gpu_up")
  /\ UNCHANGED <<worker, goal, seen, end, info, status, booked, due, alarm, clock>>

\* The box answers; only now is it registered with the supervisor.
Provisioned ==
  /\ pc = "gpu_up"
  /\ open' = TRUE /\ seen' = TRUE /\ info' = "up"
  /\ status' = [status EXCEPT !.box = "up"]
  /\ Go("boundary") /\ goal' = "nvblox"
  /\ UNCHANGED <<worker, from, end, sup, box, clock>>

ProvisionFails ==
  /\ "provision_fails" \in Faults
  /\ pc = "gpu_up"
  /\ Go("stop_new")
  /\ UNCHANGED <<worker, goal, sess, status, sup, box, clock>>

\* NVBLOX and FLOOR, over ssh: no process here that the supervisor could kill.
Fused ==
  /\ pc = "nvblox"
  /\ \/ ~alarm /\ Go("boundary") /\ goal' = "gpu_down" /\ open' = open
     \/ Go("stop_last") /\ goal' = goal /\ open' = FALSE
  /\ UNCHANGED <<worker, seen, from, end, info, status, sup, box, clock>>

\* GPU_DOWN has taken the session out of `sessions': the stop call is next.
TakeDown ==
  /\ pc = "gpu_down"
  /\ Go("stop")
  /\ UNCHANGED <<worker, goal, sess, status, sup, box, clock>>

Stopping == {"stop_new", "stop", "stop_last"}

\* A stop_new is that of a bring-up that failed, whose session nobody registered.
AfterStop == Go(CASE pc = "stop_new" -> "exit"
                  [] pc = "stop" -> "record"
                  [] OTHER -> "record_last")

StopAccepted ==
  /\ pc \in Stopping /\ ~asked
  /\ asked' = TRUE
  /\ UNCHANGED <<worker, main, sess, status, sup, up, clock>>

StopFails ==
  /\ "stop_fails" \in Faults
  /\ pc \in Stopping /\ ~asked
  /\ info' = "stop_failed"
  /\ AfterStop
  /\ UNCHANGED <<worker, goal, open, seen, from, end, status, sup, box, clock>>

\* The cost clock runs to a confirmed exit; without one it is left running.
StopConfirmed ==
  /\ pc \in Stopping /\ asked /\ ~up
  /\ info' = "exited" /\ end' = now
  /\ AfterStop
  /\ UNCHANGED <<worker, goal, open, seen, from, status, sup, box, clock>>

StopUnconfirmed ==
  /\ "exit_late" \in Faults
  /\ pc \in Stopping /\ asked /\ now >= since + ConfirmMax
  /\ info' = "unconfirmed"
  /\ AfterStop
  /\ UNCHANGED <<worker, goal, open, seen, from, end, status, sup, box, clock>>

\* take_down's set_box, then the CPU steps that follow, or the end of the finally clause.
RecordStop ==
  /\ pc \in {"record", "record_last"}
  /\ status' = [status EXCEPT !.box = info]
  /\ IF pc = "record" THEN Go("boundary") /\ goal' = "check" ELSE Go("exit") /\ goal' = goal
  /\ UNCHANGED <<worker, sess, sup, box, clock>>

\* LAYERS .. INGEST: a check, then a subprocess the supervisor may kill.
Produce ==
  /\ pc = "check"
  /\ Go("produce")
  /\ UNCHANGED <<worker, goal, sess, status, sup, box, clock>>

\* The next of the CPU steps, or the end; a failure or an abort ends the run as well.
Produced ==
  /\ pc \in {"check", "produce"}
  /\ \/ ~alarm /\ Go("boundary")
     \/ Go("exit")
  /\ UNCHANGED <<worker, goal, sess, status, sup, box, clock>>

-----------------------------------------------------------------------------
(* poll_cost, by the supervisor's tick or at a boundary *)

Alive == pc \notin {"off", "exit", "refused"}

MayPoll(t) ==
  /\ Alive /\ poll[t].at = "idle"
  /\ IF t = "sup" THEN now >= due ELSE pc = "boundary" /\ seen

MeasureNow == now - from  \* mutant: the clock of a stopped box keeps running

Measured == (IF end # 0 THEN end ELSE now) - from

\* show, and a copy of the session's record.  A failed show is no verdict on the cost.
Show(t) ==
  /\ MayPoll(t)
  /\ IF seen
       THEN /\ poll' = [poll EXCEPT ![t] = [at |-> "box", copy |-> info]]
            /\ \/ booked' = Measured
               \/ "show_fails" \in Faults /\ booked' = booked
       ELSE /\ poll' = [poll EXCEPT ![t].at = "total"]
            /\ booked' = booked
  /\ UNCHANGED <<worker, main, sess, status, due, alarm, box, clock>>

WriteBox(t) ==
  /\ Alive /\ poll[t].at = "box"
  /\ status' = [status EXCEPT !.box = poll[t].copy]
  /\ poll' = [poll EXCEPT ![t].at = "total"]
  /\ UNCHANGED <<worker, main, sess, booked, due, alarm, box, clock>>

Over == booked > maxUsd

\* set_cost; an overrun sets abort_reason and kills the process that is registered.
Total(t) ==
  /\ Alive /\ poll[t].at = "total"
  /\ status' = [status EXCEPT !.cost = booked]
  /\ alarm' = (alarm \/ Over)
  /\ IF Over /\ pc = "produce" THEN Go("exit") ELSE UNCHANGED <<pc, since>>
  /\ poll' = [poll EXCEPT ![t] = IF t = "main" THEN [Idle EXCEPT !.at = "done"] ELSE Idle]
  /\ due' = IF t = "sup" THEN now + Interval ELSE due
  /\ UNCHANGED <<worker, goal, sess, booked, box, clock>>

-----------------------------------------------------------------------------
(* Vast and the clock *)

BoxExits ==
  /\ up /\ asked
  /\ up' = FALSE
  /\ UNCHANGED <<worker, main, sess, status, sup, asked, clock>>

\* The supervisor's tick is not late and its calls return within a unit of time; a step
\* and the wait for an exit have their time-outs; bookkeeping takes no time.
MayPass ==
  /\ Alive => poll["sup"].at = "idle" /\ now < due
  /\ CASE pc \in Stopping -> asked /\ now < since + ConfirmMax
       [] pc \in {"boundary", "gpu_down", "record", "record_last", "check", "exit", "refused"} -> FALSE
       [] pc = "off" -> TRUE
       [] OTHER -> now < since + StepMax

Tick ==
  /\ MayPass /\ now < MaxTime
  /\ now' = now + 1
  /\ bill' = IF up THEN [bill EXCEPT ![day] = @ + 1] ELSE bill
  /\ UNCHANGED <<worker, main, sess, status, sup, box, day>>

Midnight ==
  /\ "midnight" \in Faults
  /\ day = 1 /\ day' = 2
  /\ UNCHANGED <<worker, main, sess, status, sup, box, now, bill>>

-----------------------------------------------------------------------------
Worker == StartJob \/ BookCost \/ KillDriver
Main ==
  \/ Prepared \/ Enter \/ Provisioned \/ ProvisionFails \/ Fused \/ TakeDown
  \/ StopAccepted \/ StopFails \/ StopConfirmed \/ StopUnconfirmed \/ RecordStop
  \/ Produce \/ Produced
Poll == \E t \in Threads : Show(t) \/ WriteBox(t) \/ Total(t)

Next == Worker \/ Main \/ Poll \/ BoxExits \/ Tick \/ Midnight

Spec == Init /\ [][Next]_vars

-----------------------------------------------------------------------------
(* Type invariant *)
TypeOK ==
  /\ now \in Nat /\ day \in Days /\ bill \in [Days -> Nat]
  /\ ledger \in [Days -> Nat] /\ stale \in [Days -> Nat] /\ runs \in 0..MaxRuns /\ maxUsd \in 0..PerRun
  /\ pc \in PCs /\ goal \in Steps /\ since \in Nat /\ since <= now
  /\ open \in BOOLEAN /\ seen \in BOOLEAN
  /\ from \in 0..now /\ end \in 0..now /\ info \in Infos
  /\ status \in [cost : Nat, box : Infos]
  /\ booked \in Nat /\ due \in Nat /\ alarm \in BOOLEAN
  /\ poll \in [Threads -> [at : {"idle", "box", "total", "done"}, copy : Infos]]
  /\ up \in BOOLEAN /\ asked \in BOOLEAN

(* What one run can cost beyond its budget: a step that nothing cuts (the box is only
   polled once it answers, and NVBLOX cannot be killed) with the wait for the exit, or two
   ticks of the supervisor, the first of which found no process to kill. *)
Overshoot == Largest({StepMax + ConfirmMax, Interval + Interval})

(* What the runs of a day booked never passes the cap by more than one run's overshoot,
   whatever became of them, also with runs across midnight and drivers killed or failed in
   mid-run.  What is booked a second time for a driver that refused to start comes on top of
   it, and only makes the worker stricter.  Code: check_daily_cap, the clamp in run_job, the
   boundary polls. *)
LedgerWithinCap == \A d \in Days : ledger[d] <= Cap + Overshoot + stale[d]

(* While a registered box bills and its driver runs, its cost is within the budget and
   the overshoot of the step at hand.  Code: Supervisor.poll_cost,
   Pipeline.step. *)
OverrunIsBounded ==
  seen /\ up /\ Alive => now - from <= maxUsd + Overshoot

(* What is booked for a run whose stop was confirmed is its time up, short of at most the
   last tick, and never more.  Code: poll_cost as a ledger over
   boxes_seen, the clock that BoxSession.stop runs to the confirmed exit. *)
CostIsMeasured ==
  pc = "exit" /\ seen /\ info = "exited" =>
    /\ status.cost <= end - from
    /\ end - from <= status.cost + Interval

-----------------------------------------------------------------------------
(* What the repository says of itself and the model contradicts: README, "Disagreements
   found".  No run is spent on it. *)

(* "Daily ceiling in USD, checked against the same ledger `--max-usd` uses - create (or
   start) to a confirmed `exited`" (worker_driver.py): a day's bill stays within the cap
   and the overshoot of its runs. *)
CapCoversBill == \A d \in Days : bill[d] <= Cap + Overshoot

(* "The same ledger `--max-usd` uses" holds what each run measured of its own boxes; a
   driver that refuses has the cost of the run before booked once more. *)
LedgerCountsOnce == \A d \in Days : stale[d] = 0
=============================================================================
