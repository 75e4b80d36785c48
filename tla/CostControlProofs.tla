------------------------- MODULE CostControlProofs -------------------------
(***************************************************************************)
(* CostControl for every cap, every length of a step and of a tick, any     *)
(* number of runs and any calendar: what the ledger and an overrun can      *)
(* amount to, as long as no measurement of the cost is lost.                *)
(***************************************************************************)
EXTENDS CostControl, TLAPS

NoShowFails == "show_fails" \notin Faults

\* A boundary looks at the cost, and the step behind it takes no longer than its time-out.
Slack == StepMax + ConfirmMax

\* The clock of the box in hand has run for at most u: to its exit, or until now.
RanAtMost(u) == IF end # 0 THEN end <= from + u ELSE now <= from + u

-----------------------------------------------------------------------------
(* The inductive invariant *)

\* Where the main thread is in time.
InTime ==
  /\ pc \in {"gpu_up", "nvblox", "produce"} => now <= since + StepMax
  /\ pc \in {"stop", "stop_last"} => now <= since + ConfirmMax

\* The session: registered once its box answers, given up once, its clock stopped at an exit.
Session ==
  /\ pc = "gpu_up" => from = since
  /\ pc \in {"prepare", "gpu_up", "stop_new"} => ~seen
  /\ pc \in {"nvblox", "gpu_down", "stop", "record", "check", "produce"} => seen
  /\ pc = "boundary" => (goal = "gpu_up" <=> ~seen)
  /\ pc = "boundary" => goal \in {"gpu_up", "nvblox", "gpu_down", "check"}
  /\ pc = "prepare" => goal = "gpu_up"
  /\ pc \in {"check", "produce"} => goal = "check"
  /\ Alive /\ open => pc = "nvblox" \/ (pc = "boundary" /\ goal \in {"nvblox", "gpu_down"})
  /\ Alive /\ seen /\ end # 0 => ~up
  /\ Alive /\ ~seen => booked = 0 /\ status.cost = 0
  /\ pc \in {"prepare", "gpu_up", "nvblox", "gpu_down", "stop", "stop_last"} => end = 0
  /\ pc = "boundary" /\ goal # "check" => end = 0
  /\ seen /\ end # 0 => from <= end

\* The main thread polls at boundaries only; once it has, an overrun is known.
Polled ==
  /\ poll["main"].at # "idle" => pc = "boundary" /\ seen
  /\ poll["main"].at # "idle" => booked = Measured
  /\ poll["main"].at = "done" => (booked > maxUsd => alarm)

\* What the box in hand has cost so far, by the position of the main thread.
Spent ==
  Alive /\ seen =>
    /\ RanAtMost(maxUsd + Slack)
    /\ pc = "boundary" /\ goal \in {"nvblox", "gpu_down"} => RanAtMost(maxUsd + StepMax)
    /\ pc \in {"nvblox", "stop", "produce"} => RanAtMost(maxUsd + (now - since))
    /\ pc = "stop_last" => RanAtMost(maxUsd + StepMax + (now - since))
    /\ pc \in {"gpu_down", "check"} => RanAtMost(maxUsd)

\* What is booked of it is no more than that.
Booked ==
  /\ Alive => status.cost <= booked
  /\ Alive /\ seen => booked <= Measured
  /\ pc = "exit" => status.cost <= maxUsd + Slack

\* The day a run is booked on had room for its budget when it started, or is a new one.
Budgeted ==
  /\ maxUsd <= Cap
  /\ day = 1 => ledger[2] = 0
  /\ pc \notin {"off", "refused"} => ledger[day] + maxUsd <= Cap
  /\ \A d \in Days : ledger[d] <= Cap + Slack + stale[d]

\* The supervisor's next tick is never more than an interval away.
Ticking ==
  /\ now > 0
  /\ Alive => now <= due /\ due <= now + Interval

\* The box has answered, and the boundary behind GPU_UP has not booked it yet.
Unpolled == pc = "boundary" /\ goal = "nvblox" /\ poll["main"].at # "done"

\* What is booked is never older than an interval, until the clock of the box has stopped.
Metered ==
  /\ Alive /\ seen /\ poll["sup"].at # "idle" =>
       booked = Measured \/ (Unpolled /\ poll["main"].at = "idle")
  /\ Alive /\ seen => Unpolled \/ (IF end # 0 THEN end ELSE due) <= from + status.cost + Interval
  /\ seen /\ info = "exited" => end # 0
  /\ pc = "exit" /\ seen /\ end # 0 =>
       status.cost <= end - from /\ end <= from + status.cost + Interval

CostInv ==
  TypeOK /\ InTime /\ Session /\ Polled /\ Spent /\ Booked /\ Budgeted /\ Ticking /\ Metered

-----------------------------------------------------------------------------
(* Initial states, and what the constants are *)

LEMMA Bounds ==
  /\ Cap \in Nat /\ PerRun \in Nat /\ Interval \in Nat /\ StepMax \in Nat
  /\ ConfirmMax \in Nat /\ MaxRuns \in Nat /\ MaxTime \in Nat
  BY BoundsAssumption

LEMMA OvershootCovers == Overshoot \in Nat /\ Slack <= Overshoot
<1> DEFINE S == {StepMax + ConfirmMax, Interval + Interval}
<1>1. \E m \in S : \A n \in S : n <= m
  BY Bounds
<1>2. Overshoot \in S /\ \A n \in S : n <= Overshoot
  BY <1>1 DEF Overshoot, Largest
<1>3. QED
  BY <1>2, Bounds DEF Slack

PollRecord == [at : {"idle", "box", "total", "done"}, copy : Infos]

LEMMA IdleTyped == Idle \in PollRecord /\ [Idle EXCEPT !.at = "done"] \in PollRecord
  BY DEF Idle, PollRecord, Infos

LEMMA InitInv == Init => CostInv
<1> SUFFICES ASSUME Init PROVE CostInv
  OBVIOUS
<1> USE Bounds DEF Init
<1>1. poll \in [Threads -> PollRecord]
  BY IdleTyped
<1>2. TypeOK
  <2>1. /\ bill \in [Days -> Nat] /\ ledger \in [Days -> Nat] /\ stale \in [Days -> Nat]
        /\ status \in [cost : Nat, box : Infos]
    BY DEF Infos
  <2>2. pc \in PCs /\ goal \in Steps /\ day \in Days /\ info \in Infos
    BY DEF PCs, Steps, Days, Infos
  <2>3. open \in BOOLEAN /\ seen \in BOOLEAN /\ alarm \in BOOLEAN /\ up \in BOOLEAN /\ asked \in BOOLEAN
    OBVIOUS
  <2>4. now = 1 /\ since = 1 /\ from = 0 /\ end = 0 /\ booked = 0 /\ due = 1 /\ runs = 0 /\ maxUsd = 0
    OBVIOUS
  <2> HIDE DEF Init
  <2>5. QED
    BY <1>1, <2>1, <2>2, <2>3, <2>4 DEF TypeOK, PollRecord
<1>3. poll["main"] = Idle
  BY DEF Threads
<1>4. InTime /\ Session /\ Polled /\ Spent /\ Booked /\ Ticking /\ Metered
  BY <1>3 DEF InTime, Session, Polled, Spent, Booked, Ticking, Metered, Alive, Idle
<1>5. Budgeted
  BY DEF Budgeted, Days, Slack
<1>6. QED
  BY <1>2, <1>4, <1>5 DEF CostInv

-----------------------------------------------------------------------------
(* Types *)

LEMMA MeasuredTyped == ASSUME TypeOK, Session PROVE seen => Measured \in Nat
  BY DEF TypeOK, Session, Measured

LEMMA StepPollTyped ==
  ASSUME TypeOK, [Next]_vars
  PROVE  poll' \in [Threads -> PollRecord]
<1>1. poll \in [Threads -> PollRecord] /\ info \in Infos
  BY DEF TypeOK, PollRecord
<1>2. ASSUME NEW t \in Threads, Show(t) PROVE poll' \in [Threads -> PollRecord]
  <2>1. [at |-> "box", copy |-> info] \in PollRecord /\ [poll[t] EXCEPT !.at = "total"] \in PollRecord
    BY <1>1 DEF PollRecord
  <2>2. QED
    BY <1>1, <1>2, <2>1 DEF Show
<1>3. ASSUME NEW t \in Threads, WriteBox(t) PROVE poll' \in [Threads -> PollRecord]
  <2>1. [poll[t] EXCEPT !.at = "total"] \in PollRecord
    BY <1>1 DEF PollRecord
  <2>2. QED
    BY <1>1, <1>3, <2>1 DEF WriteBox
<1>4. ASSUME NEW t \in Threads, Total(t) PROVE poll' \in [Threads -> PollRecord]
  BY <1>1, <1>4, IdleTyped DEF Total
<1>5. CASE StartJob \/ KillDriver \/ Enter
  BY <1>1, <1>5, IdleTyped DEF StartJob, KillDriver, Enter, sup
<1>6. CASE poll' = poll
  BY <1>1, <1>6
<1>7. \/ \E t \in Threads : Show(t) \/ WriteBox(t) \/ Total(t)
      \/ StartJob \/ KillDriver \/ Enter \/ poll' = poll
  BY DEF Next, Worker, Main, Poll, vars, sup, BookCost, Prepared, Provisioned, ProvisionFails,
         Fused, TakeDown, StopAccepted, StopFails, StopConfirmed, StopUnconfirmed, RecordStop,
         Produce, Produced, BoxExits, Tick, Midnight
<1>8. QED
  BY <1>2, <1>3, <1>4, <1>5, <1>6, <1>7

LEMMA StepTypeOK ==
  ASSUME TypeOK, Session, [Next]_vars
  PROVE  TypeOK'
<1> USE Bounds DEF TypeOK, Days, PCs, Steps, Infos, Go, vars, worker, main, sess, sup, box, clock
<1>t. poll' \in [Threads -> PollRecord]
  BY StepPollTyped
<1> USE <1>t DEF PollRecord
<1>1. CASE StartJob
  <2>1. maxUsd' \in 0..PerRun
    BY <1>1 DEF StartJob, Clamp, Least
  <2>2. open' \in BOOLEAN /\ seen' \in BOOLEAN /\ alarm' \in BOOLEAN
    BY <1>1 DEF StartJob
  <2>3. up' = up /\ asked' = asked
    BY <1>1 DEF StartJob
  <2>4. QED
    BY <1>1, <2>1, <2>2, <2>3 DEF StartJob
<1>2. CASE BookCost
  BY <1>2 DEF BookCost
<1>3. CASE KillDriver
  BY <1>3 DEF KillDriver
<1>4. CASE Prepared
  BY <1>4 DEF Prepared
<1>5. CASE Enter
  <2>1. open' \in BOOLEAN /\ up' \in BOOLEAN /\ asked' \in BOOLEAN
    BY <1>5 DEF Enter
  <2>2. from' \in 0..now /\ pc' \in PCs /\ since' = now
    BY <1>5 DEF Enter
  <2>3. seen' = seen /\ alarm' = alarm
    BY <1>5 DEF Enter
  <2>4. QED
    BY <1>5, <2>1, <2>2, <2>3 DEF Enter
<1>6. CASE Provisioned
  BY <1>6 DEF Provisioned
<1>7. CASE ProvisionFails
  BY <1>7 DEF ProvisionFails
<1>8. CASE Fused
  <2>1. open' \in BOOLEAN
    BY <1>8 DEF Fused
  <2>2. up' = up /\ asked' = asked /\ seen' = seen /\ alarm' = alarm
    BY <1>8 DEF Fused
  <2>3. QED
    BY <1>8, <2>1, <2>2 DEF Fused
<1>9. CASE TakeDown
  BY <1>9 DEF TakeDown
<1>10. CASE StopAccepted
  BY <1>10 DEF StopAccepted
<1>11. CASE StopFails
  BY <1>11 DEF StopFails, AfterStop, Stopping
<1>12. CASE StopConfirmed
  BY <1>12 DEF StopConfirmed, AfterStop, Stopping
<1>13. CASE StopUnconfirmed
  BY <1>13 DEF StopUnconfirmed, AfterStop, Stopping
<1>14. CASE RecordStop
  BY <1>14 DEF RecordStop
<1>15. CASE Produce
  BY <1>15 DEF Produce
<1>16. CASE Produced
  BY <1>16 DEF Produced
<1>17. ASSUME NEW t \in Threads, Show(t) PROVE TypeOK'
  BY <1>17, MeasuredTyped DEF Show, MayPoll, Threads
<1>18. ASSUME NEW t \in Threads, WriteBox(t) PROVE TypeOK'
  BY <1>18 DEF WriteBox, Threads
<1>19. ASSUME NEW t \in Threads, Total(t) PROVE TypeOK'
  BY <1>19 DEF Total, Over, Threads
<1>20. CASE BoxExits
  <2>1. up' \in BOOLEAN
    BY <1>20 DEF BoxExits
  <2>2. asked' = asked /\ open' = open /\ seen' = seen /\ alarm' = alarm
    BY <1>20 DEF BoxExits
  <2>3. QED
    BY <1>20, <2>1, <2>2 DEF BoxExits
<1>21. CASE Tick
  BY <1>21 DEF Tick, MayPass, Stopping
<1>22. CASE Midnight
  BY <1>22 DEF Midnight
<1>23. CASE UNCHANGED vars
  BY <1>23 DEF vars
<1>24. QED
  BY <1>1, <1>2, <1>3, <1>4, <1>5, <1>6, <1>7, <1>8, <1>9, <1>10, <1>11, <1>12, <1>13, <1>14,
     <1>15, <1>16, <1>17, <1>18, <1>19, <1>20, <1>21, <1>22, <1>23
  DEF Next, Worker, Main, Poll

-----------------------------------------------------------------------------
(* Time, session, polls, cost and budget *)

LEMMA StepInTime ==
  ASSUME TypeOK, InTime, [Next]_vars
  PROVE  InTime'
<1> USE Bounds DEF TypeOK, InTime, vars, worker, main, sess, sup, box, clock, Go, Alive
<1>1. CASE StartJob
  BY <1>1 DEF StartJob, Clamp, Least
<1>2. CASE BookCost
  BY <1>2 DEF BookCost
<1>3. CASE KillDriver
  BY <1>3 DEF KillDriver
<1>4. CASE Prepared
  BY <1>4 DEF Prepared
<1>5. CASE Enter
  BY <1>5 DEF Enter
<1>6. CASE Provisioned
  BY <1>6 DEF Provisioned
<1>7. CASE ProvisionFails
  BY <1>7 DEF ProvisionFails
<1>8. CASE Fused
  BY <1>8 DEF Fused
<1>9. CASE TakeDown
  BY <1>9 DEF TakeDown
<1>10. CASE StopAccepted
  BY <1>10 DEF StopAccepted
<1>11. CASE StopFails
  BY <1>11 DEF StopFails, AfterStop, Stopping
<1>12. CASE StopConfirmed
  BY <1>12 DEF StopConfirmed, AfterStop, Stopping
<1>13. CASE StopUnconfirmed
  BY <1>13 DEF StopUnconfirmed, AfterStop, Stopping
<1>14. CASE RecordStop
  BY <1>14 DEF RecordStop
<1>15. CASE Produce
  BY <1>15 DEF Produce
<1>16. CASE Produced
  BY <1>16 DEF Produced
<1>17. ASSUME NEW t \in Threads, Show(t) PROVE InTime'
  BY <1>17 DEF Show, MayPoll, Threads
<1>18. ASSUME NEW t \in Threads, WriteBox(t) PROVE InTime'
  BY <1>18 DEF WriteBox, Threads
<1>19. ASSUME NEW t \in Threads, Total(t) PROVE InTime'
  BY <1>19 DEF Total, Over, Threads
<1>20. CASE BoxExits
  BY <1>20 DEF BoxExits
<1>21. CASE Tick
  BY <1>21 DEF Tick, MayPass, Stopping
<1>22. CASE Midnight
  BY <1>22 DEF Midnight
<1>23. CASE UNCHANGED vars
  BY <1>23 DEF vars
<1>24. QED
  BY <1>1, <1>2, <1>3, <1>4, <1>5, <1>6, <1>7, <1>8, <1>9, <1>10, <1>11, <1>12, <1>13, <1>14,
     <1>15, <1>16, <1>17, <1>18, <1>19, <1>20, <1>21, <1>22, <1>23
  DEF Next, Worker, Main, Poll

LEMMA StepSession ==
  ASSUME TypeOK, InTime, Session, Booked, [Next]_vars
  PROVE  Session'
<1> USE Bounds DEF TypeOK, Session, vars, worker, main, sess, sup, box, clock, Go, Alive
<1>1. CASE StartJob
  BY <1>1 DEF StartJob, Clamp, Least
<1>2. CASE BookCost
  BY <1>2 DEF BookCost
<1>3. CASE KillDriver
  BY <1>3 DEF KillDriver
<1>4. CASE Prepared
  BY <1>4 DEF Prepared
<1>5. CASE Enter
  BY <1>5 DEF Enter
<1>6. CASE Provisioned
  BY <1>6 DEF Provisioned
<1>7. CASE ProvisionFails
  BY <1>7 DEF ProvisionFails
<1>8. CASE Fused
  BY <1>8 DEF Fused
<1>9. CASE TakeDown
  BY <1>9 DEF TakeDown
<1>10. CASE StopAccepted
  BY <1>10 DEF StopAccepted
<1>11. CASE StopFails
  BY <1>11 DEF StopFails, AfterStop, Stopping
<1>12. CASE StopConfirmed
  BY <1>12 DEF StopConfirmed, AfterStop, Stopping
<1>13. CASE StopUnconfirmed
  BY <1>13 DEF StopUnconfirmed, AfterStop, Stopping
<1>14. CASE RecordStop
  BY <1>14 DEF RecordStop
<1>15. CASE Produce
  BY <1>15 DEF Produce
<1>16. CASE Produced
  BY <1>16 DEF Produced
<1>17. ASSUME NEW t \in Threads, Show(t) PROVE Session'
  BY <1>17 DEF Show, MayPoll, Threads
<1>18. ASSUME NEW t \in Threads, WriteBox(t) PROVE Session'
  BY <1>18 DEF WriteBox, Threads
<1>19. ASSUME NEW t \in Threads, Total(t) PROVE Session'
  BY <1>19 DEF Total, Over, Threads
<1>20. CASE BoxExits
  BY <1>20 DEF BoxExits
<1>21. CASE Tick
  BY <1>21 DEF Tick, MayPass, Stopping
<1>22. CASE Midnight
  BY <1>22 DEF Midnight
<1>23. CASE UNCHANGED vars
  BY <1>23 DEF vars
<1>24. QED
  BY <1>1, <1>2, <1>3, <1>4, <1>5, <1>6, <1>7, <1>8, <1>9, <1>10, <1>11, <1>12, <1>13, <1>14,
     <1>15, <1>16, <1>17, <1>18, <1>19, <1>20, <1>21, <1>22, <1>23
  DEF Next, Worker, Main, Poll

\* A thread's poll leaves the other one's alone.
LEMMA MainsPoll ==
  ASSUME TypeOK, NEW t \in Threads
  PROVE  /\ Show(t) => IF t = "main" THEN poll'["main"].at \in {"box", "total"} ELSE poll'["main"] = poll["main"]
         /\ WriteBox(t) => IF t = "main" THEN poll["main"].at = "box" /\ poll'["main"].at = "total"
                            ELSE poll'["main"] = poll["main"]
         /\ Total(t) => IF t = "main" THEN poll["main"].at = "total" /\ poll'["main"].at = "done"
                         ELSE poll'["main"] = poll["main"]
<1>1. poll \in [Threads -> PollRecord] /\ "main" \in Threads
  BY DEF TypeOK, PollRecord, Threads
<1>2. QED
  BY <1>1 DEF Show, WriteBox, Total, Idle, PollRecord

LEMMA StepPolled ==
  ASSUME NoShowFails, TypeOK, Session, Polled, [Next]_vars
  PROVE  Polled'
<1> USE DEF Polled, Measured
<1>1. CASE StartJob
  <2>1. poll["main"].at = "idle"
    BY <1>1 DEF StartJob
  <2>2. poll'["main"].at = "idle"
    BY <1>1, <2>1 DEF StartJob, sup, Idle, Threads
  <2>3. QED
    BY <2>2
<1>2. CASE KillDriver
  <2>1. poll'["main"].at = "idle"
    BY <1>2 DEF KillDriver, Idle, Threads
  <2>2. QED
    BY <2>1
<1>3. CASE Enter
  <2>1. poll'["main"].at = "idle"
    BY <1>3 DEF Enter, Idle, TypeOK, Threads
  <2>2. QED
    BY <2>1
<1>4. ASSUME NEW t \in Threads, Show(t) PROVE Polled'
  <2>1. seen /\ t = "main" => booked' = Measured /\ pc = "boundary"
    BY <1>4 DEF Show, MayPoll, NoShowFails
  <2>2. seen => booked' = Measured
    BY <1>4 DEF Show, NoShowFails
  <2>3. t = "main" => pc = "boundary" /\ seen /\ poll["main"].at = "idle"
    BY <1>4 DEF Show, MayPoll
  <2>4. UNCHANGED <<pc, seen, end, now, from, maxUsd, alarm>>
    BY <1>4 DEF Show, worker, main, sess, clock
  <2>5. QED
    BY <1>4, <2>2, <2>3, <2>4, MainsPoll
<1>5. ASSUME NEW t \in Threads, WriteBox(t) PROVE Polled'
  <2>1. UNCHANGED <<pc, seen, end, now, from, maxUsd, alarm, booked>>
    BY <1>5 DEF WriteBox, worker, main, sess, clock
  <2>2. QED
    BY <1>5, <2>1, MainsPoll
<1>6. ASSUME NEW t \in Threads, Total(t) PROVE Polled'
  <2>1. UNCHANGED <<seen, end, now, from, maxUsd, booked>> /\ alarm' = (alarm \/ Over)
    BY <1>6 DEF Total, worker, sess, clock
  <2>2. pc = "boundary" => pc' = pc
    BY <1>6 DEF Total
  <2>3. QED
    BY <1>6, <2>1, <2>2, MainsPoll DEF Over
<1>7. CASE poll["main"].at = "idle" /\ poll' = poll
  BY <1>7
<1>8. CASE UNCHANGED <<poll, pc, seen, booked, end, now, from, maxUsd, alarm>>
  BY <1>8
<1>9. CASE BookCost \/ Prepared \/ Provisioned \/ ProvisionFails \/ Fused \/ TakeDown
  BY <1>7, <1>9 DEF BookCost, Prepared, Provisioned, ProvisionFails, Fused, TakeDown, sup
<1>10. CASE StopAccepted \/ StopFails \/ StopConfirmed \/ StopUnconfirmed
  BY <1>7, <1>10 DEF StopAccepted, StopFails, StopConfirmed, StopUnconfirmed, Stopping, sup
<1>11. CASE RecordStop \/ Produce \/ Produced
  BY <1>7, <1>11 DEF RecordStop, Produce, Produced, sup
<1>12. CASE Tick
  BY <1>7, <1>12 DEF Tick, MayPass, Stopping, sup
<1>13. CASE BoxExits \/ Midnight \/ UNCHANGED vars
  BY <1>8, <1>13 DEF BoxExits, Midnight, vars, worker, main, sess, sup, clock
<1>14. QED
  BY <1>1, <1>2, <1>3, <1>4, <1>5, <1>6, <1>9, <1>10, <1>11, <1>12, <1>13
  DEF Next, Worker, Main, Poll

LEMMA StepSpent ==
  ASSUME TypeOK, InTime, Session, Polled, Spent, [Next]_vars
  PROVE  Spent'
<1> USE Bounds DEF TypeOK, InTime, Session, Spent, RanAtMost, Slack, vars, worker, main, sess, sup, box, clock, Go, Alive
<1>1. CASE StartJob
  BY <1>1 DEF StartJob, Clamp, Least
<1>2. CASE BookCost
  BY <1>2 DEF BookCost
<1>3. CASE KillDriver
  BY <1>3 DEF KillDriver
<1>4. CASE Prepared
  BY <1>4 DEF Prepared
<1>5. CASE Enter
  <2>1. UNCHANGED <<seen, end, now, maxUsd>> /\ since' = now
    BY <1>5 DEF Enter
  <2>2. CASE ~seen
    BY <2>1, <2>2
  <2>3. CASE seen /\ alarm
    <3>1. pc = "boundary" /\ from' = from /\ pc' = IF open THEN "stop_last" ELSE "exit"
      BY <1>5, <2>3 DEF Enter
    <3>2. RanAtMost(maxUsd + Slack) /\ (open => RanAtMost(maxUsd + StepMax))
      BY <2>3, <3>1
    <3>3. QED
      BY <2>1, <3>1, <3>2
  <2>4. CASE seen /\ ~alarm
    <3>1. pc = "boundary" /\ goal \in {"nvblox", "gpu_down", "check"} /\ pc' = goal /\ from' = from
      BY <1>5, <2>4 DEF Enter
    <3>2. booked = Measured /\ booked <= maxUsd
      BY <1>5, <2>4 DEF Enter, Polled
    <3>3. RanAtMost(maxUsd)
      BY <3>2 DEF Measured
    <3>4. QED
      BY <2>1, <3>1, <3>3
  <2>5. QED
    BY <2>2, <2>3, <2>4
<1>6. CASE Provisioned
  BY <1>6 DEF Provisioned
<1>7. CASE ProvisionFails
  BY <1>7 DEF ProvisionFails
<1>8. CASE Fused
  BY <1>8 DEF Fused
<1>9. CASE TakeDown
  BY <1>9 DEF TakeDown
<1>10. CASE StopAccepted
  BY <1>10 DEF StopAccepted
<1>11. CASE StopFails
  BY <1>11 DEF StopFails, AfterStop, Stopping
<1>12. CASE StopConfirmed
  <2>1. UNCHANGED <<seen, from, now, maxUsd>> /\ end' = now /\ pc' \in {"record", "record_last", "exit"}
    BY <1>12 DEF StopConfirmed, AfterStop, Stopping
  <2>2. seen /\ Alive => RanAtMost(maxUsd + Slack) /\ end = 0
    BY <1>12 DEF StopConfirmed, Stopping
  <2>3. seen => now <= from + maxUsd + Slack
    BY <1>12, <2>2 DEF StopConfirmed, Stopping
  <2>4. QED
    BY <2>1, <2>3
<1>13. CASE StopUnconfirmed
  BY <1>13 DEF StopUnconfirmed, AfterStop, Stopping
<1>14. CASE RecordStop
  BY <1>14 DEF RecordStop
<1>15. CASE Produce
  BY <1>15 DEF Produce
<1>16. CASE Produced
  BY <1>16 DEF Produced
<1>17. ASSUME NEW t \in Threads, Show(t) PROVE Spent'
  BY <1>17 DEF Show, MayPoll, Threads
<1>18. ASSUME NEW t \in Threads, WriteBox(t) PROVE Spent'
  BY <1>18 DEF WriteBox, Threads
<1>19. ASSUME NEW t \in Threads, Total(t) PROVE Spent'
  BY <1>19 DEF Total, Over, Threads
<1>20. CASE BoxExits
  BY <1>20 DEF BoxExits
<1>21. CASE Tick
  <2>1. now' = now + 1 /\ UNCHANGED <<pc, goal, since, seen, from, end, maxUsd>>
    BY <1>21 DEF Tick
  <2>2. Alive /\ seen => pc \in {"nvblox", "stop", "stop_last", "produce"}
    <3>1. pc \notin {"boundary", "gpu_down", "record", "record_last", "check"}
      BY <1>21 DEF Tick, MayPass, Stopping
    <3>2. QED
      BY <3>1 DEF PCs, Steps
  <2>3. CASE end # 0
    BY <2>1, <2>2, <2>3
  <2>4. CASE end = 0 /\ Alive /\ seen
    <3>1. CASE pc \in {"nvblox", "produce"}
      <4>1. now < since + StepMax /\ now <= from + (maxUsd + (now - since))
        BY <1>21, <2>4, <3>1 DEF Tick, MayPass, Stopping
      <4>2. QED
        BY <2>1, <2>4, <3>1, <4>1
    <3>2. CASE pc = "stop"
      <4>1. now < since + ConfirmMax /\ now <= from + (maxUsd + (now - since))
        BY <1>21, <2>4, <3>2 DEF Tick, MayPass, Stopping
      <4>2. QED
        BY <2>1, <2>4, <3>2, <4>1
    <3>3. CASE pc = "stop_last"
      <4>1. now < since + ConfirmMax /\ now <= from + (maxUsd + StepMax + (now - since))
        BY <1>21, <2>4, <3>3 DEF Tick, MayPass, Stopping
      <4>2. QED
        BY <2>1, <2>4, <3>3, <4>1
    <3>4. QED
      BY <2>2, <2>4, <3>1, <3>2, <3>3
  <2>5. CASE ~(Alive /\ seen)
    BY <2>1, <2>5
  <2>6. QED
    BY <2>3, <2>4, <2>5
<1>22. CASE Midnight
  BY <1>22 DEF Midnight
<1>23. CASE UNCHANGED vars
  BY <1>23 DEF vars
<1>24. QED
  BY <1>1, <1>2, <1>3, <1>4, <1>5, <1>6, <1>7, <1>8, <1>9, <1>10, <1>11, <1>12, <1>13, <1>14,
     <1>15, <1>16, <1>17, <1>18, <1>19, <1>20, <1>21, <1>22, <1>23
  DEF Next, Worker, Main, Poll

LEMMA CostBound ==
  ASSUME TypeOK, Session, Spent, Booked, Alive
  PROVE  status.cost <= maxUsd + Slack /\ booked <= maxUsd + Slack
<1>1. status.cost \in Nat /\ booked \in Nat /\ maxUsd \in Nat /\ status.cost <= booked
  BY Bounds DEF TypeOK, Booked
<1>2. CASE seen
  BY <1>1, <1>2, Bounds DEF Spent, Booked, RanAtMost, Measured, TypeOK, Slack
<1>3. CASE ~seen
  BY <1>1, <1>3, Bounds DEF Session, Slack
<1>4. QED
  BY <1>2, <1>3

LEMMA StepBooked ==
  ASSUME NoShowFails, TypeOK, InTime, Session, Polled, Spent, Booked, [Next]_vars
  PROVE  Booked'
<1> USE Bounds DEF TypeOK, Session, Booked, Measured, vars, worker, main, sess, sup, box, clock, Go, Alive
<1>1. CASE StartJob
  BY <1>1 DEF StartJob, Clamp, Least
<1>2. CASE BookCost
  BY <1>2 DEF BookCost
<1>3. CASE KillDriver
  BY <1>3 DEF KillDriver
<1>4. CASE Prepared
  BY <1>4 DEF Prepared
<1>5. CASE Enter
  <2>1. UNCHANGED <<booked, maxUsd, status, seen, now, end>> /\ (seen => from' = from)
    BY <1>5 DEF Enter
  <2>2. Alive
    BY <1>5 DEF Enter
  <2>3. QED
    BY <2>1, <2>2, CostBound
<1>6. CASE Provisioned
  BY <1>6 DEF Provisioned
<1>7. CASE ProvisionFails
  BY <1>7 DEF ProvisionFails
<1>8. CASE Fused
  BY <1>8 DEF Fused
<1>9. CASE TakeDown
  BY <1>9 DEF TakeDown
<1>10. CASE StopAccepted
  BY <1>10 DEF StopAccepted
<1>11. CASE StopFails
  <2>1. UNCHANGED <<booked, maxUsd, seen, from, now, end>> /\ status'.cost = status.cost
    BY <1>11 DEF StopFails, AfterStop, Stopping
  <2>2. Alive
    BY <1>11 DEF StopFails, AfterStop, Stopping
  <2>3. QED
    BY <2>1, <2>2, CostBound
<1>12. CASE StopConfirmed
  <2>1. UNCHANGED <<booked, maxUsd, status, seen, from, now>> /\ end' = now
    BY <1>12 DEF StopConfirmed
  <2>2. Alive /\ (seen => end = 0)
    BY <1>12 DEF StopConfirmed, Stopping
  <2>3. QED
    BY <2>1, <2>2, CostBound
<1>13. CASE StopUnconfirmed
  <2>1. UNCHANGED <<booked, maxUsd, seen, from, now, end>> /\ status'.cost = status.cost
    BY <1>13 DEF StopUnconfirmed, AfterStop, Stopping
  <2>2. Alive
    BY <1>13 DEF StopUnconfirmed, AfterStop, Stopping
  <2>3. QED
    BY <2>1, <2>2, CostBound
<1>14. CASE RecordStop
  <2>1. UNCHANGED <<booked, maxUsd, seen, from, now, end>> /\ status'.cost = status.cost
    BY <1>14 DEF RecordStop
  <2>2. Alive
    BY <1>14 DEF RecordStop
  <2>3. QED
    BY <2>1, <2>2, CostBound
<1>15. CASE Produce
  BY <1>15 DEF Produce
<1>16. CASE Produced
  <2>1. UNCHANGED <<booked, maxUsd, seen, from, now, end>> /\ status'.cost = status.cost
    BY <1>16 DEF Produced
  <2>2. Alive
    BY <1>16 DEF Produced
  <2>3. QED
    BY <2>1, <2>2, CostBound
<1>17. ASSUME NEW t \in Threads, Show(t) PROVE Booked'
  BY <1>17 DEF Show, MayPoll, Threads
<1>18. ASSUME NEW t \in Threads, WriteBox(t) PROVE Booked'
  BY <1>18 DEF WriteBox, Threads
<1>19. ASSUME NEW t \in Threads, Total(t) PROVE Booked'
  <2>1. UNCHANGED <<booked, maxUsd, seen, from, now, end>> /\ status'.cost = booked
    BY <1>19 DEF Total
  <2>2. Alive
    BY <1>19 DEF Total
  <2>3. QED
    BY <2>1, <2>2, CostBound
<1>20. CASE BoxExits
  BY <1>20 DEF BoxExits
<1>21. CASE Tick
  BY <1>21 DEF Tick, MayPass, Stopping
<1>22. CASE Midnight
  BY <1>22 DEF Midnight
<1>23. CASE UNCHANGED vars
  BY <1>23 DEF vars
<1>24. QED
  BY <1>1, <1>2, <1>3, <1>4, <1>5, <1>6, <1>7, <1>8, <1>9, <1>10, <1>11, <1>12, <1>13, <1>14,
     <1>15, <1>16, <1>17, <1>18, <1>19, <1>20, <1>21, <1>22, <1>23
  DEF Next, Worker, Main, Poll

LEMMA StepBudgeted ==
  ASSUME TypeOK, Booked, Budgeted, [Next]_vars
  PROVE  Budgeted'
<1> USE Bounds DEF TypeOK, Booked, Budgeted, Days, Slack, vars, worker, main, sess, sup, box, clock, Go, Alive
<1>1. CASE StartJob
  BY <1>1 DEF StartJob, Clamp, Least
<1>2. CASE BookCost
  BY <1>2 DEF BookCost
<1>3. CASE KillDriver
  BY <1>3 DEF KillDriver
<1>4. CASE Prepared
  BY <1>4 DEF Prepared
<1>5. CASE Enter
  BY <1>5 DEF Enter
<1>6. CASE Provisioned
  BY <1>6 DEF Provisioned
<1>7. CASE ProvisionFails
  BY <1>7 DEF ProvisionFails
<1>8. CASE Fused
  BY <1>8 DEF Fused
<1>9. CASE TakeDown
  BY <1>9 DEF TakeDown
<1>10. CASE StopAccepted
  BY <1>10 DEF StopAccepted
<1>11. CASE StopFails
  BY <1>11 DEF StopFails, AfterStop, Stopping
<1>12. CASE StopConfirmed
  BY <1>12 DEF StopConfirmed, AfterStop, Stopping
<1>13. CASE StopUnconfirmed
  BY <1>13 DEF StopUnconfirmed, AfterStop, Stopping
<1>14. CASE RecordStop
  BY <1>14 DEF RecordStop
<1>15. CASE Produce
  BY <1>15 DEF Produce
<1>16. CASE Produced
  BY <1>16 DEF Produced
<1>17. ASSUME NEW t \in Threads, Show(t) PROVE Budgeted'
  BY <1>17 DEF Show, MayPoll, Threads
<1>18. ASSUME NEW t \in Threads, WriteBox(t) PROVE Budgeted'
  BY <1>18 DEF WriteBox, Threads
<1>19. ASSUME NEW t \in Threads, Total(t) PROVE Budgeted'
  BY <1>19 DEF Total, Over, Threads
<1>20. CASE BoxExits
  BY <1>20 DEF BoxExits
<1>21. CASE Tick
  BY <1>21 DEF Tick, MayPass, Stopping
<1>22. CASE Midnight
  BY <1>22 DEF Midnight
<1>23. CASE UNCHANGED vars
  BY <1>23 DEF vars
<1>24. QED
  BY <1>1, <1>2, <1>3, <1>4, <1>5, <1>6, <1>7, <1>8, <1>9, <1>10, <1>11, <1>12, <1>13, <1>14,
     <1>15, <1>16, <1>17, <1>18, <1>19, <1>20, <1>21, <1>22, <1>23
  DEF Next, Worker, Main, Poll

LEMMA StepTicking ==
  ASSUME TypeOK, Ticking, [Next]_vars
  PROVE  Ticking'
<1> USE Bounds DEF TypeOK, Ticking, vars, worker, main, sess, sup, box, clock, Go, Alive
<1>1. CASE StartJob
  BY <1>1 DEF StartJob, Clamp, Least
<1>2. CASE BookCost
  BY <1>2 DEF BookCost
<1>3. CASE KillDriver
  BY <1>3 DEF KillDriver
<1>4. CASE Prepared
  BY <1>4 DEF Prepared
<1>5. CASE Enter
  BY <1>5 DEF Enter
<1>6. CASE Provisioned
  BY <1>6 DEF Provisioned
<1>7. CASE ProvisionFails
  BY <1>7 DEF ProvisionFails
<1>8. CASE Fused
  BY <1>8 DEF Fused
<1>9. CASE TakeDown
  BY <1>9 DEF TakeDown
<1>10. CASE StopAccepted
  BY <1>10 DEF StopAccepted
<1>11. CASE StopFails
  BY <1>11 DEF StopFails, AfterStop, Stopping
<1>12. CASE StopConfirmed
  BY <1>12 DEF StopConfirmed, AfterStop, Stopping
<1>13. CASE StopUnconfirmed
  BY <1>13 DEF StopUnconfirmed, AfterStop, Stopping
<1>14. CASE RecordStop
  BY <1>14 DEF RecordStop
<1>15. CASE Produce
  BY <1>15 DEF Produce
<1>16. CASE Produced
  BY <1>16 DEF Produced
<1>17. ASSUME NEW t \in Threads, Show(t) PROVE Ticking'
  BY <1>17 DEF Show, MayPoll, Threads
<1>18. ASSUME NEW t \in Threads, WriteBox(t) PROVE Ticking'
  BY <1>18 DEF WriteBox, Threads
<1>19. ASSUME NEW t \in Threads, Total(t) PROVE Ticking'
  BY <1>19 DEF Total, Over, Threads
<1>20. CASE BoxExits
  BY <1>20 DEF BoxExits
<1>21. CASE Tick
  BY <1>21 DEF Tick, MayPass, Stopping
<1>22. CASE Midnight
  BY <1>22 DEF Midnight
<1>23. CASE UNCHANGED vars
  BY <1>23 DEF vars
<1>24. QED
  BY <1>1, <1>2, <1>3, <1>4, <1>5, <1>6, <1>7, <1>8, <1>9, <1>10, <1>11, <1>12, <1>13, <1>14,
     <1>15, <1>16, <1>17, <1>18, <1>19, <1>20, <1>21, <1>22, <1>23
  DEF Next, Worker, Main, Poll

LEMMA StepMetered ==
  ASSUME NoShowFails, TypeOK, InTime, Session, Polled, Booked, Ticking, Metered, [Next]_vars
  PROVE  Metered'
<1> USE Bounds DEF TypeOK, Session, Booked, Ticking, Metered, Measured, Unpolled, vars, worker, main, sess, sup, box, clock, Go, Alive
<1>1. CASE StartJob
  BY <1>1 DEF StartJob, Idle
<1>2. CASE BookCost
  BY <1>2 DEF BookCost
<1>3. CASE KillDriver
  BY <1>3 DEF KillDriver
<1>4. CASE Prepared
  BY <1>4 DEF Prepared
<1>5. CASE Enter
  <2>1. /\ UNCHANGED <<seen, end, now, info, status, booked, due>> /\ (seen => from' = from)
        /\ Alive /\ pc' \in {"stop_last", "exit", goal} /\ pc' # "boundary"
    BY <1>5 DEF Enter
  <2>2. poll'["sup"] = poll["sup"]
    BY <1>5 DEF Enter, Threads
  <2>3. seen => ~Unpolled /\ from' = from
    BY <1>5 DEF Enter
  <2>4. CASE ~seen
    BY <2>1, <2>4
  <2>5. CASE seen
    <3>1. Measured' = Measured /\ ~Unpolled'
      BY <2>1, <2>3, <2>5
    <3>2. status.cost <= Measured
      BY <2>1, <2>5
    <3>3. (IF end # 0 THEN end ELSE due) <= from + status.cost + Interval
      BY <2>1, <2>3, <2>5
    <3>4. poll["sup"].at # "idle" => booked = Measured
      BY <2>1, <2>3, <2>5
    <3>5. QED
      BY <2>1, <2>2, <2>3, <2>5, <3>1, <3>2, <3>3, <3>4
  <2>6. QED
    BY <2>4, <2>5
<1>6. CASE Provisioned
  <2>1. pc = "gpu_up" /\ pc' = "boundary" /\ goal' = "nvblox" /\ poll' = poll /\ info' = "up" /\ now' = now
    BY <1>6 DEF Provisioned
  <2>2. poll["main"].at = "idle"
    BY <2>1 DEF Polled, Threads
  <2>3. QED
    BY <2>1, <2>2
<1>7. CASE ProvisionFails
  BY <1>7 DEF ProvisionFails
<1>8. CASE Fused
  BY <1>8 DEF Fused
<1>9. CASE TakeDown
  BY <1>9 DEF TakeDown
<1>10. CASE StopAccepted
  BY <1>10 DEF StopAccepted
<1>11. CASE StopFails
  BY <1>11 DEF StopFails, AfterStop, Stopping
<1>12. CASE StopConfirmed
  BY <1>12 DEF StopConfirmed, AfterStop, Stopping
<1>13. CASE StopUnconfirmed
  BY <1>13 DEF StopUnconfirmed, AfterStop, Stopping
<1>14. CASE RecordStop
  BY <1>14 DEF RecordStop
<1>15. CASE Produce
  BY <1>15 DEF Produce
<1>16. CASE Produced
  BY <1>16 DEF Produced
<1>17. ASSUME NEW t \in Threads, Show(t) PROVE Metered'
  <2>1. seen => booked' = Measured
    BY <1>17 DEF Show, NoShowFails
  <2>2. UNCHANGED <<pc, goal, seen, end, from, now, info, status, due>>
    BY <1>17 DEF Show
  <2>3. pc # "exit" /\ (t = "main" => poll'["main"].at \in {"box", "total"})
    BY <1>17, MainsPoll DEF Show, MayPoll
  <2>4. t = "sup" => poll'["main"] = poll["main"]
    BY <1>17, MainsPoll
  <2>5. QED
    BY <2>1, <2>2, <2>3, <2>4 DEF Threads
<1>18. ASSUME NEW t \in Threads, WriteBox(t) PROVE Metered'
  <2>1. UNCHANGED <<pc, goal, seen, end, from, now, info, due, booked>> /\ status'.cost = status.cost
    BY <1>18 DEF WriteBox
  <2>2. t = "main" => poll["main"].at = "box" /\ poll'["main"].at = "total" /\ poll'["sup"] = poll["sup"]
    BY <1>18, MainsPoll DEF WriteBox, Threads
  <2>3. t = "sup" => poll'["main"] = poll["main"] /\ poll["sup"].at # "idle"
    BY <1>18, MainsPoll DEF WriteBox
  <2>4. QED
    BY <2>1, <2>2, <2>3 DEF Threads
<1>19. ASSUME NEW t \in Threads, Total(t) PROVE Metered'
  <2>1. /\ UNCHANGED <<goal, seen, end, from, now, info, booked>> /\ status'.cost = booked
        /\ Alive /\ poll[t].at = "total" /\ (pc' = pc \/ (pc = "produce" /\ pc' = "exit"))
    BY <1>19 DEF Total
  <2>2. t = "main" => /\ poll["main"].at = "total" /\ poll'["main"].at = "done"
                      /\ poll'["sup"] = poll["sup"] /\ due' = due
    BY <1>19, MainsPoll DEF Total, Threads
  <2>3. t = "sup" => poll'["main"] = poll["main"] /\ poll'["sup"].at = "idle" /\ due' = now + Interval
    BY <1>19, MainsPoll DEF Total, Threads, Idle
  <2>4. seen => booked = Measured \/ (t = "sup" /\ Unpolled)
    BY <2>1, <2>2 DEF Polled, Threads
  <2>5. CASE ~seen
    BY <2>1, <2>5
  <2>6. CASE seen /\ booked = Measured
    BY <2>1, <2>2, <2>3, <2>6 DEF Threads
  <2>7. CASE seen /\ t = "sup" /\ Unpolled
    BY <2>1, <2>3, <2>7
  <2>8. QED
    BY <2>4, <2>5, <2>6, <2>7
<1>20. CASE BoxExits
  BY <1>20 DEF BoxExits
<1>21. CASE Tick
  BY <1>21 DEF Tick, MayPass, Stopping
<1>22. CASE Midnight
  BY <1>22 DEF Midnight
<1>23. CASE UNCHANGED vars
  BY <1>23 DEF vars
<1>24. QED
  BY <1>1, <1>2, <1>3, <1>4, <1>5, <1>6, <1>7, <1>8, <1>9, <1>10, <1>11, <1>12, <1>13, <1>14,
     <1>15, <1>16, <1>17, <1>18, <1>19, <1>20, <1>21, <1>22, <1>23
  DEF Next, Worker, Main, Poll

LEMMA StepInv == ASSUME NoShowFails, CostInv, [Next]_vars PROVE CostInv'
  BY StepTypeOK, StepInTime, StepSession, StepPolled, StepSpent, StepBooked, StepBudgeted,
     StepTicking, StepMetered
  DEF CostInv

LEMMA Invariant == ASSUME NoShowFails PROVE Spec => []CostInv
  BY InitInv, StepInv, PTL DEF Spec

-----------------------------------------------------------------------------
(* Every value stays in its set. *)
THEOREM TypeCorrect == ASSUME NoShowFails PROVE Spec => []TypeOK
<1>1. CostInv => TypeOK
  BY DEF CostInv
<1>2. QED
  BY Invariant, <1>1, PTL

(* However long steps, ticks and the wait for an exit may be, over any number of runs, across
   midnight, with drivers killed, refused or failed and stops refused or unconfirmed: what a
   day's runs booked passes the cap by no more than one run's overshoot. *)
THEOREM DayWithinCap == ASSUME NoShowFails PROVE Spec => []LedgerWithinCap
<1>1. CostInv => LedgerWithinCap
  <2> SUFFICES ASSUME CostInv, NEW d \in Days PROVE ledger[d] <= Cap + Overshoot + stale[d]
    BY DEF LedgerWithinCap
  <2>1. ledger[d] <= Cap + Slack + stale[d] /\ ledger[d] \in Nat /\ stale[d] \in Nat
    BY DEF CostInv, Budgeted, TypeOK
  <2>2. QED
    BY <2>1, OvershootCovers, Bounds DEF Slack
<1>2. QED
  BY Invariant, <1>1, PTL

(* Nor has a registered box of a driver that runs cost more than its budget and that. *)
THEOREM OverrunBounded == ASSUME NoShowFails PROVE Spec => []OverrunIsBounded
<1>1. CostInv => OverrunIsBounded
  <2> SUFFICES ASSUME CostInv, seen, up, Alive PROVE now - from <= maxUsd + Overshoot
    BY DEF OverrunIsBounded
  <2>1. now \in Nat /\ from \in Nat /\ maxUsd \in Nat
    BY Bounds DEF CostInv, TypeOK
  <2>2. now <= from + (maxUsd + Slack)
    BY DEF CostInv, Session, Spent, RanAtMost
  <2>3. QED
    BY <2>1, <2>2, OvershootCovers, Bounds DEF Slack
<1>2. QED
  BY Invariant, <1>1, PTL

(* What a run whose stop was confirmed has booked is the time its box was up, short of at most
   the last tick: no step, boundary, failed bring-up or late exit loses more. *)
THEOREM CostMeasured == ASSUME NoShowFails PROVE Spec => []CostIsMeasured
<1>1. CostInv => CostIsMeasured
  <2> SUFFICES ASSUME CostInv, pc = "exit", seen, info = "exited"
               PROVE  status.cost <= end - from /\ end - from <= status.cost + Interval
    BY DEF CostIsMeasured
  <2>1. end \in Nat /\ from \in Nat /\ status.cost \in Nat
    BY DEF CostInv, TypeOK
  <2>2. status.cost <= end - from /\ end <= from + status.cost + Interval
    BY DEF CostInv, Metered
  <2>3. QED
    BY <2>1, <2>2, Bounds
<1>2. QED
  BY Invariant, <1>1, PTL
=============================================================================
