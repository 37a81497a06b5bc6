-------------------------- MODULE AutopilotProofs --------------------------
(***************************************************************************)
(* Theorems about JobScheduler, for any number of servers and plans and    *)
(* any durations its assumption allows, their transfer to                  *)
(* AutopilotDispatch, which implements it, and theorems about the runs and *)
(* issues its handlers make of an occurrence.                              *)
(***************************************************************************)
EXTENDS AutopilotDispatch, FiniteSetTheorems, TLAPS

\* A plan never claimed has no attempt, and a time to retry at only follows a failure.
RowInv ==
    \A p \in Plans :
        /\ row[p].status = "NONE" => row[p].attempt = 0
        /\ row[p].status \in {"NONE", "RUNNING"} => row[p].next_retry_at = 0

\* An execution holds a token its row has issued.
ExecInv ==
    \A r \in Runners : exec[r].phase # "idle" =>
        /\ exec[r].plan \in Plans
        /\ exec[r].attempt >= 1
        /\ exec[r].attempt <= row[exec[r].plan].attempt

\* No token is held twice.
Distinct ==
    \A r, s \in Runners :
        r # s /\ exec[r].phase # "idle" /\ exec[s].phase # "idle" /\ exec[r].plan = exec[s].plan
            => exec[r].attempt # exec[s].attempt

\* Ticks and handlers began in the past, and no handler is older than RunTimeout.
ClockInv ==
    \A r \in Runners :
        /\ tick[r].at <= now
        /\ exec[r].phase = "running" =>
              exec[r].since <= now /\ now <= exec[r].since + RunTimeout

\* A handler that was claimed in time holds the present lease, which outlives it.
LeaseInv ==
    \A r \in Runners : exec[r].phase = "running" /\ ~exec[r].late =>
        /\ row[exec[r].plan].status = "RUNNING"
        /\ row[exec[r].plan].attempt = exec[r].attempt
        /\ row[exec[r].plan].stale_after >= exec[r].since + RunTimeout

\* A success is recorded, or about to be, only for a handler that has succeeded.
VerdictInv ==
    /\ \A p \in Plans : row[p].status = "SUCCESS" => <<p, row[p].attempt>> \in succeeded
    /\ \A r \in Runners : exec[r].phase = "ok" => <<exec[r].plan, exec[r].attempt>> \in succeeded

IInv == JobTypeOK /\ RowInv /\ ExecInv /\ Distinct /\ ClockInv /\ LeaseInv /\ VerdictInv

-----------------------------------------------------------------------------
(* The scheduler                                                            *)

\* The constants, as the provers need them.
LEMMA Constants ==
    /\ MaxAttempts \in Nat /\ MaxAttempts >= 1
    /\ RunTimeout \in Nat /\ StaleTimeout \in Nat /\ RunTimeout < StaleTimeout
    /\ RetryDelay \in Nat /\ Start \in Nat /\ Plans \subseteq Nat
  BY SpecAssumption

\* The initial state satisfies the inductive invariant.
LEMMA InitIInv == JobInit => IInv
<1>. SUFFICES ASSUME JobInit PROVE IInv
  OBVIOUS
<1>. USE Constants DEF JobInit, NoRow, IdleTick, IdleExec
<1>1. row \in [Plans -> Row]
  BY DEF Row, Statuses
<1>2. tick \in [Runners -> Tick]
  BY DEF Tick
<1>3. exec \in [Runners -> Exec]
  <2>1. IdleExec \in Exec
    BY DEF Exec
  <2>. QED
    BY <2>1
<1>4. JobTypeOK
  BY <1>1, <1>2, <1>3 DEF JobTypeOK
<1>5. RowInv /\ ExecInv /\ Distinct /\ ClockInv /\ LeaseInv /\ VerdictInv
  BY DEF RowInv, ExecInv, Distinct, ClockInv, LeaseInv, VerdictInv
<1>. QED
  BY <1>4, <1>5 DEF IInv

\* What a tick plans are plans.
LEMMA PlansArePlans ==
    ASSUME job \in [planner: Planners, reentry: Reentry], NEW at
    PROVE  PlansForTick(at) \subseteq Plans
<1>1. job.planner \in {"latest_only", "every_plan", "autopilot"}
  BY SpecAssumption
<1>2. Newest(Due(at, ScheduleDelay)) \subseteq Plans
  BY DEF Newest, Due
<1>3. Retries(at) \subseteq Plans
  BY DEF Retries, Newest, Claimed
<1>4. EveryPlan(at) \subseteq Plans
  BY <1>3 DEF EveryPlan, Due
<1>5. AutopilotPlans(at) \subseteq Plans
  BY <1>3 DEF AutopilotPlans, Newest, Due
<1>. QED
  BY <1>1, <1>2, <1>4, <1>5 DEF PlansForTick

\* A tick that is done with a plan keeps its time.
LEMMA PlanDoneTick ==
    ASSUME tick \in [Runners -> Tick], NEW r \in Runners, NEW p, PlanDone(r, p)
    PROVE  tick' \in [Runners -> Tick] /\ \A s \in Runners : tick'[s].at = tick[s].at
<1>. DEFINE t == [tick[r] EXCEPT !.plans = @ \ {p}]
<1>1. t \in Tick /\ t.at = tick[r].at
  BY DEF Tick
<1>2. tick' = [tick EXCEPT ![r] = t]
  BY DEF PlanDone
<1>. HIDE DEF t
<1>. QED
  BY <1>1, <1>2

\* A step that leaves rows, executions and the clock alone preserves the invariant.
LEMMA TickStep ==
    ASSUME IInv, UNCHANGED <<now, job, row, exec, succeeded>>,
           tick' \in [Runners -> Tick], unclaimed' \subseteq Plans, bootstrap' \subseteq Plans,
           \A r \in Runners : tick'[r].at <= now
    PROVE  IInv'
<1>. USE DEF IInv
<1>1. JobTypeOK'
  BY DEF JobTypeOK
<1>2. ClockInv'
  BY DEF ClockInv
<1>3. (RowInv /\ ExecInv /\ Distinct /\ LeaseInv /\ VerdictInv)'
  BY DEF RowInv, ExecInv, Distinct, LeaseInv, VerdictInv
<1>. QED
  BY <1>1, <1>2, <1>3

\* A handler that was claimed in time protects its row from sweeps and claims.
LEMMA Protected ==
    ASSUME IInv, NEW r \in Runners, exec[r].phase = "running", ~exec[r].late,
           NEW s \in Runners
    PROVE  /\ ~Stale(exec[r].plan, tick[s].at)
           /\ ~Claimable(exec[r].plan, tick[s].at)
<1>. DEFINE p == exec[r].plan
<1>1. p \in Plans /\ row[p] \in Row /\ exec[r] \in Exec /\ tick[s] \in Tick /\ now \in Nat
  BY DEF IInv, JobTypeOK, ExecInv
<1>2. /\ row[p].stale_after \in Nat /\ exec[r].since \in Nat /\ tick[s].at \in Nat
  BY <1>1 DEF Row, Exec, Tick
<1>3. /\ row[p].status = "RUNNING" /\ row[p].stale_after >= exec[r].since + RunTimeout
      /\ now <= exec[r].since + RunTimeout /\ tick[s].at <= now
  BY DEF IInv, LeaseInv, ClockInv
<1>4. tick[s].at <= row[p].stale_after
  BY <1>1, <1>2, <1>3, Constants
<1>5. ~Stale(p, tick[s].at)
  BY <1>2, <1>4 DEF Stale
<1>. QED
  BY <1>3, <1>5 DEF Claimable, RetryEligible

\* MarkStaleAsFailed preserves the invariant.
LEMMA SweepStep ==
    ASSUME IInv, NEW r \in Runners, MarkStaleAsFailed(r)
    PROVE  IInv'
<1>. USE DEF IInv
<1>1. tick' \in [Runners -> Tick] /\ \A s \in Runners : tick'[s].at = tick[s].at
  BY DEF MarkStaleAsFailed, JobTypeOK, Tick
<1>2. CASE UNCHANGED row
  <2>1. \A s \in Runners : tick'[s].at <= now
    BY <1>1 DEF ClockInv
  <2>. QED
    BY <1>1, <1>2, <2>1, TickStep DEF MarkStaleAsFailed, JobTypeOK
<1>3. CASE row' = [p \in Plans |-> IF Stale(p, tick[r].at)
                                   THEN [row[p] EXCEPT !.status = "FAILED"] ELSE row[p]]
  <2>1. /\ row' \in [Plans -> Row]
        /\ \A p \in Plans : /\ row'[p].attempt = row[p].attempt
                            /\ row'[p].stale_after = row[p].stale_after
                            /\ row'[p].next_retry_at = row[p].next_retry_at
                            /\ row'[p].status = row[p].status \/ row'[p].status = "FAILED"
                            /\ ~Stale(p, tick[r].at) => row'[p] = row[p]
    BY <1>3 DEF JobTypeOK, Row, Statuses
  <2>2. UNCHANGED <<now, job, exec, succeeded, unclaimed, bootstrap>>
    BY DEF MarkStaleAsFailed
  <2>3. JobTypeOK'
    BY <1>1, <2>1, <2>2 DEF JobTypeOK
  <2>4. (RowInv /\ ExecInv /\ Distinct /\ VerdictInv)'
    BY <2>1, <2>2 DEF RowInv, ExecInv, Distinct, VerdictInv
  <2>5. ClockInv'
    BY <1>1, <2>2 DEF ClockInv
  <2>6. LeaseInv'
    <3>1. \A s \in Runners : exec[s].phase = "running" /\ ~exec[s].late
            => exec[s].plan \in Plans /\ row'[exec[s].plan] = row[exec[s].plan]
      BY <2>1, Protected DEF ExecInv
    <3>. QED
      BY <3>1, <2>2 DEF LeaseInv
  <2>. QED
    BY <2>3, <2>4, <2>5, <2>6
<1>. QED
  BY <1>2, <1>3 DEF MarkStaleAsFailed

\* TryClaim preserves the invariant.
LEMMA ClaimStep ==
    ASSUME IInv, NEW r \in Runners, NEW p \in Plans, TryClaim(r, p)
    PROVE  IInv'
<1>. USE DEF IInv
<1>. DEFINE at == tick[r].at
<1>1. /\ row[p] \in Row /\ tick[r] \in Tick /\ now \in Nat /\ at \in Nat /\ at <= now
      /\ row[p].attempt \in 0 .. MaxAttempts
  BY DEF JobTypeOK, ClockInv, Row, Tick
<1>2. row[p].attempt < MaxAttempts
  BY Constants DEF TryClaim, Claimable, RetryEligible, RowInv
<1>3. DEFINE newRow == [status |-> "RUNNING", attempt |-> row[p].attempt + 1,
                        stale_after |-> at + StaleTimeout, next_retry_at |-> 0]
             newExec == [phase |-> "running", plan |-> p, attempt |-> row[p].attempt + 1,
                         since |-> now, late |-> now + RunTimeout > at + StaleTimeout]
<1>4. /\ row' = [row EXCEPT ![p] = newRow] /\ exec' = [exec EXCEPT ![r] = newExec]
      /\ UNCHANGED <<now, job, succeeded, unclaimed, bootstrap>>
      /\ exec[r].phase = "idle"
  BY DEF TryClaim, Turn
<1>5. newRow \in Row
  BY <1>1, <1>2, Constants DEF Row, Statuses
<1>6. newExec \in Exec
  BY <1>1, <1>2, Constants DEF Exec
<1>. HIDE DEF newRow, newExec
<1>7. tick' \in [Runners -> Tick] /\ \A s \in Runners : tick'[s].at = tick[s].at
  BY PlanDoneTick DEF TryClaim, JobTypeOK
<1>8. JobTypeOK'
  BY <1>4, <1>5, <1>6, <1>7 DEF JobTypeOK
<1>9. /\ newRow.status = "RUNNING" /\ newRow.attempt = row[p].attempt + 1
      /\ newRow.stale_after = at + StaleTimeout /\ newRow.next_retry_at = 0
      /\ newExec.phase = "running" /\ newExec.plan = p
      /\ newExec.attempt = row[p].attempt + 1 /\ newExec.since = now
      /\ newExec.late = (now + RunTimeout > at + StaleTimeout)
  BY DEF newRow, newExec
<1>10. /\ row'[p] = newRow /\ \A q \in Plans : q # p => row'[q] = row[q]
       /\ exec'[r] = newExec /\ \A s \in Runners : s # r => exec'[s] = exec[s]
  BY <1>4 DEF JobTypeOK
<1>11. RowInv'
  BY <1>9, <1>10 DEF RowInv
<1>12. ExecInv'
  BY <1>1, <1>9, <1>10 DEF ExecInv, JobTypeOK, Exec
<1>13. Distinct'
  <2>1. \A s \in Runners : s # r /\ exec'[s].phase # "idle" /\ exec'[s].plan = p
            => exec'[s].attempt # exec'[r].attempt
    BY <1>1, <1>9, <1>10 DEF ExecInv, JobTypeOK, Exec
  <2>. QED
    BY <2>1, <1>9, <1>10 DEF Distinct
<1>14. ClockInv'
  BY <1>1, <1>4, <1>7, <1>9, <1>10, Constants DEF ClockInv
<1>15. LeaseInv'
  <2>1. \A s \in Runners : s # r /\ exec[s].phase = "running" /\ ~exec[s].late
            => exec[s].plan # p /\ exec[s].plan \in Plans
    BY Protected DEF TryClaim, ExecInv
  <2>2. ~exec'[r].late => row'[p].stale_after >= exec'[r].since + RunTimeout
    <3>1. ~newExec.late => ~(now + RunTimeout > at + StaleTimeout)
      BY <1>9
    <3>2. ~(now + RunTimeout > at + StaleTimeout) => at + StaleTimeout >= now + RunTimeout
      BY <1>1, Constants
    <3>. QED
      BY <3>1, <3>2, <1>9, <1>10
  <2>. QED
    BY <2>1, <2>2, <1>9, <1>10 DEF LeaseInv
<1>16. VerdictInv'
  BY <1>4, <1>9, <1>10 DEF VerdictInv
<1>. QED
  BY <1>8, <1>11, <1>12, <1>13, <1>14, <1>15, <1>16

\* Heartbeat preserves the invariant.
LEMMA HeartbeatStep ==
    ASSUME IInv, NEW r \in Runners, Heartbeat(r)
    PROVE  IInv'
<1>. USE DEF IInv
<1>. DEFINE p == exec[r].plan
<1>1. p \in Plans /\ now \in Nat /\ row[p] \in Row
  BY DEF ExecInv, Heartbeat, JobTypeOK
<1>2. /\ row' = [row EXCEPT ![p] = [@ EXCEPT !.stale_after = now + StaleTimeout]]
      /\ UNCHANGED <<now, job, tick, exec, succeeded, unclaimed, bootstrap>>
  BY DEF Heartbeat
<1>3. /\ row' \in [Plans -> Row]
      /\ row'[p].stale_after = now + StaleTimeout
      /\ \A q \in Plans : /\ row'[q].attempt = row[q].attempt /\ row'[q].status = row[q].status
                          /\ row'[q].next_retry_at = row[q].next_retry_at
                          /\ q # p => row'[q] = row[q]
  BY <1>1, <1>2, Constants DEF JobTypeOK, Row
<1>4. JobTypeOK'
  BY <1>2, <1>3 DEF JobTypeOK
<1>5. (RowInv /\ ExecInv /\ Distinct /\ ClockInv /\ VerdictInv)'
  BY <1>2, <1>3 DEF RowInv, ExecInv, Distinct, ClockInv, VerdictInv
<1>6. LeaseInv'
  <2>1. \A s \in Runners : exec[s].phase = "running"
            => exec[s].plan \in Plans /\ now + StaleTimeout >= exec[s].since + RunTimeout
    BY <1>1, Constants DEF ClockInv, ExecInv, JobTypeOK, Exec
  <2>. QED
    BY <2>1, <1>2, <1>3 DEF LeaseInv
<1>. QED
  BY <1>4, <1>5, <1>6

\* HandlerReturns preserves the invariant.
LEMMA ReturnStep ==
    ASSUME IInv, NEW r \in Runners, NEW outcome \in {"ok", "error"}, HandlerReturns(r, outcome)
    PROVE  IInv'
<1>. USE DEF IInv
<1>1. /\ exec[r].plan \in Plans /\ exec[r].attempt \in 1 .. MaxAttempts
      /\ exec[r] \in Exec
  BY Constants DEF ExecInv, HandlerReturns, JobTypeOK, Exec
<1>2. /\ exec' \in [Runners -> Exec]
      /\ \A s \in Runners : s # r => exec'[s] = exec[s]
      /\ exec'[r].phase = outcome
      /\ exec'[r].plan = exec[r].plan /\ exec'[r].attempt = exec[r].attempt
  <2>1. FALSE \in BOOLEAN
    OBVIOUS
  <2>. QED
    BY <1>1, <2>1 DEF HandlerReturns, JobTypeOK, Exec
<1>3. /\ UNCHANGED <<now, job, row, tick, unclaimed, bootstrap>>
      /\ succeeded' \subseteq Plans \X (1 .. MaxAttempts) /\ succeeded \subseteq succeeded'
      /\ outcome = "ok" => <<exec[r].plan, exec[r].attempt>> \in succeeded'
  BY <1>1 DEF HandlerReturns, JobTypeOK
<1>4. JobTypeOK'
  BY <1>2, <1>3 DEF JobTypeOK
<1>5. (RowInv /\ ExecInv /\ Distinct /\ ClockInv /\ LeaseInv)'
  BY <1>2, <1>3 DEF RowInv, ExecInv, Distinct, ClockInv, LeaseInv, HandlerReturns
<1>6. VerdictInv'
  BY <1>2, <1>3 DEF VerdictInv
<1>. QED
  BY <1>4, <1>5, <1>6

\* An execution that is over leaves without a trace in the rows.
LEMMA IdleStep ==
    ASSUME IInv, NEW r \in Runners, exec' = [exec EXCEPT ![r] = IdleExec],
           UNCHANGED <<now, job, succeeded, unclaimed, bootstrap>>,
           row' \in [Plans -> Row], tick' \in [Runners -> Tick],
           \A s \in Runners : tick'[s].at <= now,
           \A p \in Plans :
              /\ row'[p].attempt = row[p].attempt
              /\ row'[p].status = "NONE" => row[p].status = "NONE"
              /\ row'[p].status \in {"NONE", "RUNNING"} => row'[p] = row[p]
              /\ row'[p].status = "SUCCESS" => <<p, row[p].attempt>> \in succeeded,
           \A s \in Runners \ {r} : exec[s].phase = "running" /\ ~exec[s].late
              => row'[exec[s].plan] = row[exec[s].plan]
    PROVE  IInv'
<1>. USE DEF IInv
<1>1. IdleExec \in Exec /\ IdleExec.phase = "idle"
  BY Constants DEF IdleExec, Exec
<1>2. /\ exec' \in [Runners -> Exec] /\ exec'[r].phase = "idle"
      /\ \A s \in Runners : s # r => exec'[s] = exec[s]
  BY <1>1 DEF JobTypeOK
<1>3. JobTypeOK'
  BY <1>2 DEF JobTypeOK
<1>4. RowInv'
  BY DEF RowInv
<1>5. (ExecInv /\ Distinct /\ ClockInv)'
  BY <1>2 DEF ExecInv, Distinct, ClockInv
<1>6. LeaseInv'
  BY <1>2 DEF LeaseInv
<1>7. VerdictInv'
  BY <1>2 DEF VerdictInv
<1>. QED
  BY <1>3, <1>4, <1>5, <1>6, <1>7

\* Finish preserves the invariant.
LEMMA FinishStep ==
    ASSUME IInv, NEW r \in Runners, Finish(r)
    PROVE  IInv'
<1>. USE DEF IInv
<1>. DEFINE p == exec[r].plan
<1>1. /\ p \in Plans /\ now \in Nat /\ row \in [Plans -> Row] /\ exec[r].phase # "idle"
      /\ exec[r] \in Exec
  BY DEF ExecInv, Finish, JobTypeOK
<1>2. /\ exec' = [exec EXCEPT ![r] = IdleExec]
      /\ UNCHANGED <<now, job, tick, succeeded, unclaimed, bootstrap>>
  BY DEF Finish
<1>3. /\ tick' \in [Runners -> Tick] /\ \A s \in Runners : tick'[s].at <= now
  BY <1>2 DEF JobTypeOK, ClockInv
<1>4. CASE UNCHANGED row
  <2>1. \A q \in Plans : row'[q].status = "SUCCESS" => <<q, row[q].attempt>> \in succeeded
    BY <1>4 DEF VerdictInv
  <2>. QED
    BY <1>1, <1>2, <1>3, <1>4, <2>1, IdleStep
<1>5. CASE ~UNCHANGED row
  <2>. DEFINE retryAt == IF exec[r].phase = "error" /\ exec[r].attempt < MaxAttempts
                         THEN now + RetryDelay ELSE 0
              newRow == [row[p] EXCEPT !.status = IF exec[r].phase = "ok" THEN "SUCCESS" ELSE "FAILED",
                                       !.next_retry_at = retryAt]
  <2>1. OwnsLease(r) /\ row' = [row EXCEPT ![p] = newRow]
    BY <1>5 DEF Finish
  <2>2. retryAt \in Nat
    BY <1>1, Constants
  <2>. HIDE DEF retryAt
  <2>3. /\ newRow \in Row /\ newRow.attempt = row[p].attempt
        /\ newRow.status \in {"SUCCESS", "FAILED"}
        /\ newRow.status = "SUCCESS" => exec[r].phase = "ok"
    BY <1>1, <2>2 DEF Row, Statuses
  <2>. HIDE DEF newRow
  <2>4. row' \in [Plans -> Row]
    BY <1>1, <2>1, <2>3
  <2>5. row'[p] = newRow /\ \A q \in Plans : q # p => row'[q] = row[q]
    BY <1>1, <2>1
  <2>6. row[p].attempt = exec[r].attempt
    BY <2>1 DEF OwnsLease
  <2>7. \A q \in Plans :
              /\ row'[q].attempt = row[q].attempt
              /\ row'[q].status = "NONE" => row[q].status = "NONE"
              /\ row'[q].status \in {"NONE", "RUNNING"} => row'[q] = row[q]
              /\ row'[q].status = "SUCCESS" => <<q, row[q].attempt>> \in succeeded
    <3>1. row'[p].status = "SUCCESS" => <<p, row[p].attempt>> \in succeeded
      BY <2>3, <2>5, <2>6 DEF VerdictInv
    <3>. QED
      BY <3>1, <2>3, <2>5 DEF VerdictInv
  <2>8. \A s \in Runners \ {r} : exec[s].phase = "running" /\ ~exec[s].late
              => row'[exec[s].plan] = row[exec[s].plan]
    BY <1>1, <2>5, <2>6 DEF LeaseInv, Distinct, ExecInv
  <2>. QED
    BY <1>2, <1>3, <2>4, <2>7, <2>8, IdleStep
<1>. QED
  BY <1>4, <1>5

\* Every step preserves the inductive invariant.
LEMMA NextIInv == IInv /\ [JobNext]_jobVars => IInv'
<1>. SUFFICES ASSUME IInv, [JobNext]_jobVars PROVE IInv'
  OBVIOUS
<1>. USE DEF IInv
<1>1. ASSUME NEW r \in Runners, StartTick(r) PROVE IInv'
  <2>1. tick' \in [Runners -> Tick] /\ \A s \in Runners : tick'[s].at <= now
    BY <1>1 DEF StartTick, JobTypeOK, Tick, ClockInv
  <2>. QED
    BY <1>1, <2>1, TickStep DEF StartTick, JobTypeOK
<1>2. ASSUME NEW r \in Runners, Plan(r) PROVE IInv'
  <2>1. PlansForTick(tick[r].at) \subseteq Plans
    BY PlansArePlans DEF JobTypeOK
  <2>. HIDE DEF PlansForTick
  <2>2. /\ tick' \in [Runners -> Tick] /\ \A s \in Runners : tick'[s].at <= now
        /\ bootstrap' \subseteq Plans
    BY <1>2, <2>1 DEF Plan, JobTypeOK, Tick, ClockInv
  <2>. QED
    BY <1>2, <2>2, TickStep DEF Plan, JobTypeOK
<1>3. ASSUME NEW r \in Runners, EndTick(r) PROVE IInv'
  <2>1. tick' \in [Runners -> Tick] /\ \A s \in Runners : tick'[s].at <= now
    BY <1>3 DEF EndTick, JobTypeOK, Tick, ClockInv, IdleTick
  <2>. QED
    BY <1>3, <2>1, TickStep DEF EndTick, JobTypeOK
<1>4. ASSUME NEW r \in Runners, NEW p \in Plans, Conflicted(r, p) \/ ClaimFails(r, p)
      PROVE  IInv'
  <2>1. tick' \in [Runners -> Tick] /\ \A s \in Runners : tick'[s].at <= now
    BY <1>4, PlanDoneTick DEF Conflicted, ClaimFails, JobTypeOK, ClockInv
  <2>2. unclaimed' \subseteq Plans
    BY <1>4 DEF Conflicted, ClaimFails, JobTypeOK
  <2>. QED
    BY <1>4, <2>1, <2>2, TickStep DEF Conflicted, ClaimFails, JobTypeOK
<1>5. ASSUME NEW r \in Runners, Crash(r) PROVE IInv'
  <2>1. tick' \in [Runners -> Tick] /\ \A s \in Runners : tick'[s].at <= now
    BY <1>5 DEF Crash, JobTypeOK, Tick, ClockInv, IdleTick
  <2>2. \A p \in Plans : row[p].status = "SUCCESS" => <<p, row[p].attempt>> \in succeeded
    BY DEF VerdictInv
  <2>. QED
    BY <1>5, <2>1, <2>2, IdleStep DEF Crash, JobTypeOK
<1>6. ASSUME Advance PROVE IInv'
  <2>1. now' = now + 1 /\ now' \in Nat /\ UNCHANGED <<job, row, tick, exec, succeeded, unclaimed, bootstrap>>
    BY <1>6 DEF Advance, JobTypeOK
  <2>2. JobTypeOK'
    BY <2>1 DEF JobTypeOK
  <2>3. ClockInv'
    BY <1>6, <2>1, Constants DEF ClockInv, Advance, JobTypeOK, Exec, Tick
  <2>4. (RowInv /\ ExecInv /\ Distinct /\ LeaseInv /\ VerdictInv)'
    BY <2>1 DEF RowInv, ExecInv, Distinct, LeaseInv, VerdictInv
  <2>. QED
    BY <2>2, <2>3, <2>4
<1>7. CASE UNCHANGED jobVars
  <2>1. \A s \in Runners : tick[s].at <= now
    BY DEF ClockInv
  <2>. QED
    BY <1>7, <2>1, TickStep DEF jobVars, JobTypeOK
<1>. QED
  BY <1>1, <1>2, <1>3, <1>4, <1>5, <1>6, <1>7, SweepStep, ClaimStep, HeartbeatStep, ReturnStep,
     FinishStep DEF JobNext, JobStep

\* The inductive invariant holds in every state of the scheduler.
LEMMA Invariance == JobSpec => []IInv
  BY InitIInv, NextIInv, PTL DEF JobSpec

\* The scheduler's variables stay in their domains.
THEOREM JobTypeCorrectness == JobSpec => []JobTypeOK
  BY Invariance, PTL DEF IInv

\* A handler whose lease was claimed in time is alone on its plan, for any timeouts
\* with RunTimeout < StaleTimeout: no sweep, steal or retry begins beside it.
THEOREM Alone == JobSpec => []PromptHandlerIsAlone
<1>1. IInv => PromptHandlerIsAlone
  BY DEF IInv, LeaseInv, PromptHandlerIsAlone
<1>. QED
  BY <1>1, Invariance, PTL

\* A plan is a success only by the handler of its newest attempt.
THEOREM Verdict == JobSpec => []VerdictIsNewestAttempts
<1>1. IInv => VerdictIsNewestAttempts
  BY DEF IInv, VerdictInv, VerdictIsNewestAttempts
<1>. QED
  BY <1>1, Invariance, PTL

\* A success is final, attempts are counted one by one, and none begins before its
\* backoff has passed.
THEOREM MoveOn == JobSpec => AttemptsMoveOn
<1>. DEFINE Moves == \A p \in Plans :
        /\ row[p].status = "SUCCESS" => row'[p] = row[p]
        /\ row'[p].attempt # row[p].attempt =>
              /\ row'[p].attempt = row[p].attempt + 1
              /\ row[p].next_retry_at <= now
<1>1. ASSUME IInv, [JobNext]_jobVars PROVE Moves
  <2>. SUFFICES ASSUME NEW p \in Plans
                PROVE  /\ row[p].status = "SUCCESS" => row'[p] = row[p]
                       /\ row'[p].attempt # row[p].attempt =>
                             /\ row'[p].attempt = row[p].attempt + 1
                             /\ row[p].next_retry_at <= now
    OBVIOUS
  <2>1. row \in [Plans -> Row]
    BY <1>1 DEF IInv, JobTypeOK
  <2>2. ASSUME NEW r \in Runners, MarkStaleAsFailed(r)
        PROVE  row'[p].attempt = row[p].attempt /\ (row[p].status = "SUCCESS" => row'[p] = row[p])
    BY <2>1, <2>2 DEF MarkStaleAsFailed, Stale, Row
  <2>3. ASSUME NEW r \in Runners, NEW q \in Plans, TryClaim(r, q)
        PROVE  /\ row[p].status = "SUCCESS" => row'[p] = row[p]
               /\ row'[p].attempt # row[p].attempt =>
                     row'[p].attempt = row[p].attempt + 1 /\ row[p].next_retry_at <= now
    <3>1. CASE p # q
      BY <2>1, <2>3, <3>1 DEF TryClaim
    <3>2. CASE p = q
      <4>1. /\ Claimable(p, tick[r].at) /\ row'[p].attempt = row[p].attempt + 1
            /\ row[p] \in Row /\ tick[r] \in Tick /\ now \in Nat /\ tick[r].at <= now
        BY <1>1, <2>1, <2>3, <3>2 DEF TryClaim, IInv, JobTypeOK, ClockInv
      <4>2. row[p].next_retry_at <= tick[r].at /\ row[p].status # "SUCCESS"
        BY <1>1, <4>1 DEF Claimable, RetryEligible, Stale, IInv, RowInv, Tick
      <4>. QED
        BY <4>1, <4>2 DEF Row, Tick
    <3>. QED
      BY <3>1, <3>2
  <2>4. ASSUME NEW r \in Runners, Heartbeat(r) \/ Finish(r)
        PROVE  row'[p].attempt = row[p].attempt /\ (row[p].status = "SUCCESS" => row'[p] = row[p])
    <3>1. CASE row' = row
      BY <3>1
    <3>2. CASE Heartbeat(r)
      BY <2>1, <3>2 DEF Heartbeat, OwnsLease, Row
    <3>3. CASE Finish(r) /\ row' # row
      <4>. DEFINE status == IF exec[r].phase = "ok" THEN "SUCCESS" ELSE "FAILED"
                  retryAt == IF exec[r].phase = "error" /\ exec[r].attempt < MaxAttempts
                             THEN now + RetryDelay ELSE 0
      <4>1. /\ row' = [row EXCEPT ![exec[r].plan] =
                          [@ EXCEPT !.status = status, !.next_retry_at = retryAt]]
            /\ row[exec[r].plan].status = "RUNNING"
        BY <3>3 DEF Finish, OwnsLease
      <4>. HIDE DEF status, retryAt
      <4>. QED
        BY <2>1, <4>1 DEF Row
    <3>. QED
      BY <2>4, <3>1, <3>2, <3>3
  <2>5. ASSUME \/ UNCHANGED row
               \/ Advance
               \/ \E r \in Runners : \/ StartTick(r) \/ Plan(r) \/ EndTick(r) \/ Crash(r)
                                    \/ \E q \in Plans : Conflicted(r, q) \/ ClaimFails(r, q)
                                    \/ \E o \in {"ok", "error"} : HandlerReturns(r, o)
        PROVE  row' = row
    BY <2>5 DEF Advance, StartTick, Plan, EndTick, Crash, Conflicted, ClaimFails, HandlerReturns
  <2>. QED
    BY <1>1, <2>2, <2>3, <2>4, <2>5 DEF JobNext, JobStep, jobVars
<1>2. JobSpec => [][Moves]_jobVars
  BY <1>1, Invariance, PTL DEF JobSpec
<1>. QED
  BY <1>2 DEF AttemptsMoveOn

-----------------------------------------------------------------------------
(* Catching up                                                              *)

\* A plan in a tick of a job that catches up has no gap before it: every older plan is in
\* the same tick, was given up, is older than the window, or is not newer than the newest
\* plan on record.
PlannedInv == job.planner = "every_plan" => \A r \in Runners : tick[r].phase = "claim" =>
    \A q \in tick[r].plans \ bootstrap, p \in Plans : p < q =>
        \/ p \in tick[r].plans \cup unclaimed
        \/ p * Cadence + CatchUpWindow < now
        \/ \E c \in Claimed : p <= c

\* What JobStep does to rows and executions.
LEMMA JobStepFacts ==
    ASSUME IInv, NEW r \in Runners, JobStep(r)
    PROVE  /\ job' = job
           /\ \A p \in Plans : /\ row'[p].attempt >= row[p].attempt
                               /\ row'[p].status = "SUCCESS" /\ row[p].status # "SUCCESS"
                                     => exec[r].phase = "ok" /\ exec[r].plan = p
           /\ \A s \in Runners : s # r => exec'[s] = exec[s]
           /\ \/ exec'[r] = exec[r]
              \/ exec'[r] = IdleExec
              \/ /\ exec[r].phase = "idle" /\ exec'[r].phase = "running"
                 /\ exec'[r].plan \in Plans
                 /\ exec'[r].attempt > row[exec'[r].plan].attempt
<1>. USE DEF IInv, JobTypeOK
<1>0. /\ \A p \in Plans : row[p].attempt \in Nat /\ row[p] \in Row
  BY DEF Row
<1>1. CASE \/ StartTick(r) \/ Plan(r) \/ EndTick(r) \/ Crash(r)
           \/ \E p \in Plans : Conflicted(r, p) \/ ClaimFails(r, p)
  BY <1>0, <1>1 DEF StartTick, Plan, EndTick, Crash, Conflicted, ClaimFails
<1>2. CASE MarkStaleAsFailed(r)
  BY <1>0, <1>2 DEF MarkStaleAsFailed, Row
<1>3. ASSUME NEW p \in Plans, TryClaim(r, p)
      PROVE  /\ job' = job
             /\ \A q \in Plans : row'[q].attempt >= row[q].attempt
                                 /\ (row'[q].status = "SUCCESS" => row[q].status = "SUCCESS")
             /\ \A s \in Runners : s # r => exec'[s] = exec[s]
             /\ exec[r].phase = "idle" /\ exec'[r].phase = "running" /\ exec'[r].plan \in Plans
             /\ exec'[r].attempt > row[exec'[r].plan].attempt
  BY <1>0, <1>3 DEF TryClaim, Turn
<1>4. CASE Heartbeat(r)
  BY <1>0, <1>4 DEF Heartbeat, Row
<1>5. CASE Finish(r)
  <2>. DEFINE status == IF exec[r].phase = "ok" THEN "SUCCESS" ELSE "FAILED"
              retryAt == IF exec[r].phase = "error" /\ exec[r].attempt < MaxAttempts
                         THEN now + RetryDelay ELSE 0
  <2>1. \/ row' = row
        \/ row' = [row EXCEPT ![exec[r].plan] =
                      [@ EXCEPT !.status = status, !.next_retry_at = retryAt]]
    BY <1>5 DEF Finish
  <2>2. job' = job /\ exec' = [exec EXCEPT ![r] = IdleExec]
    BY <1>5 DEF Finish
  <2>3. status = "SUCCESS" => exec[r].phase = "ok"
    OBVIOUS
  <2>. HIDE DEF status, retryAt
  <2>4. ASSUME NEW p \in Plans
        PROVE  /\ row'[p].attempt = row[p].attempt
               /\ row'[p].status = row[p].status \/ (row'[p].status = status /\ exec[r].plan = p)
    <3>. DEFINE new == [row[exec[r].plan] EXCEPT !.status = status, !.next_retry_at = retryAt]
    <3>1. row \in [Plans -> Row] /\ row[p] \in Row
      OBVIOUS
    <3>2. CASE row' = row
      BY <3>2
    <3>3. CASE row' = [row EXCEPT ![exec[r].plan] = new]
      <4>1. CASE p = exec[r].plan
        <5>1. row'[p] = new
          BY <3>1, <3>3, <4>1
        <5>2. new.attempt = row[p].attempt /\ new.status = status
          BY <3>1, <4>1 DEF Row
        <5>. QED
          BY <4>1, <5>1, <5>2
      <4>2. CASE p # exec[r].plan
        BY <3>1, <3>3, <4>2
      <4>. QED
        BY <4>1, <4>2
    <3>. QED
      BY <2>1, <3>2, <3>3
  <2>5. \A p \in Plans : row'[p].attempt >= row[p].attempt
    BY <1>0, <2>4
  <2>. QED
    BY <2>2, <2>3, <2>4, <2>5
<1>. QED
  BY <1>1, <1>2, <1>3, <1>4, <1>5 DEF JobStep

\* Of two plans the older one is due first.
LEMMA OlderIsDueFirst ==
    ASSUME NEW p \in Nat, NEW q \in Nat, p < q
    PROVE  p * Cadence <= q * Cadence
<1>1. Cadence \in Nat
  BY SpecAssumption
<1>2. PICK d \in Nat : q = p + d
  <2>1. q - p \in Nat /\ q = p + (q - p)
    OBVIOUS
  <2>. QED
    BY <2>1
<1>3. (p + d) * Cadence = p * Cadence + d * Cadence
  BY <1>1
<1>4. p * Cadence \in Nat /\ d * Cadence \in Nat
  BY <1>1
<1>. QED
  BY <1>2, <1>3, <1>4

\* MaxPlansPerTick cuts the newest plans: what is older than a plan that stays, stays.
LEMMA OlderStays ==
    ASSUME NEW planned \in SUBSET Nat, NEW p \in planned, NEW q \in planned, p < q,
           Cardinality({x \in planned : x < q}) < MaxPlansPerTick
    PROVE  Cardinality({x \in planned : x < p}) < MaxPlansPerTick
<1>. DEFINE P == {x \in planned : x < p}
            Q == {x \in planned : x < q}
<1>1. P \subseteq Q /\ Q \subseteq 0 .. q
  <2>1. p \in Nat /\ q \in Nat /\ \A x \in planned : x \in Nat
    OBVIOUS
  <2>2. ASSUME NEW x \in planned, x < p PROVE x < q
    BY <2>1, <2>2
  <2>3. ASSUME NEW x \in planned, x < q PROVE x \in 0 .. q
    BY <2>1, <2>3
  <2>. QED
    BY <2>2, <2>3
<1>2. IsFiniteSet(Q)
  <2>1. q \in Int /\ 0 \in Int
    OBVIOUS
  <2>2. IsFiniteSet(0 .. q)
    BY <2>1, FS_Interval
  <2>. QED
    BY <1>1, <2>2, FS_Subset
<1>3. Cardinality(P) <= Cardinality(Q) /\ Cardinality(P) \in Nat /\ Cardinality(Q) \in Nat
  BY <1>1, <1>2, FS_Subset, FS_CardinalityType
<1>4. MaxPlansPerTick \in Nat
  BY SpecAssumption
<1>. QED
  BY <1>3, <1>4

\* What EveryPlan leaves out between the plans on record and one it takes is too old.
LEMMA NoneIsSkipped ==
    ASSUME JobTypeOK, NEW at \in Nat, Claimed # {}, NEW q \in EveryPlan(at),
           NEW p \in Plans, p < q
    PROVE  \/ p \in EveryPlan(at)
           \/ p * Cadence + CatchUpWindow < at
           \/ \E c \in Claimed : p <= c
<1>. DEFINE due == Due(at, ScheduleDelay)
            cursor == Retries(at) \cup
                      {x \in due : Beyond(x) /\ (Claimed = {} => x \in Newest(due))}
            window == {x \in due : x * Cadence + CatchUpWindow >= at
                                      \/ (CatchUpWindow = 0 /\ x \in Newest(due))}
            planned == cursor \cap window
<1>. SUFFICES ASSUME p \notin EveryPlan(at), \A c \in Claimed : ~(p <= c)
              PROVE  p * Cadence + CatchUpWindow < at
  OBVIOUS
<1>1. /\ q \in planned /\ Cardinality({x \in planned : x < q}) < MaxPlansPerTick
      /\ ~(p \in planned /\ Cardinality({x \in planned : x < p}) < MaxPlansPerTick)
  BY DEF EveryPlan
<1>2. /\ Plans \subseteq Nat /\ Claimed \subseteq Plans /\ due \subseteq Plans
      /\ Cadence \in Nat /\ ScheduleDelay \in Nat /\ CatchUpWindow \in Nat
  BY SpecAssumption DEF Claimed, Due
<1>3. p \in Nat /\ q \in Nat /\ p * Cadence \in Nat /\ q * Cadence \in Nat
  <2>1. q \in due
    BY <1>1
  <2>2. p \in Nat /\ q \in Nat
    BY <1>2, <2>1
  <2>. QED
    BY <1>2, <2>2
<1>4. p * Cadence <= q * Cadence
  BY <1>3, OlderIsDueFirst
<1>5. p \in due
  BY <1>1, <1>2, <1>3, <1>4 DEF Due
<1>6. Beyond(p)
  BY <1>2, <1>3 DEF Beyond
<1>7. p \in cursor
  BY <1>5, <1>6
<1>8. p \notin planned
  <2>1. planned \in SUBSET Nat
    BY <1>2
  <2>. HIDE DEF planned
  <2>. QED
    BY <1>1, <2>1, OlderStays
<1>9. p \notin window
  BY <1>7, <1>8
<1>. QED
  BY <1>2, <1>3, <1>5, <1>9

\* A plan on record stays on record.
LEMMA RecordsStay ==
    ASSUME IInv, [JobNext]_jobVars
    PROVE  Claimed \subseteq Claimed' /\ job' = job
<1>. USE DEF IInv, JobTypeOK
<1>1. ASSUME NEW r \in Runners, JobStep(r) PROVE Claimed \subseteq Claimed' /\ job' = job
  <2>1. job' = job
    BY <1>1, JobStepFacts
  <2>2. \A p \in Plans : row[p].status # "NONE" => row'[p].status # "NONE"
    <3>1. CASE \/ StartTick(r) \/ Plan(r) \/ EndTick(r) \/ Crash(r)
               \/ \E p \in Plans : Conflicted(r, p) \/ ClaimFails(r, p)
      BY <3>1 DEF StartTick, Plan, EndTick, Crash, Conflicted, ClaimFails
    <3>2. CASE MarkStaleAsFailed(r)
      BY <3>2 DEF MarkStaleAsFailed, Row
    <3>3. ASSUME NEW p \in Plans, TryClaim(r, p)
          PROVE  \A q \in Plans : row[q].status # "NONE" => row'[q].status # "NONE"
      BY <3>3 DEF TryClaim
    <3>4. CASE Heartbeat(r)
      BY <3>4 DEF Heartbeat, Row
    <3>5. CASE Finish(r)
      <4>. DEFINE retryAt == IF exec[r].phase = "error" /\ exec[r].attempt < MaxAttempts
                             THEN now + RetryDelay ELSE 0
                  status == IF exec[r].phase = "ok" THEN "SUCCESS" ELSE "FAILED"
      <4>1. status # "NONE"
        OBVIOUS
      <4>2. \/ row' = row
            \/ row' = [row EXCEPT ![exec[r].plan] =
                          [@ EXCEPT !.status = status, !.next_retry_at = retryAt]]
        BY <3>5 DEF Finish
      <4>. HIDE DEF status, retryAt
      <4>. QED
        BY <4>1, <4>2 DEF Row
    <3>. QED
      BY <1>1, <3>1, <3>2, <3>3, <3>4, <3>5 DEF JobStep
  <2>. QED
    BY <2>1, <2>2 DEF Claimed
<1>2. ASSUME NEW r \in Runners, NEW o \in {"ok", "error"}, HandlerReturns(r, o)
      PROVE  UNCHANGED <<row, job>>
  BY <1>2 DEF HandlerReturns
<1>3. Advance \/ UNCHANGED jobVars => UNCHANGED <<row, job>>
  BY DEF Advance, jobVars
<1>. QED
  BY <1>1, <1>2, <1>3 DEF JobNext, Claimed

\* A plan gets on record only by a claim.
LEMMA Claiming ==
    ASSUME IInv, [JobNext]_jobVars, NEW q \in Claimed' \ Claimed
    PROVE  \E r \in Runners : TryClaim(r, q)
<1>. USE DEF IInv, JobTypeOK
<1>1. q \in Plans /\ row[q].status = "NONE" /\ row'[q].status # "NONE"
  BY DEF Claimed
<1>2. ASSUME NEW r \in Runners, JobStep(r) PROVE TryClaim(r, q)
  <2>1. ~(\/ StartTick(r) \/ Plan(r) \/ EndTick(r) \/ Crash(r)
          \/ \E p \in Plans : Conflicted(r, p) \/ ClaimFails(r, p))
    BY <1>1 DEF StartTick, Plan, EndTick, Crash, Conflicted, ClaimFails
  <2>2. ~MarkStaleAsFailed(r)
    BY <1>1 DEF MarkStaleAsFailed, Stale
  <2>3. ~Heartbeat(r)
    BY <1>1 DEF Heartbeat, OwnsLease
  <2>4. ~Finish(r)
    BY <1>1 DEF Finish, OwnsLease
  <2>5. PICK p \in Plans : TryClaim(r, p)
    BY <1>2, <2>1, <2>2, <2>3, <2>4 DEF JobStep
  <2>6. p = q
    BY <1>1, <2>5 DEF TryClaim
  <2>. QED
    BY <2>5, <2>6
<1>3. ASSUME NEW r \in Runners, NEW o \in {"ok", "error"}, HandlerReturns(r, o)
      PROVE  row' = row
  BY <1>3 DEF HandlerReturns
<1>4. Advance \/ UNCHANGED jobVars => row' = row
  BY DEF Advance, jobVars
<1>. QED
  BY <1>1, <1>2, <1>3, <1>4 DEF JobNext

\* Every step preserves it.
LEMMA NextPlanned ==
    ASSUME IInv, IInv', PlannedInv, [JobNext]_jobVars
    PROVE  PlannedInv'
<1>. USE DEF IInv, JobTypeOK
<1>1. /\ Claimed \subseteq Claimed' /\ job' = job
  BY RecordsStay
<1>2. now \in Nat /\ now' \in Nat /\ now <= now' /\ unclaimed \subseteq unclaimed'
      /\ bootstrap \subseteq bootstrap'
  <2>1. now \in Nat /\ now' \in Nat
    OBVIOUS
  <2>2. ASSUME NEW s \in Runners, JobStep(s)
        PROVE  now' = now /\ unclaimed \subseteq unclaimed' /\ bootstrap \subseteq bootstrap'
    <3>1. CASE \E x \in Plans : TryClaim(s, x) \/ Conflicted(s, x) \/ ClaimFails(s, x)
      BY <3>1 DEF TryClaim, Conflicted, ClaimFails
    <3>2. CASE Plan(s)
      BY <3>2 DEF Plan
    <3>3. CASE StartTick(s) \/ MarkStaleAsFailed(s) \/ EndTick(s) \/ Crash(s)
      BY <3>3 DEF StartTick, MarkStaleAsFailed, EndTick, Crash
    <3>4. CASE Heartbeat(s) \/ Finish(s)
      BY <3>4 DEF Heartbeat, Finish
    <3>. QED
      BY <2>2, <3>1, <3>2, <3>3, <3>4 DEF JobStep
  <2>3. ASSUME NEW s \in Runners, NEW o \in {"ok", "error"}, HandlerReturns(s, o)
        PROVE  UNCHANGED <<now, unclaimed, bootstrap>>
    BY <2>3 DEF HandlerReturns
  <2>4. CASE Advance
    BY <2>1, <2>4 DEF Advance
  <2>5. CASE UNCHANGED jobVars
    BY <2>1, <2>5 DEF jobVars
  <2>. QED
    BY <2>1, <2>2, <2>3, <2>4, <2>5 DEF JobNext
<1>3. \A p \in Plans : p * Cadence + CatchUpWindow \in Nat
  BY SpecAssumption
<1>. SUFFICES ASSUME job.planner = "every_plan", NEW r \in Runners, tick'[r].phase = "claim",
                     NEW q \in tick'[r].plans \ bootstrap', NEW p \in Plans, p < q
              PROVE  \/ p \in tick'[r].plans \cup unclaimed'
                     \/ p * Cadence + CatchUpWindow < now'
                     \/ \E c \in Claimed' : p <= c
  BY <1>1 DEF PlannedInv
<1>4. CASE tick'[r].phase = tick[r].phase /\ tick'[r].plans = tick[r].plans
  <2>1. \/ p \in tick[r].plans \cup unclaimed
        \/ p * Cadence + CatchUpWindow < now
        \/ \E c \in Claimed : p <= c
    BY <1>2, <1>4 DEF PlannedInv
  <2>. QED
    BY <1>1, <1>2, <1>3, <1>4, <2>1
<1>5. ASSUME Plan(r) PROVE p \in tick'[r].plans \/ p * Cadence + CatchUpWindow < now'
                             \/ \E c \in Claimed' : p <= c
  <2>1. PICK at \in Nat : at = tick[r].at
    BY DEF Tick
  <2>2. at <= now
    BY <2>1 DEF ClockInv
  <2>3. PICK S : S = EveryPlan(at)
    OBVIOUS
  <2>4. S = PlansForTick(at)
    BY <2>3 DEF PlansForTick
  <2>5. tick'[r].plans = S
    BY <1>5, <2>1, <2>4 DEF Plan
  <2>6. bootstrap' = IF Claimed = {} THEN bootstrap \cup S ELSE bootstrap
    BY <1>5, <2>1, <2>4 DEF Plan
  <2>7. Claimed # {} /\ q \in S
    BY <2>5, <2>6
  <2>8. \/ p \in S \/ p * Cadence + CatchUpWindow < at \/ \E c \in Claimed : p <= c
    BY <2>3, <2>7, NoneIsSkipped
  <2>9. p * Cadence + CatchUpWindow < at => p * Cadence + CatchUpWindow < now'
    BY <1>2, <1>3, <2>2
  <2>. QED
    BY <1>1, <2>5, <2>8, <2>9
<1>6. ASSUME NEW x \in Plans, TryClaim(r, x) \/ Conflicted(r, x) \/ ClaimFails(r, x)
      PROVE  \/ p \in tick'[r].plans \cup unclaimed'
             \/ p * Cadence + CatchUpWindow < now'
             \/ \E c \in Claimed' : p <= c
  <2>1. tick[r].phase = "claim" /\ tick'[r].plans = tick[r].plans \ {x}
    <3>1. Turn(r, x) /\ PlanDone(r, x)
      BY <1>6 DEF TryClaim, Conflicted, ClaimFails
    <3>2. PICK t : t = [tick[r] EXCEPT !.plans = tick[r].plans \ {x}]
      OBVIOUS
    <3>3. tick' = [tick EXCEPT ![r] = t]
      BY <3>1, <3>2 DEF PlanDone
    <3>4. tick'[r] = t /\ tick[r] \in Tick
      BY <3>3
    <3>. QED
      BY <3>1, <3>2, <3>4 DEF Turn, Tick
  <2>2. \/ p \in tick[r].plans \cup unclaimed
        \/ p * Cadence + CatchUpWindow < now
        \/ \E c \in Claimed : p <= c
    BY <1>2, <2>1 DEF PlannedInv
  <2>3. CASE p = x
    <3>1. x \in Claimed' \/ x \in unclaimed'
      <4>1. CASE TryClaim(r, x)
        BY <4>1 DEF TryClaim, Claimed
      <4>2. CASE Conflicted(r, x)
        BY <4>2 DEF Conflicted, Claimable, Claimed
      <4>3. CASE ClaimFails(r, x)
        BY <4>3 DEF ClaimFails
      <4>. QED
        BY <1>6, <4>1, <4>2, <4>3
    <3>. QED
      BY <2>3, <3>1, SpecAssumption
  <2>4. CASE p # x
    BY <1>1, <1>2, <1>3, <2>1, <2>2, <2>4
  <2>. QED
    BY <2>3, <2>4
<1>7. CASE tick'[r] # tick[r]
  <2>1. ASSUME NEW s \in Runners, s # r, JobStep(s) PROVE tick'[r] = tick[r]
    BY <2>1 DEF JobStep, StartTick, MarkStaleAsFailed, Plan, EndTick, TryClaim, PlanDone,
       Conflicted, ClaimFails, Heartbeat, Finish, Crash
  <2>2. ASSUME NEW s \in Runners, NEW o \in {"ok", "error"}, HandlerReturns(s, o)
        PROVE  tick'[r] = tick[r]
    BY <2>2 DEF HandlerReturns
  <2>3. Advance \/ UNCHANGED jobVars => tick'[r] = tick[r]
    BY DEF Advance, jobVars
  <2>4. JobStep(r)
    BY <1>7, <2>1, <2>2, <2>3 DEF JobNext
  <2>5. ~(StartTick(r) \/ MarkStaleAsFailed(r) \/ EndTick(r) \/ Crash(r))
    BY DEF StartTick, MarkStaleAsFailed, EndTick, Crash, IdleTick, Tick
  <2>6. ~(Heartbeat(r) \/ Finish(r))
    BY <1>7 DEF Heartbeat, Finish
  <2>. QED
    BY <2>4, <2>5, <2>6, <1>5, <1>6 DEF JobStep
<1>. QED
  BY <1>4, <1>7

\* A job that catches up jumps over no plan, for any cadence, window, number of plans per
\* tick and number of servers: between the newest plan on record and one that is started,
\* each plan is older than the window, or a tick gave it up.
THEOREM LeftOut == JobSpec => NoPlanLeftOut
<1>. DEFINE Jump == job.planner = "every_plan" =>
        \A o \in Newest(Claimed), q \in Claimed' \ (Claimed \cup bootstrap), p \in Plans :
            o < p /\ p < q => p \in unclaimed \/ p * Cadence + CatchUpWindow < now
<1>1. JobInit => PlannedInv
  BY DEF JobInit, PlannedInv, IdleTick
<1>2. JobSpec => []PlannedInv
  BY <1>1, NextPlanned, Invariance, PTL DEF JobSpec
<1>3. ASSUME IInv, PlannedInv, [JobNext]_jobVars PROVE Jump
  <2>. SUFFICES ASSUME job.planner = "every_plan", NEW o \in Newest(Claimed),
                       NEW q \in Claimed' \ (Claimed \cup bootstrap), NEW p \in Plans,
                       o < p, p < q
                PROVE  p \in unclaimed \/ p * Cadence + CatchUpWindow < now
    OBVIOUS
  <2>1. PICK r \in Runners : TryClaim(r, q)
    BY <1>3, Claiming
  <2>2. /\ tick[r].phase = "claim" /\ q \in tick[r].plans
        /\ \A x \in tick[r].plans : q <= x
    BY <2>1 DEF TryClaim, Turn
  <2>3. \/ p \in tick[r].plans \cup unclaimed
        \/ p * Cadence + CatchUpWindow < now
        \/ \E c \in Claimed : p <= c
    BY <1>3, <2>2 DEF PlannedInv
  <2>4. p \notin tick[r].plans
    BY <2>2, SpecAssumption DEF Claimed
  <2>5. ~ \E c \in Claimed : p <= c
    BY SpecAssumption DEF Newest, Claimed
  <2>. QED
    BY <2>3, <2>4, <2>5
<1>4. JobSpec => [][Jump]_jobVars
  BY <1>2, <1>3, Invariance, PTL DEF JobSpec
<1>. QED
  BY <1>4 DEF NoPlanLeftOut

-----------------------------------------------------------------------------
(* The dispatch of autopilots                                               *)

\* Whatever its handlers do, the dispatch of autopilots is a run of the scheduler.
THEOREM Scheduled == Spec => JobSpec
<1>1. Init => JobInit
  BY DEF Init
<1>2. [Next]_vars => [JobNext]_jobVars
  <2>. SUFFICES ASSUME [Next]_vars PROVE [JobNext]_jobVars
    OBVIOUS
  <2>1. ASSUME NEW r \in Runners, Dispatch(r) PROVE UNCHANGED jobVars
    BY <2>1 DEF Dispatch, Lookup, RecoverPartialAutopilotRun, CreateAutopilotRun,
       DispatchCreateIssue, EnqueueTask, DispatchRunOnly, UpdateAutopilotRunRunning,
       handleDispatchSkip, failRun, At
  <2>2. ASSUME NEW r \in Runners, Return(r) PROVE JobNext
    <3>1. step[r] \in {"ok", "error"} /\ HandlerReturns(r, step[r])
      BY <2>2 DEF Return
    <3>. QED
      BY <3>1 DEF JobNext
  <2>3. ASSUME NEW r \in Runners, Schedule(r) \/ OtherHandler(r) PROVE JobNext
    BY <2>3 DEF Schedule, OtherHandler, JobNext
  <2>4. ASSUME NEW p \in Plans, NEW a \in Attempts, SyncRun(p, a) PROVE UNCHANGED jobVars
    BY <2>4 DEF SyncRun
  <2>5. ASSUME Advance PROVE JobNext
    BY <2>5 DEF JobNext
  <2>6. ASSUME UNCHANGED vars PROVE UNCHANGED jobVars
    BY <2>6 DEF vars
  <2>. QED
    BY <2>1, <2>2, <2>3, <2>4, <2>5, <2>6 DEF Next
<1>. QED
  BY <1>1, <1>2, PTL DEF Spec, JobSpec

\* So the handler of an occurrence that was claimed in time is alone, its verdict is its
\* newest attempt's, its attempts move on, and beside it no other job leaves out a plan.
THEOREM DispatchIsScheduled ==
    Spec => [](PromptHandlerIsAlone /\ VerdictIsNewestAttempts) /\ AttemptsMoveOn
            /\ NoPlanLeftOut
<1>1. Spec => []PromptHandlerIsAlone /\ []VerdictIsNewestAttempts /\ AttemptsMoveOn
              /\ NoPlanLeftOut
  BY Scheduled, Alone, Verdict, MoveOn, LeftOut
<1>. QED
  BY <1>1, PTL

-----------------------------------------------------------------------------
(* The runs of an occurrence                                                *)

RunAccounted(x) == x.status \in {"completed", "failed", "skipped"} \/ x.linked \/ x.task # "none"
Accounted(p) == p \in excused \/ \E a \in Attempts : RunAccounted(run[p][a])

Running(r) == job.planner = "autopilot" /\ exec[r].phase = "running"

DispatchTypes ==
    /\ mode \in {"create_issue", "run_only"}
    /\ run \in [Plans -> [Attempts -> Run]]
    /\ step \in [Runners -> Steps]
    /\ excused \subseteq Plans
    /\ late \subseteq Plans

\* A handler that has not created its run yet has none, and neither has an attempt to come.
Fresh ==
    /\ \A p \in Plans, a \in Attempts : a > row[p].attempt => run[p][a] = NoRun
    /\ \A r \in Runners :
          exec[r].phase = "running" /\ step[r] \in {"load", "recover", "create"} => MyRun(r) = NoRun

\* A handler starts at the beginning, and links a task it has created.
StepInv == \A r \in Runners :
    /\ ~Running(r) => step[r] = "load"
    /\ Running(r) /\ step[r] = "link" => MyRun(r).task # "none"

\* A handler that reports a success has accounted for its occurrence.
OkInv == job.planner = "autopilot" => \A r \in Runners :
    exec[r].phase = "ok" \/ (exec[r].phase = "running" /\ step[r] = "ok") => Accounted(exec[r].plan)

\* Only handlers are late, and then their occurrences are too.
LateInv == \A r \in Runners :
    exec[r].late => exec[r].phase = "running" /\ (job.planner = "autopilot" => exec[r].plan \in late)

RunInv == DispatchTypes /\ Fresh /\ StepInv /\ OkInv /\ LateInv /\ SuccessIsAccounted

\* A running handler has a plan and an attempt.
LEMMA Handler ==
    ASSUME IInv, NEW r \in Runners, exec[r].phase # "idle"
    PROVE  exec[r].plan \in Plans /\ exec[r].attempt \in Attempts
  BY Constants DEF IInv, ExecInv, JobTypeOK, Exec, Attempts

\* Schedule preserves the invariant on runs: it moves no run.
LEMMA ScheduleRuns ==
    ASSUME IInv, RunInv, NEW r \in Runners, Schedule(r)
    PROVE  RunInv'
<1>. USE DEF RunInv
<1>1. /\ JobStep(r) /\ UNCHANGED <<mode, run, excused>>
      /\ step' = IF exec'[r].phase = "running" THEN step ELSE [step EXCEPT ![r] = "load"]
      /\ late' = IF job.planner = "autopilot" /\ exec'[r].late
                 THEN late \cup {exec'[r].plan} ELSE late
  BY DEF Schedule
<1>2. IInv'
  BY <1>1, NextIInv DEF JobNext
<1>3. /\ job' = job
      /\ \A p \in Plans : /\ row'[p].attempt >= row[p].attempt
                          /\ row'[p].status = "SUCCESS" /\ row[p].status # "SUCCESS"
                                => exec[r].phase = "ok" /\ exec[r].plan = p
                          /\ row'[p].attempt \in Nat /\ row[p].attempt \in Nat
      /\ \A s \in Runners : s # r => exec'[s] = exec[s]
  BY <1>1, <1>2, JobStepFacts DEF IInv, JobTypeOK, Row
<1>4. \/ exec'[r] = exec[r]
      \/ exec'[r] = IdleExec
      \/ /\ exec[r].phase = "idle" /\ exec'[r].phase = "running" /\ exec'[r].plan \in Plans
         /\ exec'[r].attempt > row[exec'[r].plan].attempt
  BY <1>1, JobStepFacts
<1>5. \A s \in Runners : step'[s] = IF s = r /\ exec'[r].phase # "running" THEN "load" ELSE step[s]
  BY <1>1 DEF DispatchTypes
<1>6. IdleExec.phase = "idle" /\ ~IdleExec.late
  BY DEF IdleExec
<1>7. exec'[r].late => exec'[r].phase = "running" /\ exec'[r].plan \in Plans
  BY <1>4, <1>6, Handler DEF LateInv
<1>8. DispatchTypes'
  BY <1>1, <1>7 DEF DispatchTypes, Steps
<1>9. LateInv'
  BY <1>1, <1>3, <1>7 DEF LateInv
<1>10. Fresh'
  <2>1. \A p \in Plans, a \in Attempts : a > row'[p].attempt => run'[p][a] = NoRun
    BY <1>1, <1>3 DEF Fresh, Attempts
  <2>2. ASSUME NEW q \in Runners, exec'[q].phase = "running",
               step'[q] \in {"load", "recover", "create"}
        PROVE  run'[exec'[q].plan][exec'[q].attempt] = NoRun
    <3>1. CASE exec'[q] = exec[q]
      <4>1. step'[q] = step[q]
        BY <1>5, <2>2
      <4>. QED
        BY <1>1, <2>2, <3>1, <4>1 DEF Fresh, MyRun
    <3>2. CASE exec'[q] # exec[q]
      <4>1. q = r /\ exec'[r].plan \in Plans /\ exec'[r].attempt > row[exec'[r].plan].attempt
        BY <1>3, <1>4, <1>6, <2>2, <3>2
      <4>2. exec'[r].attempt \in Attempts
        BY <1>2, <2>2, <4>1, Constants DEF IInv, ExecInv, JobTypeOK, Exec, Attempts
      <4>. QED
        BY <1>1, <4>1, <4>2 DEF Fresh
    <3>. QED
      BY <3>1, <3>2
  <2>. QED
    BY <2>1, <2>2 DEF Fresh, MyRun
<1>11. StepInv'
  BY <1>1, <1>3, <1>4, <1>5, <1>6 DEF StepInv, Running, MyRun
<1>12. \A p : Accounted(p)' = Accounted(p)
  BY <1>1 DEF Accounted
<1>13. OkInv'
  BY <1>3, <1>4, <1>5, <1>6, <1>12 DEF OkInv, StepInv, Running
<1>14. SuccessIsAccounted'
  BY <1>1, <1>3 DEF SuccessIsAccounted, OkInv, Accounted, RunAccounted
<1>. QED
  BY <1>8, <1>9, <1>10, <1>11, <1>13, <1>14

\* A step of a handler may make the handler's own run, and keeps what the others are
\* accounted for by.
LEMMA HandlerRuns ==
    ASSUME IInv, RunInv, NEW r \in Runners, Running(r), NEW s \in Steps,
           UNCHANGED <<jobVars, mode, late>>, step' = [step EXCEPT ![r] = s],
           excused \subseteq excused', excused' \subseteq Plans,
           run' \in [Plans -> [Attempts -> Run]],
           \A p \in Plans, a \in Attempts :
              /\ run[p][a] = NoRun /\ ~(p = exec[r].plan /\ a = exec[r].attempt)
                    => run'[p][a] = NoRun
              /\ RunAccounted(run[p][a]) => RunAccounted(run'[p][a])
              /\ run[p][a].task # "none" => run'[p][a].task # "none",
           s \in {"load", "recover", "create"} => MyRun(r)' = NoRun,
           s = "link" => MyRun(r)'.task # "none",
           s = "ok" => Accounted(exec[r].plan)'
    PROVE  RunInv'
<1>. USE DEF RunInv
<1>1. /\ UNCHANGED <<job, row, exec>> /\ step'[r] = s
      /\ \A q \in Runners : q # r => step'[q] = step[q]
  BY DEF jobVars, DispatchTypes
<1>2. exec[r].plan \in Plans /\ exec[r].attempt \in Attempts
  BY Handler DEF Running
<1>3. \A p \in Plans : row[p].attempt \in Nat
  BY DEF IInv, JobTypeOK, Row
<1>4. exec[r].attempt <= row[exec[r].plan].attempt
  BY DEF IInv, ExecInv, Running
<1>5. DispatchTypes'
  BY <1>1 DEF DispatchTypes
<1>6. Fresh'
  <2>1. \A p \in Plans, a \in Attempts : a > row'[p].attempt => run'[p][a] = NoRun
    BY <1>1, <1>2, <1>3, <1>4 DEF Fresh, Attempts
  <2>2. ASSUME NEW q \in Runners, q # r, exec[q].phase = "running",
               step[q] \in {"load", "recover", "create"}
        PROVE  run'[exec[q].plan][exec[q].attempt] = NoRun
    <3>1. exec[q].plan \in Plans /\ exec[q].attempt \in Attempts
      BY <2>2, Handler
    <3>2. ~(exec[q].plan = exec[r].plan /\ exec[q].attempt = exec[r].attempt)
      BY <2>2 DEF IInv, Distinct, Running
    <3>. QED
      BY <2>2, <3>1, <3>2 DEF Fresh, MyRun
  <2>. QED
    BY <1>1, <2>1, <2>2 DEF Fresh, MyRun
<1>7. StepInv'
  BY <1>1, Handler DEF StepInv, Running, MyRun
<1>8. \A p \in Plans : Accounted(p) => Accounted(p)'
  BY DEF Accounted
<1>9. OkInv'
  BY <1>1, <1>8, Handler DEF OkInv
<1>10. LateInv'
  BY <1>1 DEF LateInv
<1>11. SuccessIsAccounted'
  BY <1>1, <1>8 DEF SuccessIsAccounted, Accounted, RunAccounted
<1>. QED
  BY <1>5, <1>6, <1>7, <1>9, <1>10, <1>11

\* The run of a handler after it was written.
LEMMA WrittenRun ==
    ASSUME IInv, DispatchTypes, NEW r \in Runners, Running(r), NEW x \in Run, SetRun(r, x)
    PROVE  /\ run' \in [Plans -> [Attempts -> Run]]
           /\ run'[exec[r].plan][exec[r].attempt] = x
           /\ \A p \in Plans, a \in Attempts :
                 ~(p = exec[r].plan /\ a = exec[r].attempt) => run'[p][a] = run[p][a]
<1>1. exec[r].plan \in Plans /\ exec[r].attempt \in Attempts
  BY Handler DEF Running
<1>. DEFINE runs == [run[exec[r].plan] EXCEPT ![exec[r].attempt] = x]
<1>2. run' = [run EXCEPT ![exec[r].plan] = runs]
  BY DEF SetRun
<1>3. runs \in [Attempts -> Run] /\ runs[exec[r].attempt] = x
      /\ \A a \in Attempts : a # exec[r].attempt => runs[a] = run[exec[r].plan][a]
  BY <1>1 DEF DispatchTypes
<1>. HIDE DEF runs
<1>4. run' \in [Plans -> [Attempts -> Run]] /\ run'[exec[r].plan] = runs
      /\ \A p \in Plans : p # exec[r].plan => run'[p] = run[p]
  BY <1>1, <1>2, <1>3 DEF DispatchTypes
<1>. QED
  BY <1>1, <1>3, <1>4

\* A handler writes its own run, and accounts for at least as much as before.
LEMMA WriteRuns ==
    ASSUME IInv, RunInv, NEW r \in Runners, Running(r), NEW s \in Steps, NEW x \in Run,
           UNCHANGED <<jobVars, mode, late, excused>>, step' = [step EXCEPT ![r] = s],
           SetRun(r, x),
           RunAccounted(MyRun(r)) => RunAccounted(x),
           MyRun(r).task # "none" => x.task # "none",
           s \notin {"load", "recover", "create"},
           s = "link" => x.task # "none",
           s = "ok" => RunAccounted(x)
    PROVE  RunInv'
<1>1. exec[r].plan \in Plans /\ exec[r].attempt \in Attempts
  BY Handler DEF Running
<1>2. /\ run' \in [Plans -> [Attempts -> Run]]
      /\ run'[exec[r].plan][exec[r].attempt] = x
      /\ \A p \in Plans, a \in Attempts :
            ~(p = exec[r].plan /\ a = exec[r].attempt) => run'[p][a] = run[p][a]
  BY WrittenRun DEF RunInv
<1>3. MyRun(r)' = x
  BY <1>2 DEF MyRun, jobVars
<1>4. \A p \in Plans, a \in Attempts :
         /\ run[p][a] = NoRun /\ ~(p = exec[r].plan /\ a = exec[r].attempt) => run'[p][a] = NoRun
         /\ RunAccounted(run[p][a]) => RunAccounted(run'[p][a])
         /\ run[p][a].task # "none" => run'[p][a].task # "none"
  BY <1>2 DEF MyRun
<1>5. s = "ok" => Accounted(exec[r].plan)'
  BY <1>1, <1>2 DEF Accounted, jobVars
<1>6. excused' \subseteq Plans
  BY DEF RunInv, DispatchTypes
<1>. QED
  BY <1>2, <1>3, <1>4, <1>5, <1>6, HandlerRuns

\* A handler goes on without writing.
LEMMA MoveRuns ==
    ASSUME IInv, RunInv, NEW r \in Runners, Running(r), NEW s \in Steps,
           UNCHANGED <<jobVars, mode, late, run>>, step' = [step EXCEPT ![r] = s],
           excused \subseteq excused', excused' \subseteq Plans,
           s \in {"load", "recover", "create"} => step[r] \in {"load", "recover", "create"},
           s # "link", s = "ok" => Accounted(exec[r].plan)'
    PROVE  RunInv'
<1>1. s \in {"load", "recover", "create"} => MyRun(r)' = NoRun
  BY DEF RunInv, Fresh, MyRun, Running, jobVars
<1>2. run' \in [Plans -> [Attempts -> Run]]
  BY DEF RunInv, DispatchTypes
<1>. QED
  BY <1>1, <1>2, HandlerRuns

\* Every step of a handler preserves the invariant on runs.
LEMMA DispatchRuns ==
    ASSUME IInv, RunInv, NEW r \in Runners, Dispatch(r)
    PROVE  RunInv'
<1>. DEFINE p == exec[r].plan
<1>1. /\ Running(r) /\ UNCHANGED <<jobVars, mode, late>>
      /\ exec[r].plan \in Plans /\ exec[r].attempt \in Attempts
  <2>1. Running(r) /\ UNCHANGED <<jobVars, mode, late>>
    BY DEF Dispatch, Lookup, RecoverPartialAutopilotRun, CreateAutopilotRun,
       DispatchCreateIssue, EnqueueTask, DispatchRunOnly, UpdateAutopilotRunRunning,
       handleDispatchSkip, failRun, At, Running
  <2>. QED
    BY <2>1, Handler DEF Running
<1>2. run \in [Plans -> [Attempts -> Run]] /\ MyRun(r) \in Run /\ excused \subseteq Plans
      /\ NoRun \in Run
  BY <1>1 DEF RunInv, DispatchTypes, MyRun, Run, NoRun
<1>3. CASE Lookup(r)
  <2>1. step[r] = "load" /\ UNCHANGED run
    BY <1>3 DEF Lookup, At
  <2>2. CASE To(r, "ok") /\ excused' = excused \cup {p}
    <3>1. Accounted(p)'
      BY <1>1, <2>2 DEF Accounted, jobVars
    <3>2. excused \subseteq excused' /\ excused' \subseteq Plans
      BY <1>1, <1>2, <2>2
    <3>. QED
      BY <1>1, <2>1, <2>2, <3>1, <3>2, MoveRuns DEF To, Steps
  <2>3. CASE To(r, "error") /\ UNCHANGED excused
    BY <1>1, <1>2, <2>1, <2>3, MoveRuns DEF To, Steps
  <2>4. CASE (To(r, "create") \/ To(r, "recover")) /\ UNCHANGED excused
    BY <1>1, <1>2, <2>1, <2>4, MoveRuns DEF To, Steps
  <2>5. ASSUME NEW a \in Slot(p), isAutopilotRunComplete(run[p][a]), To(r, "ok"), UNCHANGED excused
        PROVE  RunInv'
    <3>1. Accounted(p)'
      BY <1>1, <2>1, <2>5 DEF Accounted, RunAccounted, isAutopilotRunComplete, Slot, jobVars
    <3>. QED
      BY <1>1, <1>2, <2>1, <2>5, <3>1, MoveRuns DEF To, Steps, Accounted
  <2>. QED
    BY <1>3, <2>2, <2>3, <2>4, <2>5 DEF Lookup
<1>4. CASE RecoverPartialAutopilotRun(r)
  <2>1. step[r] = "recover" /\ UNCHANGED excused
    BY <1>4 DEF RecoverPartialAutopilotRun, At
  <2>2. CASE To(r, "error") /\ UNCHANGED run
    BY <1>1, <1>2, <2>1, <2>2, MoveRuns DEF To, Steps
  <2>3. ASSUME NEW a \in Slot(p), To(r, "create"),
               run' = [run EXCEPT ![p][a] = [@ EXCEPT !.status = "failed", !.planned = FALSE]]
        PROVE  RunInv'
    <3>. DEFINE x == [run[p][a] EXCEPT !.status = "failed", !.planned = FALSE]
    <3>1. /\ a \in Attempts /\ run[p][a] \in Run /\ run[p][a] # NoRun
          /\ MyRun(r) = NoRun
      BY <1>1, <1>2, <2>1 DEF Slot, NoRun, RunInv, Fresh, Running
    <3>2. x \in Run /\ RunAccounted(x) /\ x.task = run[p][a].task
      BY <3>1 DEF Run, RunAccounted
    <3>. HIDE DEF x
    <3>3. /\ run' \in [Plans -> [Attempts -> Run]] /\ run'[p][a] = x
          /\ \A q \in Plans, b \in Attempts : ~(q = p /\ b = a) => run'[q][b] = run[q][b]
      <4>1. run' = [run EXCEPT ![p] = [run[p] EXCEPT ![a] = x]]
        BY <2>3 DEF x
      <4>. DEFINE runs == [run[p] EXCEPT ![a] = x]
      <4>2. /\ runs \in [Attempts -> Run] /\ runs[a] = x
            /\ \A b \in Attempts : b # a => runs[b] = run[p][b]
        BY <1>1, <1>2, <3>1, <3>2
      <4>3. run' = [run EXCEPT ![p] = runs]
        BY <4>1
      <4>. HIDE DEF runs
      <4>4. /\ run' \in [Plans -> [Attempts -> Run]] /\ run'[p] = runs
            /\ \A q \in Plans : q # p => run'[q] = run[q]
        BY <1>1, <1>2, <4>2, <4>3
      <4>. QED
        BY <3>1, <4>2, <4>4
    <3>4. a # exec[r].attempt
      BY <3>1 DEF MyRun
    <3>5. MyRun(r)' = NoRun
      BY <1>1, <3>1, <3>3, <3>4 DEF MyRun, jobVars
    <3>6. \A q \in Plans, b \in Attempts :
             /\ run[q][b] = NoRun => run'[q][b] = NoRun
             /\ RunAccounted(run[q][b]) => RunAccounted(run'[q][b])
             /\ run[q][b].task # "none" => run'[q][b].task # "none"
      BY <3>1, <3>2, <3>3
    <3>. QED
      BY <1>1, <1>2, <2>1, <2>3, <3>3, <3>5, <3>6, HandlerRuns DEF To, Steps
  <2>. QED
    BY <1>4, <2>2, <2>3 DEF RecoverPartialAutopilotRun
<1>5. CASE CreateAutopilotRun(r)
  <2>1. /\ step[r] = "create" /\ UNCHANGED excused /\ MyRun(r) = NoRun
        /\ ~RunAccounted(NoRun) /\ NoRun.task = "none"
    BY <1>1, <1>5 DEF CreateAutopilotRun, At, RunInv, Fresh, Running, RunAccounted, NoRun
  <2>2. CASE To(r, "error") /\ UNCHANGED run
    BY <1>1, <1>2, <2>1, <2>2, MoveRuns DEF To, Steps
  <2>3. CASE To(r, "ok") /\ SetRun(r, [NoRun EXCEPT !.status = "skipped", !.planned = TRUE])
    <3>. DEFINE x == [NoRun EXCEPT !.status = "skipped", !.planned = TRUE]
    <3>1. x \in Run /\ RunAccounted(x)
      BY DEF Run, NoRun, RunAccounted
    <3>. HIDE DEF x
    <3>2. SetRun(r, x)
      BY <2>3 DEF x
    <3>. QED
      BY <1>1, <2>1, <2>3, <3>1, <3>2, WriteRuns DEF To, Steps
  <2>4. CASE To(r, "dispatch") /\ SetRun(r, [NoRun EXCEPT !.status = "pending", !.planned = TRUE])
    <3>. DEFINE x == [NoRun EXCEPT !.status = "pending", !.planned = TRUE]
    <3>1. x \in Run
      BY DEF Run, NoRun
    <3>. HIDE DEF x
    <3>2. SetRun(r, x)
      BY <2>4 DEF x
    <3>. QED
      BY <1>1, <2>1, <2>4, <3>1, <3>2, WriteRuns DEF To, Steps
  <2>. QED
    BY <1>5, <2>2, <2>3, <2>4 DEF CreateAutopilotRun
<1>6. ASSUME NEW s \in {"fail", "error", "skip"}, To(r, s), UNCHANGED <<run, excused>>
      PROVE  RunInv'
  BY <1>1, <1>2, <1>6, MoveRuns DEF To, Steps
<1>7. ASSUME NEW s \in {"enqueue", "ok", "error", "link"}, NEW x \in Run, To(r, s),
             UNCHANGED excused, SetRun(r, x), RunAccounted(x),
             MyRun(r).task # "none" => x.task # "none", s = "link" => x.task # "none"
      PROVE  RunInv'
  BY <1>1, <1>7, WriteRuns DEF To, Steps
<1>8. CASE DispatchCreateIssue(r)
  <2>1. CASE To(r, "enqueue") /\ SetRun(r, [MyRun(r) EXCEPT !.status = "pending", !.linked = TRUE])
    <3>. DEFINE x == [MyRun(r) EXCEPT !.status = "pending", !.linked = TRUE]
    <3>1. x \in Run /\ RunAccounted(x) /\ x.task = MyRun(r).task
      BY <1>2 DEF Run, RunAccounted
    <3>2. UNCHANGED excused
      BY <1>8 DEF DispatchCreateIssue
    <3>. HIDE DEF x
    <3>3. SetRun(r, x)
      BY <2>1 DEF x
    <3>. QED
      BY <1>7, <2>1, <3>1, <3>2, <3>3
  <2>. QED
    BY <1>6, <1>8, <2>1 DEF DispatchCreateIssue
<1>9. CASE EnqueueTask(r) \/ DispatchRunOnly(r)
  <2>. DEFINE x == [MyRun(r) EXCEPT !.task = "queued"]
  <2>1. x \in Run /\ RunAccounted(x) /\ x.task = "queued"
    BY <1>2 DEF Run, RunAccounted
  <2>2. UNCHANGED excused
    BY <1>9 DEF EnqueueTask, DispatchRunOnly
  <2>3. \/ (To(r, "fail") \/ To(r, "skip")) /\ UNCHANGED run
        \/ (To(r, "ok") \/ To(r, "link")) /\ SetRun(r, x)
    BY <1>9 DEF EnqueueTask, DispatchRunOnly
  <2>. HIDE DEF x
  <2>. QED
    BY <1>6, <1>7, <2>1, <2>2, <2>3
<1>10. CASE UpdateAutopilotRunRunning(r)
  <2>1. To(r, "ok") /\ UNCHANGED excused /\ step[r] = "link"
    BY <1>10 DEF UpdateAutopilotRunRunning, At
  <2>2. CASE UNCHANGED run
    <3>1. Accounted(p)'
      BY <1>1, <2>1, <2>2 DEF RunInv, StepInv, Accounted, RunAccounted, MyRun, jobVars
    <3>. QED
      BY <1>1, <1>2, <2>1, <2>2, <3>1, MoveRuns DEF To, Steps
  <2>3. CASE SetRun(r, [MyRun(r) EXCEPT !.status = "pending", !.linked = TRUE])
    <3>. DEFINE x == [MyRun(r) EXCEPT !.status = "pending", !.linked = TRUE]
    <3>1. x \in Run /\ RunAccounted(x) /\ x.task = MyRun(r).task
      BY <1>2 DEF Run, RunAccounted
    <3>. HIDE DEF x
    <3>2. SetRun(r, x)
      BY <2>3 DEF x
    <3>. QED
      BY <1>7, <2>1, <3>1, <3>2
  <2>. QED
    BY <1>10, <2>2, <2>3 DEF UpdateAutopilotRunRunning
<1>11. CASE handleDispatchSkip(r)
  <2>. DEFINE x == [MyRun(r) EXCEPT !.status = "skipped"]
  <2>1. x \in Run /\ RunAccounted(x) /\ x.task = MyRun(r).task
    BY <1>2 DEF Run, RunAccounted
  <2>2. UNCHANGED excused /\ \/ To(r, "fail") /\ UNCHANGED run
                             \/ To(r, "ok") /\ SetRun(r, x)
    BY <1>11 DEF handleDispatchSkip
  <2>. HIDE DEF x
  <2>. QED
    BY <1>6, <1>7, <2>1, <2>2
<1>12. CASE failRun(r)
  <2>. DEFINE x == [MyRun(r) EXCEPT !.status = "failed"]
  <2>1. x \in Run /\ RunAccounted(x) /\ x.task = MyRun(r).task
    BY <1>2 DEF Run, RunAccounted
  <2>2. UNCHANGED excused /\ To(r, "error") /\ (UNCHANGED run \/ SetRun(r, x))
    BY <1>12 DEF failRun
  <2>. HIDE DEF x
  <2>. QED
    BY <1>6, <1>7, <2>1, <2>2
<1>. QED
  BY <1>3, <1>4, <1>5, <1>8, <1>9, <1>10, <1>11, <1>12 DEF Dispatch

\* The end of a task or an issue changes the run it belongs to, and nothing accounted for.
LEMMA SyncRuns ==
    ASSUME IInv, RunInv, NEW p \in Plans, NEW a \in Attempts, SyncRun(p, a)
    PROVE  RunInv'
<1>. USE DEF RunInv
<1>1. UNCHANGED <<job, row, exec, mode, step, excused, late>>
  BY DEF SyncRun, jobVars
<1>2. PICK verdict \in {"completed", "failed"} :
         run' = [run EXCEPT ![p][a] =
                   [@ EXCEPT !.status = verdict,
                             !.task = IF run[p][a].task = "queued"
                                      THEN "ended" ELSE run[p][a].task]]
  BY DEF SyncRun
<1>. DEFINE task == IF run[p][a].task = "queued" THEN "ended" ELSE run[p][a].task
            x == [run[p][a] EXCEPT !.status = verdict, !.task = task]
            runs == [run[p] EXCEPT ![a] = x]
<1>3. run[p][a] \in Run /\ run[p] \in [Attempts -> Run]
  BY DEF DispatchTypes
<1>4. task \in {"none", "queued", "ended"} /\ (run[p][a].task # "none" => task # "none")
  BY <1>3 DEF Run
<1>5. run[p][a] # NoRun
  BY DEF SyncRun, NoRun
<1>6. run' = [run EXCEPT ![p] = runs]
  BY <1>2
<1>. HIDE DEF task
<1>7. x \in Run /\ RunAccounted(x) /\ x.task = task
  BY <1>3, <1>4 DEF Run, RunAccounted
<1>. HIDE DEF x
<1>8. runs \in [Attempts -> Run] /\ runs[a] = x
      /\ \A b \in Attempts : b # a => runs[b] = run[p][b]
  BY <1>3, <1>7
<1>. HIDE DEF runs
<1>9. run' \in [Plans -> [Attempts -> Run]] /\ run'[p] = runs
      /\ \A q \in Plans : q # p => run'[q] = run[q]
  BY <1>6, <1>8 DEF DispatchTypes
<1>10. \A q \in Plans, b \in Attempts :
          /\ run[q][b] = NoRun => run'[q][b] = NoRun
          /\ RunAccounted(run[q][b]) => RunAccounted(run'[q][b])
          /\ run[q][b].task # "none" => run'[q][b].task # "none"
  BY <1>4, <1>5, <1>7, <1>8, <1>9
<1>11. DispatchTypes'
  BY <1>1, <1>9 DEF DispatchTypes
<1>12. Fresh'
  BY <1>1, <1>10, Handler DEF Fresh, MyRun
<1>13. StepInv'
  BY <1>1, <1>10, Handler DEF StepInv, Running, MyRun
<1>14. \A q \in Plans : Accounted(q) => Accounted(q)'
  BY <1>1, <1>10 DEF Accounted
<1>15. OkInv'
  BY <1>1, <1>14, Handler DEF OkInv
<1>16. LateInv'
  BY <1>1 DEF LateInv
<1>17. SuccessIsAccounted'
  BY <1>1, <1>14 DEF SuccessIsAccounted, Accounted, RunAccounted
<1>. QED
  BY <1>11, <1>12, <1>13, <1>15, <1>16, <1>17

\* A handler's return, the autopilots' or another job's, moves no run.
LEMMA ReturnRuns ==
    ASSUME IInv, RunInv, NEW r \in Runners, Return(r) \/ OtherHandler(r)
    PROVE  RunInv'
<1>. USE DEF RunInv
<1>1. PICK outcome \in {"ok", "error"} :
         /\ HandlerReturns(r, outcome)
         /\ job.planner = "autopilot" => outcome = step[r]
  BY DEF Return, OtherHandler
<1>2. /\ UNCHANGED <<job, row, mode, run, excused, late>>
      /\ step' = step \/ step' = [step EXCEPT ![r] = "load"]
      /\ job.planner = "autopilot" => step'[r] = "load"
      /\ exec[r].phase = "running"
  BY <1>1 DEF Return, OtherHandler, To, HandlerReturns, dispatchVars, DispatchTypes
<1>3. /\ \A s \in Runners : s # r => exec'[s] = exec[s] /\ step'[s] = step[s]
      /\ exec'[r].phase = outcome /\ exec'[r].plan = exec[r].plan /\ ~exec'[r].late
  BY <1>1, <1>2 DEF HandlerReturns, IInv, JobTypeOK, Exec, DispatchTypes
<1>4. step'[r] = "load"
  BY <1>2, <1>3 DEF StepInv, Running, DispatchTypes
<1>5. DispatchTypes'
  BY <1>2 DEF DispatchTypes, Steps
<1>6. Fresh'
  BY <1>2, <1>3 DEF Fresh, MyRun
<1>7. StepInv'
  BY <1>2, <1>3, <1>4 DEF StepInv, Running, MyRun
<1>8. \A p : Accounted(p)' = Accounted(p)
  BY <1>2 DEF Accounted
<1>9. OkInv'
  BY <1>1, <1>2, <1>3, <1>8 DEF OkInv
<1>10. LateInv'
  BY <1>2, <1>3 DEF LateInv
<1>11. SuccessIsAccounted'
  BY <1>2 DEF SuccessIsAccounted
<1>. QED
  BY <1>5, <1>6, <1>7, <1>9, <1>10, <1>11

\* At first there is no run, and no handler.
LEMMA InitRuns == Init => RunInv
<1>. SUFFICES ASSUME Init PROVE RunInv
  OBVIOUS
<1>. USE DEF Init, JobInit, RunInv
<1>1. NoRun \in Run
  BY DEF NoRun, Run
<1>2. DispatchTypes
  BY <1>1 DEF DispatchTypes, Steps
<1>3. Fresh /\ StepInv /\ OkInv /\ LateInv
  BY DEF Fresh, StepInv, OkInv, LateInv, IdleExec, Running, MyRun
<1>4. SuccessIsAccounted
  BY DEF SuccessIsAccounted, NoRow
<1>. QED
  BY <1>2, <1>3, <1>4

\* Every step preserves the invariant on runs.
LEMMA NextRuns == IInv /\ RunInv /\ [Next]_vars => RunInv'
<1>. SUFFICES ASSUME IInv, RunInv, [Next]_vars PROVE RunInv'
  OBVIOUS
<1>1. CASE UNCHANGED vars \/ (Advance /\ UNCHANGED dispatchVars)
  <2>1. UNCHANGED <<job, row, exec, mode, run, step, excused, late>>
    BY <1>1 DEF vars, jobVars, dispatchVars, Advance
  <2>. QED
    BY <2>1 DEF RunInv, DispatchTypes, Fresh, StepInv, OkInv, LateInv, SuccessIsAccounted,
       Accounted, Running, MyRun
<1>. QED
  BY <1>1, DispatchRuns, ReturnRuns, ScheduleRuns, SyncRuns DEF Next

\* Both invariants hold in every state of the dispatch.
LEMMA DispatchInvariance == Spec => [](IInv /\ RunInv)
<1>1. Spec => []IInv
  BY Scheduled, Invariance
<1>. QED
  BY <1>1, InitRuns, NextRuns, PTL DEF Spec

\* Rows, runs and handlers stay in their domains.
THEOREM TypeCorrectness == Spec => []TypeOK
<1>1. IInv /\ RunInv => TypeOK
  BY DEF IInv, RunInv, DispatchTypes, TypeOK
<1>. QED
  BY <1>1, DispatchInvariance, PTL

\* An occurrence recorded as a success has been dispatched or skipped, or its trigger was
\* gone, whatever handlers died, were taken over or ran at once before.
THEOREM Accounting == Spec => []SuccessIsAccounted
<1>1. RunInv => SuccessIsAccounted
  BY DEF RunInv
<1>. QED
  BY <1>1, DispatchInvariance, PTL

-----------------------------------------------------------------------------
(* The issue of an occurrence                                               *)

\* The index admits one run in the slot of an occurrence. Unless a claim was late, a run
\* leaves it only unlinked: the recovery sees no link made since its lookup, and the run
\* that an issue is created for holds the slot.
SlotInv == mode = "create_issue" =>
    /\ \A p \in Plans : \A a, b \in Slot(p) : a = b
    /\ \A p \in Plans \ late, a \in Attempts : run[p][a].linked => a \in Slot(p)
    /\ \A r \in Runners : Running(r) =>
          /\ step[r] # "link"
          /\ exec[r].plan \notin late =>
                /\ step[r] = "dispatch" => MyRun(r).planned
                /\ step[r] = "recover" => \A a \in Slot(exec[r].plan) : ~run[exec[r].plan][a].linked

\* No two handlers run an occurrence that was never claimed late.
LEMMA AloneOnPlan ==
    ASSUME IInv, LateInv, NEW r \in Runners, NEW s \in Runners, Running(r), Running(s),
           exec[r].plan = exec[s].plan, exec[r].plan \notin late
    PROVE  r = s
<1>1. ~exec[r].late /\ ~exec[s].late
  BY DEF LateInv, Running
<1>2. exec[r].attempt = exec[s].attempt
  BY <1>1 DEF IInv, LeaseInv, Running
<1>. QED
  BY <1>2 DEF IInv, Distinct, Running

\* A step of a handler concerns the slot of its own plan, and no other handler that is alone.
LEMMA OwnSlot ==
    ASSUME IInv, RunInv, SlotInv, mode = "create_issue", NEW r \in Runners, Running(r),
           NEW s \in Steps \ {"link"}, NEW p, p = exec[r].plan,
           UNCHANGED <<jobVars, mode, late>>, step' = [step EXCEPT ![r] = s],
           \A q \in Plans : q # p => run'[q] = run[q],
           \A a, b \in Attempts : run'[p][a].planned /\ run'[p][b].planned => a = b,
           p \notin late =>
              /\ \A a \in Attempts : run'[p][a].linked => run'[p][a].planned
              /\ s = "dispatch" => run'[p][exec[r].attempt].planned
              /\ s = "recover" => \A a \in Attempts : run'[p][a].planned => ~run'[p][a].linked
    PROVE  SlotInv'
<1>1. /\ UNCHANGED <<job, row, exec, mode, late>> /\ step'[r] = s
      /\ \A q \in Runners : q # r => step'[q] = step[q]
  BY DEF jobVars, RunInv, DispatchTypes
<1>2. p \in Plans
  BY Handler DEF Running
<1>3. \A q \in Plans : \A a, b \in Slot(q)' : a = b
  <2>. TAKE q \in Plans
  <2>1. CASE q = p
    BY <2>1 DEF Slot
  <2>2. CASE q # p
    BY <2>2 DEF Slot, SlotInv
  <2>. QED
    BY <2>1, <2>2
<1>4. \A q \in Plans \ late, a \in Attempts : run'[q][a].linked => a \in Slot(q)'
  <2>. TAKE q \in Plans \ late, a \in Attempts
  <2>1. CASE q = p
    BY <2>1 DEF Slot
  <2>2. CASE q # p
    BY <2>2 DEF Slot, SlotInv
  <2>. QED
    BY <2>1, <2>2
<1>5. ASSUME NEW q \in Runners, Running(q)
      PROVE  /\ step'[q] # "link"
             /\ exec[q].plan \notin late =>
                   /\ step'[q] = "dispatch" => MyRun(q)'.planned
                   /\ step'[q] = "recover" =>
                         \A a \in Slot(exec[q].plan)' : ~run'[exec[q].plan][a].linked
  <2>1. CASE q = r
    BY <1>1, <2>1 DEF MyRun, Slot
  <2>2. CASE q # r /\ exec[q].plan \in late
    BY <1>1, <1>5, <2>2 DEF SlotInv
  <2>3. CASE q # r /\ exec[q].plan \notin late
    <3>1. exec[q].plan # p
      BY <1>5, <2>3, AloneOnPlan DEF RunInv
    <3>2. run'[exec[q].plan] = run[exec[q].plan]
      BY <1>5, <3>1, Handler DEF Running
    <3>. QED
      BY <1>1, <1>5, <2>3, <3>2 DEF SlotInv, MyRun, Slot
  <2>. QED
    BY <2>1, <2>2, <2>3
<1>. QED
  BY <1>1, <1>3, <1>4, <1>5 DEF SlotInv, Running

\* A handler that writes its own run without moving it in or out of the slot.
LEMMA OwnRun ==
    ASSUME IInv, RunInv, SlotInv, mode = "create_issue", NEW r \in Runners, Running(r),
           NEW s \in {"enqueue", "ok", "error", "fail", "skip"}, NEW x \in Run,
           UNCHANGED <<jobVars, mode, late>>, step' = [step EXCEPT ![r] = s],
           UNCHANGED run \/ SetRun(r, x),
           x.planned = MyRun(r).planned, x.linked => MyRun(r).linked \/ MyRun(r).planned
    PROVE  SlotInv'
<1>. DEFINE p == exec[r].plan
<1>1. s \in Steps \ {"link"} /\ s # "dispatch" /\ s # "recover" /\ p \in Plans
      /\ exec[r].attempt \in Attempts
  BY Handler DEF Steps, Running
<1>2. ASSUME NEW a \in Attempts
      PROVE  /\ run'[p][a].planned = run[p][a].planned
             /\ run'[p][a].linked => run[p][a].linked \/ run[p][a].planned
  <2>1. CASE UNCHANGED run
    BY <2>1
  <2>2. CASE SetRun(r, x)
    BY <1>1, <2>2, WrittenRun DEF RunInv, MyRun
  <2>. QED
    BY <2>1, <2>2
<1>3. \A q \in Plans : q # p => run'[q] = run[q]
  BY <1>1 DEF SetRun, RunInv, DispatchTypes
<1>4. \A a, b \in Attempts : run'[p][a].planned /\ run'[p][b].planned => a = b
  BY <1>1, <1>2 DEF SlotInv, Slot
<1>5. p \notin late => \A a \in Attempts : run'[p][a].linked => run'[p][a].planned
  BY <1>1, <1>2 DEF SlotInv, Slot
<1>. QED
  BY <1>1, <1>3, <1>4, <1>5, OwnSlot

\* Every step of a handler preserves the invariant on slots.
LEMMA DispatchSlots ==
    ASSUME IInv, RunInv, SlotInv, mode = "create_issue", NEW r \in Runners, Dispatch(r)
    PROVE  SlotInv'
<1>. DEFINE p == exec[r].plan
<1>1. /\ Running(r) /\ UNCHANGED <<jobVars, mode, late>>
      /\ p \in Plans /\ exec[r].attempt \in Attempts
  <2>1. Running(r) /\ UNCHANGED <<jobVars, mode, late>>
    BY DEF Dispatch, Lookup, RecoverPartialAutopilotRun, CreateAutopilotRun,
       DispatchCreateIssue, EnqueueTask, DispatchRunOnly, UpdateAutopilotRunRunning,
       handleDispatchSkip, failRun, At, Running
  <2>. QED
    BY <2>1, Handler DEF Running
<1>2. /\ run \in [Plans -> [Attempts -> Run]] /\ run[p] \in [Attempts -> Run]
      /\ MyRun(r) \in Run /\ NoRun \in Run
  BY <1>1 DEF RunInv, DispatchTypes, MyRun, Run, NoRun
<1>3. /\ \A a, b \in Attempts : run[p][a].planned /\ run[p][b].planned => a = b
      /\ p \notin late =>
            /\ \A a \in Attempts : run[p][a].linked => run[p][a].planned
            /\ step[r] = "dispatch" => MyRun(r).planned
            /\ step[r] = "recover" => \A a \in Attempts : run[p][a].planned => ~run[p][a].linked
  BY <1>1 DEF SlotInv, Slot
<1>4. CASE UNCHANGED run /\ \E s \in {"create", "ok", "error", "fail", "skip"} : To(r, s)
  <2>1. PICK s \in {"create", "ok", "error", "fail", "skip"} : To(r, s)
    BY <1>4
  <2>. QED
    BY <1>1, <1>3, <1>4, <2>1, OwnSlot DEF To, Steps
<1>5. CASE Lookup(r)
  <2>1. UNCHANGED run
    BY <1>5 DEF Lookup
  <2>2. ASSUME NEW a \in Slot(p), ~isAutopilotRunComplete(run[p][a]), To(r, "recover")
        PROVE  SlotInv'
    <3>1. \A b \in Attempts : run'[p][b].planned => ~run'[p][b].linked
      BY <1>3, <2>1, <2>2 DEF Slot, isAutopilotRunComplete
    <3>. QED
      BY <1>1, <1>3, <2>1, <2>2, <3>1, OwnSlot DEF To, Steps
  <2>. QED
    BY <1>4, <1>5, <2>1, <2>2 DEF Lookup
<1>6. CASE RecoverPartialAutopilotRun(r)
  <2>1. ASSUME NEW a \in Slot(p), To(r, "create"),
               run' = [run EXCEPT ![p][a] = [@ EXCEPT !.status = "failed", !.planned = FALSE]]
        PROVE  SlotInv'
    <3>. DEFINE x == [run[p][a] EXCEPT !.status = "failed", !.planned = FALSE]
                runs == [run[p] EXCEPT ![a] = x]
    <3>1. a \in Attempts /\ run[p][a].planned /\ step[r] = "recover"
      BY <1>6 DEF Slot, RecoverPartialAutopilotRun, At
    <3>2. ~x.planned /\ x.linked = run[p][a].linked
      BY <1>2, <3>1 DEF Run
    <3>3. run' = [run EXCEPT ![p] = runs]
      BY <2>1
    <3>. HIDE DEF x
    <3>4. runs[a] = x /\ \A b \in Attempts : b # a => runs[b] = run[p][b]
      BY <1>2, <3>1
    <3>. HIDE DEF runs
    <3>5. run'[p] = runs /\ \A q \in Plans : q # p => run'[q] = run[q]
      BY <1>1, <1>2, <3>3
    <3>6. \A b, c \in Attempts : run'[p][b].planned /\ run'[p][c].planned => b = c
      BY <1>3, <3>2, <3>4, <3>5
    <3>7. p \notin late => \A b \in Attempts : run'[p][b].linked => run'[p][b].planned
      BY <1>3, <3>1, <3>2, <3>4, <3>5
    <3>. QED
      BY <1>1, <2>1, <3>5, <3>6, <3>7, OwnSlot DEF To, Steps
  <2>. QED
    BY <1>4, <1>6, <2>1 DEF RecoverPartialAutopilotRun
<1>7. CASE CreateAutopilotRun(r)
  <2>1. ASSUME NEW s \in {"ok", "dispatch"}, NEW status \in {"skipped", "pending"}, To(r, s),
               Slot(p) = {}, SetRun(r, [NoRun EXCEPT !.status = status, !.planned = TRUE])
        PROVE  SlotInv'
    <3>. DEFINE x == [NoRun EXCEPT !.status = status, !.planned = TRUE]
    <3>1. x \in Run /\ x.planned /\ ~x.linked
      BY DEF Run, NoRun
    <3>. HIDE DEF x
    <3>2. SetRun(r, x)
      BY <2>1 DEF x
    <3>3. /\ run'[p][exec[r].attempt] = x
          /\ \A a \in Attempts : a # exec[r].attempt => run'[p][a] = run[p][a]
      BY <1>1, <3>1, <3>2, WrittenRun DEF RunInv
    <3>4. \A q \in Plans : q # p => run'[q] = run[q]
      BY <1>1, <1>2, <3>2 DEF SetRun
    <3>5. \A a \in Attempts : ~run[p][a].planned
      BY <2>1 DEF Slot
    <3>6. \A a, b \in Attempts : run'[p][a].planned /\ run'[p][b].planned => a = b
      BY <3>3, <3>5
    <3>7. p \notin late => \A a \in Attempts : run'[p][a].linked => run'[p][a].planned
      BY <1>3, <3>1, <3>3
    <3>. QED
      BY <1>1, <2>1, <3>1, <3>3, <3>4, <3>6, <3>7, OwnSlot DEF To, Steps
  <2>. QED
    BY <1>4, <1>7, <2>1 DEF CreateAutopilotRun
<1>8. CASE DispatchCreateIssue(r)
  <2>1. CASE To(r, "enqueue") /\ SetRun(r, [MyRun(r) EXCEPT !.status = "pending", !.linked = TRUE])
    <3>. DEFINE x == [MyRun(r) EXCEPT !.status = "pending", !.linked = TRUE]
    <3>1. x \in Run /\ x.planned = MyRun(r).planned
      BY <1>2 DEF Run
    <3>. HIDE DEF x
    <3>2. SetRun(r, x)
      BY <2>1 DEF x
    <3>3. /\ run'[p][exec[r].attempt] = x
          /\ \A a \in Attempts : a # exec[r].attempt => run'[p][a] = run[p][a]
      BY <1>1, <3>1, <3>2, WrittenRun DEF RunInv
    <3>4. \A q \in Plans : q # p => run'[q] = run[q]
      BY <1>1, <1>2, <3>2 DEF SetRun
    <3>5. step[r] = "dispatch"
      BY <1>8 DEF DispatchCreateIssue, At
    <3>6. \A a \in Attempts : run'[p][a].planned = run[p][a].planned
      BY <3>1, <3>3 DEF MyRun
    <3>7. \A a, b \in Attempts : run'[p][a].planned /\ run'[p][b].planned => a = b
      BY <1>3, <3>6
    <3>8. p \notin late => \A a \in Attempts : run'[p][a].linked => run'[p][a].planned
      BY <1>3, <3>3, <3>5, <3>6 DEF MyRun
    <3>. QED
      BY <1>1, <2>1, <3>4, <3>7, <3>8, OwnSlot DEF To, Steps
  <2>. QED
    BY <1>4, <1>8, <2>1 DEF DispatchCreateIssue
<1>9. CASE EnqueueTask(r)
  <2>. DEFINE x == [MyRun(r) EXCEPT !.task = "queued"]
  <2>1. x \in Run /\ x.planned = MyRun(r).planned /\ x.linked = MyRun(r).linked
    BY <1>2 DEF Run
  <2>2. (UNCHANGED run \/ SetRun(r, x)) /\ (To(r, "fail") \/ To(r, "ok"))
    BY <1>9 DEF EnqueueTask
  <2>. HIDE DEF x
  <2>. QED
    BY <1>1, <2>1, <2>2, OwnRun DEF To
<1>10. CASE handleDispatchSkip(r)
  <2>. DEFINE x == [MyRun(r) EXCEPT !.status = "skipped"]
  <2>1. x \in Run /\ x.planned = MyRun(r).planned /\ x.linked = MyRun(r).linked
    BY <1>2 DEF Run
  <2>2. (UNCHANGED run \/ SetRun(r, x)) /\ (To(r, "fail") \/ To(r, "ok"))
    BY <1>10 DEF handleDispatchSkip
  <2>. HIDE DEF x
  <2>. QED
    BY <1>1, <2>1, <2>2, OwnRun DEF To
<1>11. CASE failRun(r)
  <2>. DEFINE x == [MyRun(r) EXCEPT !.status = "failed"]
  <2>1. x \in Run /\ x.planned = MyRun(r).planned /\ x.linked = MyRun(r).linked
    BY <1>2 DEF Run
  <2>2. (UNCHANGED run \/ SetRun(r, x)) /\ To(r, "error")
    BY <1>11 DEF failRun
  <2>. HIDE DEF x
  <2>. QED
    BY <1>1, <2>1, <2>2, OwnRun DEF To
<1>12. ~DispatchRunOnly(r) /\ ~UpdateAutopilotRunRunning(r)
  <2>1. step[r] # "link"
    BY <1>1 DEF SlotInv
  <2>. QED
    BY <2>1 DEF DispatchRunOnly, UpdateAutopilotRunRunning, At
<1>. QED
  BY <1>5, <1>6, <1>7, <1>8, <1>9, <1>10, <1>11, <1>12 DEF Dispatch

\* What runs the slots and moves no handler to a new step preserves it too.
LEMMA OtherSlots ==
    ASSUME IInv, RunInv, SlotInv, mode' = mode, late \subseteq late',
           run' \in [Plans -> [Attempts -> Run]],
           \A p \in Plans, a \in Attempts :
              run'[p][a].planned = run[p][a].planned /\ run'[p][a].linked = run[p][a].linked,
           \A r \in Runners : Running(r)' =>
              step'[r] = "load" \/ (Running(r) /\ step'[r] = step[r] /\ exec'[r] = exec[r])
    PROVE  SlotInv'
<1>. SUFFICES ASSUME mode = "create_issue" PROVE SlotInv'
  BY DEF SlotInv
<1>1. \A p \in Plans : Slot(p)' = Slot(p)
  BY DEF Slot
<1>2. \A p \in Plans : \A a, b \in Slot(p)' : a = b
  BY <1>1 DEF SlotInv
<1>3. \A p \in Plans \ late', a \in Attempts : run'[p][a].linked => a \in Slot(p)'
  BY <1>1 DEF SlotInv
<1>4. ASSUME NEW r \in Runners, Running(r), step'[r] = step[r], exec'[r] = exec[r]
      PROVE  /\ step'[r] # "link"
             /\ exec'[r].plan \notin late' =>
                   /\ step'[r] = "dispatch" => MyRun(r)'.planned
                   /\ step'[r] = "recover" =>
                         \A a \in Slot(exec[r].plan)' : ~run'[exec'[r].plan][a].linked
  <2>1. exec[r].plan \in Plans /\ exec[r].attempt \in Attempts
    BY <1>4, Handler DEF Running
  <2>2. MyRun(r)'.planned = MyRun(r).planned
    BY <1>4, <2>1 DEF MyRun
  <2>3. \A a \in Slot(exec[r].plan) :
           run'[exec'[r].plan][a].linked = run[exec[r].plan][a].linked
    BY <1>4, <2>1 DEF Slot
  <2>4. Slot(exec[r].plan)' = Slot(exec[r].plan)
    <3>1. \A a \in Attempts : run'[exec'[r].plan][a].planned = run[exec[r].plan][a].planned
      BY <1>4, <2>1
    <3>. QED
      BY <3>1 DEF Slot
  <2>. QED
    BY <1>4, <2>2, <2>3, <2>4 DEF SlotInv
<1>. QED
  BY <1>2, <1>3, <1>4 DEF SlotInv

\* Every step preserves the invariant on slots.
LEMMA NextSlots == IInv /\ RunInv /\ SlotInv /\ [Next]_vars => SlotInv'
<1>. SUFFICES ASSUME IInv, RunInv, SlotInv, [Next]_vars PROVE SlotInv'
  OBVIOUS
<1>. USE DEF RunInv
<1>1. ASSUME NEW r \in Runners, Dispatch(r) PROVE SlotInv'
  <2>1. UNCHANGED mode
    BY <1>1 DEF Dispatch, Lookup, RecoverPartialAutopilotRun, CreateAutopilotRun,
       DispatchCreateIssue, EnqueueTask, DispatchRunOnly, UpdateAutopilotRunRunning,
       handleDispatchSkip, failRun, At
  <2>2. CASE mode = "create_issue"
    BY <1>1, <2>2, DispatchSlots
  <2>3. CASE mode # "create_issue"
    BY <2>1, <2>3 DEF SlotInv
  <2>. QED
    BY <2>2, <2>3
<1>2. ASSUME NEW r \in Runners, Schedule(r) PROVE SlotInv'
  <2>1. /\ JobStep(r) /\ UNCHANGED <<mode, run>> /\ late \subseteq late'
        /\ step' = IF exec'[r].phase = "running" THEN step ELSE [step EXCEPT ![r] = "load"]
    BY <1>2 DEF Schedule
  <2>2. /\ job' = job
        /\ \A s \in Runners : s # r => exec'[s] = exec[s]
        /\ \/ exec'[r] = exec[r] \/ exec'[r] = IdleExec \/ exec[r].phase = "idle"
    BY <2>1, JobStepFacts
  <2>3. ASSUME NEW s \in Runners, Running(s)'
        PROVE  step'[s] = "load" \/ (Running(s) /\ step'[s] = step[s] /\ exec'[s] = exec[s])
    <3>1. step'[s] = step[s]
      BY <2>1, <2>3 DEF DispatchTypes, Running
    <3>2. CASE exec'[s] = exec[s]
      BY <2>2, <2>3, <3>1, <3>2 DEF Running
    <3>3. CASE exec'[s] # exec[s]
      <4>1. ~Running(s)
        BY <2>2, <2>3, <3>3 DEF Running, IdleExec
      <4>. QED
        BY <3>1, <4>1 DEF StepInv
    <3>. QED
      BY <3>2, <3>3
  <2>. QED
    BY <2>1, <2>3, OtherSlots DEF DispatchTypes
<1>3. ASSUME NEW r \in Runners, Return(r) \/ OtherHandler(r) PROVE SlotInv'
  <2>1. PICK outcome \in {"ok", "error"} : HandlerReturns(r, outcome)
    BY <1>3 DEF Return, OtherHandler
  <2>2. /\ UNCHANGED <<job, mode, run, late>>
        /\ \A s \in Runners : s # r => exec'[s] = exec[s] /\ step'[s] = step[s]
        /\ exec'[r].phase # "running"
    BY <1>3, <2>1 DEF Return, OtherHandler, To, HandlerReturns, dispatchVars, DispatchTypes,
       IInv, JobTypeOK, Exec
  <2>3. \A s \in Runners : Running(s)' => Running(s) /\ step'[s] = step[s] /\ exec'[s] = exec[s]
    BY <2>2 DEF Running
  <2>. QED
    BY <2>2, <2>3, OtherSlots DEF DispatchTypes
<1>4. ASSUME NEW p \in Plans, NEW a \in Attempts, SyncRun(p, a) PROVE SlotInv'
  <2>1. UNCHANGED <<job, exec, mode, step, late>>
    BY <1>4 DEF SyncRun, jobVars
  <2>2. PICK verdict \in {"completed", "failed"} :
           run' = [run EXCEPT ![p][a] =
                     [@ EXCEPT !.status = verdict,
                               !.task = IF run[p][a].task = "queued"
                                        THEN "ended" ELSE run[p][a].task]]
    BY <1>4 DEF SyncRun
  <2>. DEFINE task == IF run[p][a].task = "queued" THEN "ended" ELSE run[p][a].task
              x == [run[p][a] EXCEPT !.status = verdict, !.task = task]
              runs == [run[p] EXCEPT ![a] = x]
  <2>3. run[p][a] \in Run /\ run[p] \in [Attempts -> Run]
    BY DEF DispatchTypes
  <2>4. run' = [run EXCEPT ![p] = runs]
    BY <2>2
  <2>5. task \in {"none", "queued", "ended"}
    BY <2>3 DEF Run
  <2>. HIDE DEF task
  <2>6. x \in Run /\ x.planned = run[p][a].planned /\ x.linked = run[p][a].linked
    BY <2>3, <2>5 DEF Run
  <2>. HIDE DEF x
  <2>7. runs \in [Attempts -> Run] /\ runs[a] = x
        /\ \A b \in Attempts : b # a => runs[b] = run[p][b]
    BY <2>3, <2>6
  <2>. HIDE DEF runs
  <2>8. run' \in [Plans -> [Attempts -> Run]] /\ run'[p] = runs
        /\ \A q \in Plans : q # p => run'[q] = run[q]
    BY <2>4, <2>7 DEF DispatchTypes
  <2>9. \A q \in Plans, b \in Attempts :
           run'[q][b].planned = run[q][b].planned /\ run'[q][b].linked = run[q][b].linked
    BY <2>6, <2>7, <2>8
  <2>10. \A r \in Runners : Running(r)' = Running(r)
    BY <2>1 DEF Running
  <2>. QED
    BY <2>1, <2>8, <2>9, <2>10, OtherSlots
<1>5. CASE UNCHANGED vars \/ (Advance /\ UNCHANGED dispatchVars)
  <2>1. UNCHANGED <<job, exec, mode, run, step, late>>
    BY <1>5 DEF vars, jobVars, dispatchVars, Advance
  <2>. QED
    BY <2>1, OtherSlots DEF Running, DispatchTypes
<1>. QED
  BY <1>1, <1>2, <1>3, <1>4, <1>5 DEF Next

\* An occurrence makes one issue, whatever handlers die and are retried, unless a claim
\* was late; for any number of servers, occurrences and attempts.
THEOREM OneIssue == Spec => []OneIssuePerOccurrence
<1>1. Init => SlotInv
  BY DEF Init, JobInit, SlotInv, Slot, NoRun, IdleExec, Running
<1>2. Spec => []SlotInv
  BY <1>1, NextSlots, DispatchInvariance, PTL DEF Spec
<1>3. SlotInv => OneIssuePerOccurrence
  <2>. SUFFICES ASSUME SlotInv, mode = "create_issue", NEW p \in Plans \ late
                PROVE  Cardinality({a \in Attempts : run[p][a].linked}) <= 1
    BY DEF OneIssuePerOccurrence
  <2>. DEFINE S == {a \in Attempts : run[p][a].linked}
  <2>1. \A a, b \in S : a = b
    BY DEF SlotInv
  <2>2. CASE S = {}
    BY <2>2, FS_EmptySet
  <2>3. CASE S # {}
    <3>1. PICK a \in S : TRUE
      BY <2>3
    <3>2. S = {a}
      BY <2>1, <3>1
    <3>. QED
      BY <3>2, FS_Singleton
  <2>. QED
    BY <2>2, <2>3
<1>. QED
  BY <1>2, <1>3, PTL
=============================================================================
