---------------------------- MODULE JobScheduler ----------------------------
(***************************************************************************)
(* The scheduler of internal periodic jobs: every server runs a Manager    *)
(* that ticks the same jobs, and the table sys_cron_executions, one row    *)
(* per planned execution, is the lease and the record of each plan.        *)
(*                                                                         *)
(* One job and one scope. A tick reads the database clock once, at its     *)
(* start, and uses that time for all its plans; handlers run inside the    *)
(* tick. The other jobs and scopes of the tick take time, so the clock may *)
(* advance between any two statements of a tick. A row is never deleted    *)
(* and its attempt grows with every claim, so the attempt stands for the   *)
(* lease token. A plan is the number of its bucket: its plan_time is the   *)
(* number times Cadence. A definition under "mutated" is a plausible       *)
(* mistake in the one after it, used only to see that the properties can   *)
(* fail.                                                                   *)
(***************************************************************************)
EXTENDS Integers, FiniteSets

CONSTANTS
    Runners,            \* one Manager per server
    Plans,              \* the buckets of the job that may be planned
    Planners, Reentry,  \* the planners and AllowStaleReentry of the jobs modelled
    Start, MaxTime,     \* when the model starts, and its bound on the clock
    Cadence, ScheduleDelay, CatchUpWindow, MaxPlansPerTick,
    Lateness,           \* maxAutopilotScheduleLateness
    RunTimeout, StaleTimeout,
    RetryDelay,         \* retryDelay, 0 for an empty RetryBackoff
    MaxAttempts

\* JobSpec.validate; Start is a time, and NULL times are 0.
ASSUME SpecAssumption ==
    /\ {Start, MaxTime, Cadence, RunTimeout, StaleTimeout, MaxAttempts,
        MaxPlansPerTick} \subseteq Nat \ {0}
    /\ {ScheduleDelay, CatchUpWindow, Lateness, RetryDelay} \subseteq Nat
    /\ RunTimeout < StaleTimeout
    /\ Plans \subseteq Nat
    /\ Planners \subseteq {"latest_only", "every_plan", "autopilot"}
    /\ Reentry \subseteq BOOLEAN

VARIABLES
    now,        \* the clock of the database
    job,        \* the JobSpec: its planner and AllowStaleReentry
    row,        \* [Plans -> row of sys_cron_executions]
    tick,       \* [Runners -> RunOnce under way]
    exec,       \* [Runners -> runClaimed under way]
    succeeded,  \* <<plan, attempt>> whose handler has returned without error
    unclaimed,  \* plans some tick gave up because their claim failed
    bootstrap   \* plans chosen by a tick that found no history

jobVars == <<now, job, row, tick, exec, succeeded, unclaimed, bootstrap>>

Statuses == {"NONE", "RUNNING", "SUCCESS", "FAILED"}

Row == [status: Statuses, attempt: 0 .. MaxAttempts,
        stale_after: Nat, next_retry_at: Nat]
NoRow == [status |-> "NONE", attempt |-> 0, stale_after |-> 0, next_retry_at |-> 0]

Tick == [phase: {"idle", "sweep", "plan", "claim"}, at: Nat, plans: SUBSET Plans]
IdleTick == [phase |-> "idle", at |-> 0, plans |-> {}]

\* The handler's context ends RunTimeout after "since"; "late" says that the lease
\* may run out before, because the claim was made long after its tick began.
Exec == [phase: {"idle", "running", "ok", "error"}, plan: Plans \cup {-1},
         attempt: 0 .. MaxAttempts, since: Nat, late: BOOLEAN]
IdleExec == [phase |-> "idle", plan |-> -1, attempt |-> 0, since |-> 0, late |-> FALSE]

JobInit ==
    /\ now = Start
    /\ job \in [planner: Planners, reentry: Reentry]
    /\ row = [p \in Plans |-> NoRow]
    /\ tick = [r \in Runners |-> IdleTick]
    /\ exec = [r \in Runners |-> IdleExec]
    /\ succeeded = {}
    /\ unclaimed = {}
    /\ bootstrap = {}

-----------------------------------------------------------------------------
(* Planning                                                                 *)

Claimed == {p \in Plans : row[p].status # "NONE"}
Newest(S) == {p \in S : \A q \in S : q <= p}

Due(at, delay) == {p \in Plans : p * Cadence + delay <= at}

\* mutated
RetryEligibleAtOnce(p, at) == row[p].status = "FAILED" /\ row[p].attempt < MaxAttempts

\* mutated
RetryEligibleForever(p, at) == row[p].status = "FAILED" /\ row[p].next_retry_at <= at

RetryEligible(p, at) ==
    /\ row[p].status = "FAILED"
    /\ row[p].attempt < MaxAttempts
    /\ row[p].next_retry_at <= at

\* The newest plan on record if it may be retried at the time of the tick.
Retries(at) == {p \in Newest(Claimed) : RetryEligible(p, at)}

\* mutated
BeyondNewestDue(p) == p \in Newest(Due(now, ScheduleDelay))

Beyond(p) == \A q \in Claimed : q < p

EveryPlan(at) ==
    LET due == Due(at, ScheduleDelay)
        cursor == Retries(at) \cup
                  {p \in due : Beyond(p) /\ (Claimed = {} => p \in Newest(due))}
        window == {p \in due : p * Cadence + CatchUpWindow >= at
                                  \/ (CatchUpWindow = 0 /\ p \in Newest(due))}
        planned == cursor \cap window
    IN {p \in planned : Cardinality({q \in planned : q < p}) < MaxPlansPerTick}

\* A plan whose retry is due, or else the last occurrence since the newest plan
\* on record, unless it is too old to be dispatched.
AutopilotPlans(at) ==
    LET latest == {p \in Newest(Due(at, 0)) : Beyond(p) /\ at - p * Cadence <= Lateness
                                              /\ (Claimed = {} => p * Cadence > Start)}
    IN IF Retries(at) # {} THEN Retries(at) ELSE latest

PlansForTick(at) ==
    CASE job.planner = "latest_only" -> Newest(Due(at, ScheduleDelay))
      [] job.planner = "every_plan" -> EveryPlan(at)
      [] job.planner = "autopilot" -> AutopilotPlans(at)

-----------------------------------------------------------------------------
(* A tick: RunOnce, runJob                                                  *)

\* RunOnce reads the database clock.
StartTick(r) ==
    /\ tick[r].phase = "idle"
    /\ tick' = [tick EXCEPT ![r] = [phase |-> "sweep", at |-> now, plans |-> {}]]
    /\ UNCHANGED <<now, job, row, exec, succeeded, unclaimed, bootstrap>>

\* mutated
StaleAtOnce(p, at) == row[p].status = "RUNNING" /\ row[p].stale_after <= at + 1

Stale(p, at) == row[p].status = "RUNNING" /\ row[p].stale_after < at

\* An error of the statement is logged, and the tick goes on.
MarkStaleAsFailed(r) ==
    /\ tick[r].phase = "sweep"
    /\ tick' = [tick EXCEPT ![r] = [@ EXCEPT !.phase = "plan"]]
    /\ \/ UNCHANGED row
       \/ row' = [p \in Plans |-> IF Stale(p, tick[r].at)
                                  THEN [row[p] EXCEPT !.status = "FAILED"]
                                  ELSE row[p]]
    /\ UNCHANGED <<now, job, exec, succeeded, unclaimed, bootstrap>>

Plan(r) ==
    /\ tick[r].phase = "plan"
    /\ tick' = [tick EXCEPT ![r] = [@ EXCEPT !.phase = "claim",
                                             !.plans = PlansForTick(tick[r].at)]]
    /\ bootstrap' = IF Claimed = {} /\ job.planner = "every_plan"
                    THEN bootstrap \cup PlansForTick(tick[r].at) ELSE bootstrap
    /\ UNCHANGED <<now, job, row, exec, succeeded, unclaimed>>

\* The tick's work on this scope ends when its plans are done, or on an error.
EndTick(r) ==
    /\ \/ tick[r].phase \in {"sweep", "plan"}
       \/ tick[r].phase = "claim" /\ tick[r].plans = {}
    /\ exec[r].phase = "idle"
    /\ tick' = [tick EXCEPT ![r] = IdleTick]
    /\ UNCHANGED <<now, job, row, exec, succeeded, unclaimed, bootstrap>>

-----------------------------------------------------------------------------
(* One plan of a tick: processPlan, runClaimed                              *)

\* Plans are processed oldest first.
Turn(r, p) ==
    /\ tick[r].phase = "claim"
    /\ exec[r].phase = "idle"
    /\ p \in tick[r].plans
    /\ \A q \in tick[r].plans : p <= q

PlanDone(r, p) == tick' = [tick EXCEPT ![r].plans = @ \ {p}]

Claimable(p, at) ==
    \/ row[p].status = "NONE"
    \/ RetryEligible(p, at)
    \/ row[p].attempt < MaxAttempts /\ Stale(p, at) /\ job.reentry

TryClaim(r, p) ==
    LET at == tick[r].at IN
    /\ Turn(r, p)
    /\ PlanDone(r, p)
    /\ Claimable(p, at)
    /\ row' = [row EXCEPT ![p] = [status |-> "RUNNING", attempt |-> @.attempt + 1,
                                  stale_after |-> at + StaleTimeout,
                                  next_retry_at |-> 0]]
    /\ exec' = [exec EXCEPT ![r] = [phase |-> "running", plan |-> p,
                                    attempt |-> row[p].attempt + 1, since |-> now,
                                    late |-> now + RunTimeout > at + StaleTimeout]]
    /\ UNCHANGED <<now, job, succeeded, unclaimed, bootstrap>>

\* Another runner owns the plan, or it is finished, or its retry is not due.
Conflicted(r, p) ==
    /\ Turn(r, p)
    /\ PlanDone(r, p)
    /\ ~Claimable(p, tick[r].at)
    /\ UNCHANGED <<now, job, row, exec, succeeded, unclaimed, bootstrap>>

\* An error of the claim is logged, and the tick goes on with the next plan.
ClaimFails(r, p) ==
    /\ Turn(r, p)
    /\ PlanDone(r, p)
    /\ unclaimed' = IF job.planner = "every_plan" THEN unclaimed \cup {p} ELSE unclaimed
    /\ UNCHANGED <<now, job, row, exec, succeeded, bootstrap>>

\* mutated
OwnsRow(r) == row[exec[r].plan].status = "RUNNING"

\* The guard of a heartbeat and of a terminal write.
OwnsLease(r) ==
    /\ row[exec[r].plan].status = "RUNNING"
    /\ row[exec[r].plan].attempt = exec[r].attempt

\* runHeartbeats, beside the handler, or the handler itself.
Heartbeat(r) ==
    /\ exec[r].phase = "running"
    /\ OwnsLease(r)
    /\ row' = [row EXCEPT ![exec[r].plan] = [@ EXCEPT !.stale_after = now + StaleTimeout]]
    /\ UNCHANGED <<now, job, tick, exec, succeeded, unclaimed, bootstrap>>

\* The handler returns; a panic is an error.
HandlerReturns(r, outcome) ==
    /\ exec[r].phase = "running"
    /\ exec' = [exec EXCEPT ![r] = [@ EXCEPT !.phase = outcome, !.since = 0, !.late = FALSE]]
    /\ succeeded' = IF outcome = "ok" THEN succeeded \cup {<<exec[r].plan, exec[r].attempt>>}
                    ELSE succeeded
    /\ UNCHANGED <<now, job, row, tick, unclaimed, bootstrap>>

\* finishSuccess or finishFailure; without the lease, or on an error of the
\* statement, nothing is written.
Finish(r) ==
    /\ exec[r].phase \in {"ok", "error"}
    /\ exec' = [exec EXCEPT ![r] = IdleExec]
    /\ \/ UNCHANGED row
       \/ /\ OwnsLease(r)
          /\ row' = [row EXCEPT ![exec[r].plan] =
                        [@ EXCEPT !.status = IF exec[r].phase = "ok" THEN "SUCCESS" ELSE "FAILED",
                                  !.next_retry_at = IF exec[r].phase = "error"
                                                       /\ exec[r].attempt < MaxAttempts
                                                    THEN now + RetryDelay ELSE 0]]
    /\ UNCHANGED <<now, job, tick, succeeded, unclaimed, bootstrap>>

\* The server dies, or is stopped; its successor starts with nothing.
Crash(r) ==
    /\ tick[r].phase = "claim"
    /\ tick' = [tick EXCEPT ![r] = IdleTick]
    /\ exec' = [exec EXCEPT ![r] = IdleExec]
    /\ UNCHANGED <<now, job, row, succeeded, unclaimed, bootstrap>>

\* A handler returns before its context has ended for longer than an instant.
Advance ==
    /\ now < MaxTime
    /\ \A r \in Runners : exec[r].phase = "running" => now < exec[r].since + RunTimeout
    /\ now' = now + 1
    /\ UNCHANGED <<job, row, tick, exec, succeeded, unclaimed, bootstrap>>

JobStep(r) ==
    \/ StartTick(r) \/ MarkStaleAsFailed(r) \/ Plan(r) \/ EndTick(r)
    \/ \E p \in Plans : TryClaim(r, p) \/ Conflicted(r, p) \/ ClaimFails(r, p)
    \/ Heartbeat(r) \/ Finish(r) \/ Crash(r)

JobNext ==
    \/ \E r \in Runners :
         JobStep(r) \/ \E outcome \in {"ok", "error"} : HandlerReturns(r, outcome)
    \/ Advance

JobSpec == JobInit /\ [][JobNext]_jobVars

-----------------------------------------------------------------------------
(* Properties                                                               *)

\* Type correctness of the scheduler's state.
JobTypeOK ==
    /\ now \in Nat
    /\ job \in [planner: Planners, reentry: Reentry]
    /\ row \in [Plans -> Row]
    /\ tick \in [Runners -> Tick]
    /\ exec \in [Runners -> Exec]
    /\ succeeded \subseteq Plans \X (1 .. MaxAttempts)
    /\ unclaimed \subseteq Plans
    /\ bootstrap \subseteq Plans

\* While a handler runs that was claimed early enough in its tick, its lease is
\* the plan's present one: no sweep, steal or retry starts the plan again, with
\* or without heartbeats. (StaleTimeout, RunTimeout, tryClaim, heartbeat)
PromptHandlerIsAlone ==
    \A r \in Runners : exec[r].phase = "running" /\ ~exec[r].late =>
        row[exec[r].plan].status = "RUNNING" /\ row[exec[r].plan].attempt = exec[r].attempt

\* A plan is recorded as a success only if the handler of its newest attempt has
\* succeeded: an older attempt, or one whose lease was taken, decides nothing.
VerdictIsNewestAttempts ==
    \A p \in Plans : row[p].status = "SUCCESS" => <<p, row[p].attempt>> \in succeeded

\* A success is final; attempts are counted one by one, and the next one starts only
\* when the plan's backoff has passed, whoever swept or stole the one before.
AttemptsMoveOn ==
    [][\A p \in Plans :
        /\ row[p].status = "SUCCESS" => row'[p] = row[p]
        /\ row'[p].attempt # row[p].attempt =>
              /\ row'[p].attempt = row[p].attempt + 1
              /\ row[p].next_retry_at <= now]_jobVars

\* Catch-up of every plan jumps over no plan: between the newest plan on record and
\* a newer one that is started, each plan is older than the window, or its claim
\* failed. (Ticks that find no history at all start from the latest plan.)
NoPlanLeftOut ==
    [][job.planner = "every_plan" =>
        \A o \in Newest(Claimed), q \in Claimed' \ (Claimed \cup bootstrap), p \in Plans :
            o < p /\ p < q => p \in unclaimed \/ p * Cadence + CatchUpWindow < now]_jobVars

=============================================================================
