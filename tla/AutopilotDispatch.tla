-------------------------- MODULE AutopilotDispatch --------------------------
(***************************************************************************)
(* The job autopilot_schedule_dispatch on JobScheduler: one schedule       *)
(* trigger is the scope, its plans are occurrences of its cron expression, *)
(* and the handler creates the run of an occurrence and then its issue and *)
(* task, or its task alone.                                                *)
(*                                                                         *)
(* A handler creates at most one run, so a run is named by the plan and    *)
(* the attempt of its handler. A failing statement is a choice at each     *)
(* step. The scheduler's other jobs have handlers of which nothing is      *)
(* known but that they return.                                             *)
(***************************************************************************)
EXTENDS JobScheduler

VARIABLES
    mode,       \* execution_mode of the autopilot, of no meaning for other jobs
    run,        \* [Plans -> [attempts -> row of autopilot_run]]
    step,       \* [Runners -> where autopilotHandler is]
    excused,    \* plans whose handler found the trigger or autopilot gone or inactive
    late        \* occurrences some attempt of which was claimed late

dispatchVars == <<mode, run, step, excused, late>>
vars == <<jobVars, dispatchVars>>

Attempts == 1 .. MaxAttempts

\* planned: planned_at is set. linked: issue_id or task_id is set. task: the run's
\* task in agent_task_queue.
Run == [status: {"none", "pending", "completed", "failed", "skipped"},
        planned: BOOLEAN, linked: BOOLEAN, task: {"none", "queued", "ended"}]
NoRun == [status |-> "none", planned |-> FALSE, linked |-> FALSE, task |-> "none"]

Steps == {"load", "recover", "create", "dispatch", "enqueue", "link", "skip", "fail",
          "ok", "error"}

Init ==
    /\ JobInit
    /\ mode \in {"create_issue", "run_only"}
    /\ job.planner # "autopilot" => mode = "run_only"
    /\ run = [p \in Plans |-> [a \in Attempts |-> NoRun]]
    /\ step = [r \in Runners |-> "load"]
    /\ excused = {}
    /\ late = {}

-----------------------------------------------------------------------------
(* The handler: autopilotHandler, DispatchAutopilotForPlan                  *)

At(r, s) ==
    /\ job.planner = "autopilot"
    /\ exec[r].phase = "running"
    /\ step[r] = s
    /\ UNCHANGED <<jobVars, mode, late>>

To(r, s) == step' = [step EXCEPT ![r] = s]

SetRun(r, x) == run' = [run EXCEPT ![exec[r].plan] = [@ EXCEPT ![exec[r].attempt] = x]]
MyRun(r) == run[exec[r].plan][exec[r].attempt]

\* The runs that hold the slot of plan p in uq_autopilot_run_trigger_planned.
Slot(p) == {a \in Attempts : run[p][a].planned}

\* mutated
AnyRunIsComplete(x) == TRUE

\* mutated
HasEnded(x) == x.status \in {"completed", "failed", "skipped"}

isAutopilotRunComplete(x) == x.status \in {"completed", "failed", "skipped"} \/ x.linked

\* The trigger and the autopilot are loaded, then the occurrence's run is looked up.
Lookup(r) ==
    /\ At(r, "load")
    /\ UNCHANGED run
    /\ \/ To(r, "ok") /\ excused' = excused \cup {exec[r].plan}
       \/ To(r, "error") /\ UNCHANGED excused
       \/ /\ UNCHANGED excused
          /\ IF Slot(exec[r].plan) = {} THEN To(r, "create")
             ELSE \E a \in Slot(exec[r].plan) :
                    IF isAutopilotRunComplete(run[exec[r].plan][a])
                    THEN To(r, "ok") ELSE To(r, "recover")

\* By id, whatever has become of the run since the lookup. Nothing but this takes a
\* run out of its slot, so the slot still holds the run that was seen.
RecoverPartialAutopilotRun(r) ==
    /\ At(r, "recover")
    /\ UNCHANGED excused
    /\ \/ To(r, "error") /\ UNCHANGED run
       \/ /\ To(r, "create")
          /\ \E a \in Slot(exec[r].plan) :
                run' = [run EXCEPT ![exec[r].plan][a] =
                            [@ EXCEPT !.status = "failed", !.planned = FALSE]]

\* The admission check, and the insert, which the unique index may refuse.
CreateAutopilotRun(r) ==
    /\ At(r, "create")
    /\ UNCHANGED excused
    /\ \/ To(r, "error") /\ UNCHANGED run
       \/ /\ Slot(exec[r].plan) = {}
          /\ \/ To(r, "ok") /\ SetRun(r, [NoRun EXCEPT !.status = "skipped", !.planned = TRUE])
             \/ To(r, "dispatch") /\ SetRun(r, [NoRun EXCEPT !.status = "pending", !.planned = TRUE])

\* One transaction creates the issue and links the run to it. A recent issue of the
\* autopilot with the same title, from whatever trigger, makes it a skip.
DispatchCreateIssue(r) ==
    /\ At(r, "dispatch")
    /\ mode = "create_issue"
    /\ UNCHANGED excused
    /\ \/ (To(r, "fail") \/ To(r, "skip")) /\ UNCHANGED run
       \/ /\ To(r, "enqueue")
          /\ SetRun(r, [MyRun(r) EXCEPT !.status = "pending", !.linked = TRUE])

\* EnqueueTaskForIssue or EnqueueTaskForSquadLeader.
EnqueueTask(r) ==
    /\ At(r, "enqueue")
    /\ UNCHANGED excused
    /\ \/ To(r, "fail") /\ UNCHANGED run
       \/ To(r, "ok") /\ SetRun(r, [MyRun(r) EXCEPT !.task = "queued"])

\* A leader that is gone or not ready makes it a skip.
DispatchRunOnly(r) ==
    /\ At(r, "dispatch")
    /\ mode = "run_only"
    /\ UNCHANGED excused
    /\ \/ (To(r, "fail") \/ To(r, "skip")) /\ UNCHANGED run
       \/ To(r, "link") /\ SetRun(r, [MyRun(r) EXCEPT !.task = "queued"])

\* An error is logged and the dispatch goes on.
UpdateAutopilotRunRunning(r) ==
    /\ At(r, "link")
    /\ UNCHANGED excused
    /\ To(r, "ok")
    /\ \/ UNCHANGED run
       \/ SetRun(r, [MyRun(r) EXCEPT !.status = "pending", !.linked = TRUE])

handleDispatchSkip(r) ==
    /\ At(r, "skip")
    /\ UNCHANGED excused
    /\ \/ To(r, "fail") /\ UNCHANGED run
       \/ To(r, "ok") /\ SetRun(r, [MyRun(r) EXCEPT !.status = "skipped"])

\* An error of the update is logged.
failRun(r) ==
    /\ At(r, "fail")
    /\ UNCHANGED excused
    /\ To(r, "error")
    /\ \/ UNCHANGED run
       \/ SetRun(r, [MyRun(r) EXCEPT !.status = "failed"])

\* The handler's outcome goes to the scheduler.
Return(r) ==
    /\ HandlerReturns(r, step[r])
    /\ step[r] \in {"ok", "error"}
    /\ To(r, "load")
    /\ UNCHANGED <<mode, run, excused, late>>

Dispatch(r) ==
    \/ Lookup(r) \/ RecoverPartialAutopilotRun(r) \/ CreateAutopilotRun(r)
    \/ DispatchCreateIssue(r) \/ EnqueueTask(r)
    \/ DispatchRunOnly(r) \/ UpdateAutopilotRunRunning(r)
    \/ handleDispatchSkip(r) \/ failRun(r)

-----------------------------------------------------------------------------
(* Around it                                                                *)

\* The run's task ends (SyncRunFromTask: by the run's id, whatever its status), or
\* the issue does (SyncRunFromIssue, SyncRunFromLinkedIssueTask: an active run).
SyncRun(p, a) ==
    /\ \/ mode = "run_only" /\ run[p][a].task = "queued"
       \/ mode = "create_issue" /\ run[p][a].linked /\ run[p][a].status = "pending"
    /\ \E verdict \in {"completed", "failed"} :
          run' = [run EXCEPT ![p][a] =
                    [@ EXCEPT !.status = verdict,
                              !.task = IF run[p][a].task = "queued"
                                       THEN "ended" ELSE run[p][a].task]]
    /\ UNCHANGED <<jobVars, mode, step, excused, late>>

\* The scheduler's own steps; a crash takes the handler with it.
Schedule(r) ==
    /\ JobStep(r)
    /\ step' = IF exec'[r].phase = "running" THEN step ELSE [step EXCEPT ![r] = "load"]
    /\ late' = IF job.planner = "autopilot" /\ exec'[r].late THEN late \cup {exec'[r].plan} ELSE late
    /\ UNCHANGED <<mode, run, excused>>

\* Handlers of the other jobs.
OtherHandler(r) ==
    /\ job.planner # "autopilot"
    /\ \E outcome \in {"ok", "error"} : HandlerReturns(r, outcome)
    /\ UNCHANGED dispatchVars

Next ==
    \/ \E r \in Runners : Dispatch(r) \/ Return(r) \/ Schedule(r) \/ OtherHandler(r)
    \/ \E p \in Plans, a \in Attempts : SyncRun(p, a)
    \/ Advance /\ UNCHANGED dispatchVars

Spec == Init /\ [][Next]_vars

-----------------------------------------------------------------------------
(* Properties                                                               *)

\* Type correctness.
TypeOK ==
    /\ JobTypeOK
    /\ mode \in {"create_issue", "run_only"}
    /\ run \in [Plans -> [Attempts -> Run]]
    /\ step \in [Runners -> Steps]
    /\ excused \subseteq Plans
    /\ late \subseteq Plans

\* An occurrence recorded as a success has been dispatched, or skipped, or has a
\* run: a run that a dead handler left half-made never passes for its dispatch. A
\* failed run is handed back by the retry, which then does nothing.
SuccessIsAccounted ==
    job.planner = "autopilot" =>
        \A p \in Plans : row[p].status = "SUCCESS" =>
            \/ p \in excused
            \/ \E a \in Attempts : \/ run[p][a].status \in {"completed", "failed", "skipped"}
                                   \/ run[p][a].linked
                                   \/ run[p][a].task # "none"

\* An occurrence makes one issue, however often its dispatch dies or is taken over,
\* unless a claim came so late in its tick that two handlers ran at once.
OneIssuePerOccurrence ==
    mode = "create_issue" =>
        \A p \in Plans : p \notin late =>
            Cardinality({a \in Attempts : run[p][a].linked}) <= 1

\* "The same planned occurrence cannot produce duplicate runs even under
\* stale-steal retries" (jobs_autopilot.go): an occurrence gets one task, even when
\* no claim was late.
OneTaskPerOccurrence ==
    \A p \in Plans : p \notin late =>
        Cardinality({a \in Attempts : run[p][a].task # "none"}) <= 1
=============================================================================
