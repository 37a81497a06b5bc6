-------------------------- MODULE TaskHistoryProofs --------------------------
(***************************************************************************)
(* Theorems about the history of a row of TaskQueue: who executes it, who  *)
(* may put it back, when a fallback wakes and how retries chain. They rest *)
(* on what one step may do to one row (TableStep) and to the executions    *)
(* (ExecStep), for any number of rows, claims and daemons.                 *)
(***************************************************************************)
EXTENDS TaskQueueProofs

-----------------------------------------------------------------------------
(* What one step does to one row                                            *)

\* The columns that are written once, by the insert.
KeepsKeys(t) ==
    /\ row'[t].attempt = row[t].attempt
    /\ row'[t].parent = row[t].parent
    /\ row'[t].primary = row[t].primary

\* The poll that holds the newest claim of the row is answering it.
HeldByPoll(t) ==
    \E p \in Pollers : /\ poll[p].pc = "respond"
                       /\ poll[p].task = t
                       /\ poll[p].claim = row[t].claim

StatusMoves(t) ==
    \/ row'[t].status = row[t].status
    \/ row[t].status = "deferred" /\ row'[t].status = "queued" /\ t \in due
    \/ row[t].status = "dispatched" /\ row'[t].status = "queued" /\ HeldByPoll(t)
    \/ row[t].status = "queued" /\ row'[t].status = "dispatched"
    \/ row[t].status = "dispatched" /\ row'[t].status = "waiting_local_directory"
    \/ row[t].status \in Active /\ row'[t].status = "running"
    \/ row[t].status = "running" /\ row'[t].status = "completed"
    \/ row[t].status \in Open /\ row'[t].status \in {"failed", "cancelled"}

\* A row that no failure has caused: a fallback starts out deferred.
Created(t) ==
    /\ row[t].status = "absent"
    /\ row'[t].parent = None
    /\ \/ row'[t].status = "deferred"
       \/ row'[t].status = "queued" /\ row'[t].primary = None

\* The auto-retry of t.
Child(c, t) ==
    /\ t \in retrying \ retrying'
    /\ row[c].status = "absent"
    /\ row'[c].status = "queued"
    /\ row'[c].parent = t
    /\ row'[c].primary = None
    /\ row'[c].attempt = row[t].attempt + 1

RowSteps == \A t \in Tasks : (KeepsKeys(t) /\ StatusMoves(t)) \/ Created(t)

RetrySteps ==
    \E c, t \in Tasks : Child(c, t) /\ \A u \in Tasks \ {c} : row'[u] = row[u]

\* Only rows that fail in this step start to wait for their auto-retry.
RetryingGrows ==
    \A t \in retrying' \ retrying : row[t].status \in Active \cup {"queued"}

TableStep ==
    /\ due \subseteq due'
    /\ RetryingGrows
    /\ RowSteps \/ RetrySteps

\* A bulk status change that every row of S is allowed.
LEMMA MovedKeys ==
    ASSUME TypeInv, NEW S \in SUBSET Tasks, NEW s, row' = Moved(S, s)
    PROVE  \A t \in Tasks :
             /\ KeepsKeys(t)
             /\ row'[t].status = IF t \in S THEN s ELSE row[t].status
<1> SUFFICES ASSUME NEW t \in Tasks
             PROVE  /\ KeepsKeys(t)
                    /\ row'[t].status = IF t \in S THEN s ELSE row[t].status
  OBVIOUS
<1>1. row[t] \in Row
  BY DEF TypeInv, TypeOK
<1>2. row'[t] = IF t \in S THEN [row[t] EXCEPT !.status = s, !.lease = FALSE]
                           ELSE row[t]
  BY DEF Moved
<1>. QED
  BY <1>1, <1>2 DEF KeepsKeys, Row

\* Rows end.
LEMMA EndedRows ==
    ASSUME TypeInv, NEW S \in SUBSET Tasks, NEW s \in {"failed", "cancelled"},
           \A t \in S : In(t, Open), row' = Moved(S, s)
    PROVE  RowSteps
  BY MovedKeys DEF RowSteps, StatusMoves, In

\* One row gets a status and a lease.
LEMMA LeasedKeys ==
    ASSUME TypeInv, NEW t \in Tasks, NEW s, NEW c, row' = Leased(t, s, c)
    PROVE  \A u \in Tasks :
             /\ KeepsKeys(u)
             /\ row'[u].status = IF u = t THEN s ELSE row[u].status
<1>. DEFINE new == [row[t] EXCEPT !.status = s, !.lease = TRUE, !.claim = c]
<1>1. row[t] \in Row /\ row \in [Tasks -> Row]
  BY DEF TypeInv, TypeOK
<1>2. /\ new.status = s
      /\ new.attempt = row[t].attempt
      /\ new.parent = row[t].parent
      /\ new.primary = row[t].primary
  BY <1>1 DEF Row
<1>3. row' = [row EXCEPT ![t] = new]
  BY DEF Leased
<1>. HIDE DEF new
<1>. QED
  BY <1>1, <1>2, <1>3 DEF KeepsKeys

\* A lease that comes or goes.
LEMMA LeaseKeys ==
    ASSUME TypeInv, NEW t \in Tasks, NEW b \in BOOLEAN,
           row' = [row EXCEPT ![t].lease = b]
    PROVE  RowSteps
<1>1. row \in [Tasks -> Row]
  BY DEF TypeInv, TypeOK
<1>. QED
  BY <1>1 DEF RowSteps, KeepsKeys, StatusMoves, Row

\* A step that leaves the table alone.
LEMMA SameTable == ASSUME UNCHANGED row PROVE RowSteps
  BY DEF RowSteps, KeepsKeys, StatusMoves

-----------------------------------------------------------------------------
(* Every step is such a step                                                *)

\* Enqueues create a row and leave the others.
LEMMA EnqueueTable == TypeInv /\ Enqueue => TableStep
<1> SUFFICES ASSUME TypeInv, Enqueue PROVE TableStep
  OBVIOUS
<1>1. row \in [Tasks -> Row]
  BY DEF TypeInv, TypeOK
<1>2. ASSUME NEW t \in Tasks, NEW a, NEW i, NEW r, NEW s, NEW primary,
             row[t].status = "absent",
             \/ s = "deferred"
             \/ s = "queued" /\ primary = None,
             row' = [row EXCEPT ![t] = NewRow(s, a, i, r, 1, None, primary)]
      PROVE  RowSteps
  <2>. DEFINE new == NewRow(s, a, i, r, 1, None, primary)
  <2>1. new.status = s /\ new.parent = None /\ new.primary = primary
    BY DEF NewRow
  <2>2. row' = [row EXCEPT ![t] = new]
    BY <1>2
  <2>. HIDE DEF new
  <2>. QED
    BY <1>1, <1>2, <2>1, <2>2 DEF RowSteps, KeepsKeys, StatusMoves, Created
<1>3. ASSUME NEW t \in Tasks, NEW a \in Agents, NEW i \in Issues,
             NEW r \in Runtimes,
             EnqueueTask(t, a, i, r) \/ EnqueueRoutedTask(t, a, i, r)
      PROVE  TableStep
  <2>1. /\ row[t].status = "absent"
        /\ row' = [row EXCEPT ![t] = NewRow("queued", a, i, r, 1, None, None)]
    BY <1>3 DEF EnqueueTask, EnqueueRoutedTask, Insert, In
  <2>2. RowSteps
    BY <1>2, <2>1
  <2>. QED
    BY <1>3, <2>2 DEF EnqueueTask, EnqueueRoutedTask, TableStep, RetryingGrows
<1>4. ASSUME NEW p \in Tasks, NEW t \in Tasks, NEW a \in Agents,
             NEW r \in Runtimes, EnqueueDeferredAssigneeFallback(p, t, a, r)
      PROVE  TableStep
  <2>1. /\ row[t].status = "absent"
        /\ row' = [row EXCEPT ![t] =
                      NewRow("deferred", a, row[p].issue, r, 1, None, p)]
    BY <1>4 DEF EnqueueDeferredAssigneeFallback, In
  <2>2. RowSteps
    BY <1>2, <2>1
  <2>. QED
    BY <1>4, <2>2 DEF EnqueueDeferredAssigneeFallback, TableStep, RetryingGrows
<1>5. ASSUME NEW t \in Tasks, FireTimeArrives(t)
      PROVE  TableStep
  BY <1>5, SameTable DEF FireTimeArrives, TableStep, RetryingGrows
<1>. QED
  BY <1>3, <1>4, <1>5 DEF Enqueue

\* Cancellations end open rows.
LEMMA CancelTable == TypeInv /\ Cancel => TableStep
<1> SUFFICES ASSUME TypeInv, Cancel PROVE TableStep
  OBVIOUS
<1>1. Active \cup {"queued"} \subseteq Open
  BY DEF Open
<1>2. {"deferred", "queued", "dispatched", "waiting_local_directory"} \subseteq Open
  BY DEF Open, Active
<1>3. \E S \in SUBSET Tasks : (\A t \in S : In(t, Open)) /\ CancelRows(S)
  BY <1>1, <1>2
  DEF Cancel, In, CancelTask, CancelTasksForIssue, CancelTasksForIssueAndAgent,
      CancelEscalationsForIssueAgent, CancelTasksForAgent,
      CancelTasksByRuntimeOrAgent
<1>. QED
  BY <1>3, EndedRows DEF CancelRows, TableStep, RetryingGrows

\* A poll promotes due rows, claims, reclaims and rolls back its own claim.
LEMMA ClaimTable == TypeInv /\ Claim => TableStep
<1> SUFFICES ASSUME TypeInv, Claim, UNCHANGED <<due, retrying>> PROVE RowSteps
  <2>1. Claim => UNCHANGED <<due, retrying>>
    BY DEF Claim, PollPromotes, ReclaimStaleDispatchedTask, ClaimTask,
           PollFindsNothing, FinalizeTaskClaim, RequeueTaskAfterClaimFailure,
           AbortPoll, LeaseExpires
  <2>. QED
    BY <2>1 DEF TableStep, RetryingGrows
<1>1. ASSUME NEW p \in Pollers, NEW r \in Runtimes, PollPromotes(p, r)
      PROVE  RowSteps
  <2>1. CASE UNCHANGED row
    BY <2>1, SameTable
  <2>2. CASE row' = Moved(DueOn(r), "queued")
    <3>1. /\ DueOn(r) \in SUBSET Tasks
          /\ \A t \in DueOn(r) : row[t].status = "deferred" /\ t \in due
      BY DEF DueOn, In, TypeInv, TypeOK
    <3>. QED
      BY <2>2, <3>1, MovedKeys DEF RowSteps, StatusMoves
  <2>. QED
    BY <1>1, <2>1, <2>2 DEF PollPromotes
<1>2. ASSUME NEW t \in Tasks, TakeClaim(t), row[t].status \in Pending
      PROVE  RowSteps
  <2>1. \A u \in Tasks :
          /\ KeepsKeys(u)
          /\ row'[u].status = IF u = t THEN "dispatched" ELSE row[u].status
    BY <1>2, LeasedKeys DEF TakeClaim
  <2>. QED
    BY <1>2, <2>1 DEF RowSteps, StatusMoves, Pending
<1>3. ASSUME NEW p \in Pollers, ReclaimStaleDispatchedTask(p)
      PROVE  RowSteps
  <2>1. CASE UNCHANGED row
    BY <2>1, SameTable
  <2>2. ASSUME NEW t \in StaleDispatched(poll[p].runtime), TakeClaim(t)
        PROVE  RowSteps
    BY <1>2, <2>2 DEF StaleDispatched, In, Pending
  <2>. QED
    BY <1>3, <2>1, <2>2 DEF ReclaimStaleDispatchedTask
<1>4. ASSUME NEW p \in Pollers, ClaimTask(p)
      PROVE  RowSteps
  <2>1. CASE UNCHANGED row
    BY <2>1, SameTable
  <2>2. ASSUME NEW a, NEW t \in Claimable(a), TakeClaim(t)
        PROVE  RowSteps
    BY <1>2, <2>2 DEF Claimable, In, Pending
  <2>. QED
    BY <1>4, <2>1, <2>2 DEF ClaimTask
<1>5. ASSUME NEW p \in Pollers,
             PollFindsNothing(p) \/ FinalizeTaskClaim(p) \/ AbortPoll(p)
      PROVE  RowSteps
  BY <1>5, SameTable DEF PollFindsNothing, FinalizeTaskClaim, AbortPoll
<1>6. ASSUME NEW p \in Pollers, RequeueTaskAfterClaimFailure(p)
      PROVE  RowSteps
  <2>1. CASE UNCHANGED row
    BY <2>1, SameTable
  <2>2. CASE HoldsClaim(p) /\ row' = Moved({poll[p].task}, "queued")
    <3>1. /\ poll[p].task \in Tasks
          /\ row[poll[p].task].status = "dispatched"
          /\ HeldByPoll(poll[p].task)
      BY <1>6, <2>2
      DEF RequeueTaskAfterClaimFailure, HoldsClaim, In, HeldByPoll, TypeInv,
          PollShape
    <3>2. \A t \in Tasks :
            /\ KeepsKeys(t)
            /\ row'[t].status = IF t \in {poll[p].task} THEN "queued"
                                                        ELSE row[t].status
      BY <2>2, <3>1, MovedKeys
    <3>. QED
      BY <3>1, <3>2 DEF RowSteps, StatusMoves
  <2>. QED
    BY <1>6, <2>1, <2>2 DEF RequeueTaskAfterClaimFailure
<1>7. ASSUME NEW t \in Tasks, LeaseExpires(t)
      PROVE  RowSteps
  BY <1>7, LeaseKeys DEF LeaseExpires
<1>. QED
  BY <1>1, <1>3, <1>4, <1>5, <1>6, <1>7 DEF Claim

\* An execution parks, starts, completes or fails its own row.
LEMMA ExecuteTable == TypeInv /\ Execute => TableStep
<1> SUFFICES ASSUME TypeInv, Execute PROVE TableStep
  OBVIOUS
<1>1. \A e \in exec : e.task \in Tasks
  BY DEF TypeInv, TypeOK, Exec
<1>2. UNCHANGED due
  BY DEF Execute, ExtendTaskPrepareLease, MarkTaskWaitingLocalDirectory,
         StartTask, StartAcknowledged, LoseStartResponse, AbandonStart,
         AgentFinishes, InterruptAgent, CompleteTask, FailTask, GiveUpReport,
         CancelDeferredEscalationsForTask
<1>3. ASSUME UNCHANGED retrying, RowSteps PROVE TableStep
  BY <1>2, <1>3 DEF TableStep, RetryingGrows
<1>4. ASSUME NEW e \in exec, ExtendTaskPrepareLease(e)
      PROVE  TableStep
  BY <1>1, <1>3, <1>4, LeaseKeys DEF ExtendTaskPrepareLease
<1>5. ASSUME NEW e \in exec, MarkTaskWaitingLocalDirectory(e)
      PROVE  TableStep
  <2>1. CASE UNCHANGED row
    BY <1>3, <1>5, <2>1, SameTable DEF MarkTaskWaitingLocalDirectory
  <2>2. CASE /\ In(e.task, {"dispatched"})
             /\ row' = Leased(e.task, "waiting_local_directory",
                              row[e.task].claim)
    <3>1. \A u \in Tasks :
            /\ KeepsKeys(u)
            /\ row'[u].status = IF u = e.task THEN "waiting_local_directory"
                                              ELSE row[u].status
      BY <1>1, <2>2, LeasedKeys
    <3>2. RowSteps
      BY <2>2, <3>1 DEF RowSteps, StatusMoves, In
    <3>. QED
      BY <1>3, <1>5, <3>2 DEF MarkTaskWaitingLocalDirectory
  <2>. QED
    BY <1>5, <2>1, <2>2 DEF MarkTaskWaitingLocalDirectory
<1>6. ASSUME NEW e \in exec, StartTask(e)
      PROVE  TableStep
  <2>1. CASE UNCHANGED row
    BY <1>3, <1>6, <2>1, SameTable DEF StartTask
  <2>2. CASE Startable(e.task) /\ row' = Moved({e.task}, "running")
    <3>1. \A t \in Tasks :
            /\ KeepsKeys(t)
            /\ row'[t].status = IF t \in {e.task} THEN "running"
                                                  ELSE row[t].status
      BY <1>1, <2>2, MovedKeys
    <3>2. RowSteps
      BY <2>2, <3>1 DEF RowSteps, StatusMoves, Startable, In, Active
    <3>. QED
      BY <1>3, <1>6, <3>2 DEF StartTask
  <2>. QED
    BY <1>6, <2>1, <2>2 DEF StartTask
<1>7. ASSUME NEW e \in exec,
             \/ StartAcknowledged(e)
             \/ LoseStartResponse(e)
             \/ AbandonStart(e)
             \/ AgentFinishes(e)
             \/ InterruptAgent(e)
             \/ GiveUpReport(e)
      PROVE  TableStep
  BY <1>3, <1>7, SameTable
  DEF StartAcknowledged, LoseStartResponse, AbandonStart, AgentFinishes,
      InterruptAgent, GiveUpReport
<1>8. ASSUME NEW e \in exec, CompleteTask(e)
      PROVE  TableStep
  <2>1. CASE UNCHANGED row
    BY <1>3, <1>8, <2>1, SameTable DEF CompleteTask
  <2>2. CASE In(e.task, {"running"}) /\ row' = Moved({e.task}, "completed")
    <3>1. \A t \in Tasks :
            /\ KeepsKeys(t)
            /\ row'[t].status = IF t \in {e.task} THEN "completed"
                                                  ELSE row[t].status
      BY <1>1, <2>2, MovedKeys
    <3>2. RowSteps
      BY <2>2, <3>1 DEF RowSteps, StatusMoves, In
    <3>. QED
      BY <1>3, <1>8, <3>2 DEF CompleteTask
  <2>. QED
    BY <1>8, <2>1, <2>2 DEF CompleteTask
<1>9. ASSUME NEW e \in exec, FailTask(e)
      PROVE  TableStep
  <2>1. CASE UNCHANGED <<row, retrying>>
    BY <1>3, <2>1, SameTable
  <2>2. CASE /\ Failable(e.task)
             /\ row' = Moved({e.task}, "failed")
             /\ retrying' \subseteq retrying \cup WithinBudget({e.task})
    <3>1. {e.task} \in SUBSET Tasks /\ \A t \in {e.task} : In(t, Open)
      BY <1>1, <2>2 DEF Failable, In, Open
    <3>2. RowSteps
      BY <2>2, <3>1, EndedRows
    <3>3. RetryingGrows
      BY <2>2 DEF RetryingGrows, WithinBudget, Failable, In
    <3>. QED
      BY <1>2, <3>2, <3>3 DEF TableStep
  <2>. QED
    BY <1>9, <2>1, <2>2 DEF FailTask
<1>10. ASSUME NEW t \in Tasks, CancelDeferredEscalationsForTask(t)
       PROVE  TableStep
  <2>. DEFINE S == {u \in Tasks :
                     /\ row[u].primary = t
                     /\ In(u, {"deferred", "queued", "dispatched",
                               "waiting_local_directory"})}
  <2>1. S \in SUBSET Tasks /\ \A u \in S : In(u, Open)
    BY DEF In, Open, Active
  <2>2. row' = Moved(S, "cancelled") /\ UNCHANGED retrying
    BY <1>10 DEF CancelDeferredEscalationsForTask
  <2>. HIDE DEF S
  <2>. QED
    BY <1>3, <2>1, <2>2, EndedRows
<1>. QED
  BY <1>4, <1>5, <1>6, <1>7, <1>8, <1>9, <1>10 DEF Execute

\* Sweepers and orphan recovery fail rows, the auto-retry continues one.
LEMMA RecoverTable == TypeInv /\ Recover => TableStep
<1> SUFFICES ASSUME TypeInv, Recover PROVE TableStep
  OBVIOUS
<1>1. UNCHANGED due
  BY DEF Recover, MaybeRetryFailedTask, ExpireStaleQueuedTask, AbortHandler,
         FailStaleTasks, FailTasksForOfflineRuntimes, MarkRuntimeOffline,
         Heartbeat, DaemonCrash, RegisterDaemon, RecoverOrphans, SkipRecovery
<1>2. ASSUME retrying' \subseteq retrying, RowSteps PROVE TableStep
  BY <1>1, <1>2 DEF TableStep, RetryingGrows
<1>3. ASSUME NEW S \in SUBSET Tasks, \A t \in S : In(t, Active), FailRows(S)
      PROVE  TableStep
  <2>1. RowSteps
    BY <1>3, EndedRows DEF FailRows, In, Open
  <2>2. RetryingGrows
    BY <1>3 DEF FailRows, RetryingGrows, WithinBudget, In
  <2>. QED
    BY <1>1, <2>1, <2>2 DEF TableStep
<1>4. ASSUME NEW t \in Tasks, MaybeRetryFailedTask(t)
      PROVE  TableStep
  <2>. USE DEF MaybeRetryFailedTask
  <2>1. t \in retrying /\ retrying' = retrying \ {t}
    BY <1>4
  <2>2. CASE UNCHANGED row
    BY <1>2, <2>1, <2>2, SameTable
  <2>3. ASSUME NEW c \in Tasks, In(c, {"absent"}),
               row' = [row EXCEPT ![c] =
                         NewRow("queued", row[t].agent, row[t].issue,
                                row[t].runtime, row[t].attempt + 1, t, None)]
        PROVE  TableStep
    <3>. DEFINE new == NewRow("queued", row[t].agent, row[t].issue,
                              row[t].runtime, row[t].attempt + 1, t, None)
    <3>1. /\ new.status = "queued"
          /\ new.parent = t
          /\ new.primary = None
          /\ new.attempt = row[t].attempt + 1
      BY DEF NewRow
    <3>2. row' = [row EXCEPT ![c] = new] /\ row \in [Tasks -> Row]
      BY <2>3 DEF TypeInv, TypeOK
    <3>. HIDE DEF new
    <3>3. Child(c, t) /\ \A u \in Tasks \ {c} : row'[u] = row[u]
      BY <2>1, <2>3, <3>1, <3>2 DEF Child, In
    <3>4. RetryingGrows
      BY <2>1 DEF RetryingGrows
    <3>. QED
      BY <1>1, <3>3, <3>4 DEF TableStep, RetrySteps
  <2>. QED
    BY <1>4, <2>2, <2>3
<1>5. ASSUME NEW t \in Tasks, ExpireStaleQueuedTask(t)
      PROVE  TableStep
  <2>1. {t} \in SUBSET Tasks /\ \A u \in {t} : In(u, Open)
    BY <1>5 DEF ExpireStaleQueuedTask, In, Open
  <2>. QED
    BY <1>2, <1>5, <2>1, EndedRows DEF ExpireStaleQueuedTask
<1>6. CASE AbortHandler
  BY <1>2, <1>6, SameTable DEF AbortHandler
<1>7. ASSUME NEW S \in SUBSET Unattended, FailStaleTasks(S)
      PROVE  TableStep
  BY <1>3, <1>7 DEF FailStaleTasks, Unattended, In, Active
<1>8. CASE FailTasksForOfflineRuntimes
  BY <1>3, <1>8 DEF FailTasksForOfflineRuntimes
<1>9. ASSUME NEW r \in Runtimes, RecoverOrphans(r)
      PROVE  TableStep
  BY <1>3, <1>9 DEF RecoverOrphans
<1>10. ASSUME NEW r \in Runtimes,
              \/ MarkRuntimeOffline(r)
              \/ Heartbeat(r)
              \/ DaemonCrash(r)
              \/ RegisterDaemon(r)
              \/ SkipRecovery(r)
       PROVE  TableStep
  BY <1>2, <1>10, SameTable
  DEF MarkRuntimeOffline, Heartbeat, DaemonCrash, RegisterDaemon, SkipRecovery
<1>. QED
  BY <1>4, <1>5, <1>6, <1>7, <1>8, <1>9, <1>10 DEF Recover

\* So every step of the queue is one of these.
LEMMA TableLemma == TypeInv /\ [Next]_vars => TableStep
<1> SUFFICES ASSUME TypeInv, [Next]_vars PROVE TableStep
  OBVIOUS
<1>1. CASE UNCHANGED vars
  BY <1>1, SameTable DEF vars, TableStep, RetryingGrows
<1>2. CASE Next
  BY <1>2, EnqueueTable, CancelTable, ClaimTable, ExecuteTable, RecoverTable
  DEF Next
<1>. QED
  BY <1>1, <1>2

-----------------------------------------------------------------------------
(* What one step does to the executions                                     *)

\* Past StartTask, as far as the daemon knows.
Began(e) == e.phase \in {"starting", "working", "completing"}

\* Nothing begins.
NothingBegins == \A e \in exec' : Began(e) => e \in exec

\* An execution begins with the UPDATE of StartTask on its row.
Begins(e) ==
    /\ Startable(e.task)
    /\ row'[e.task].status = "running"
    /\ exec' = (exec \ {e}) \cup {[e EXCEPT !.phase = "starting"]}

\* An execution that has begun goes on.
GoesOn(e, ph) ==
    /\ Began(e)
    /\ exec' = (exec \ {e}) \cup {[e EXCEPT !.phase = ph]}

ExecStep ==
    \/ NothingBegins
    \/ \E e \in exec : Begins(e) \/ \E ph \in Phases : GoesOn(e, ph)

\* Every step of the queue, as the executions see it.
LEMMA ExecLemma == TypeInv /\ [Next]_vars => ExecStep
<1> SUFFICES ASSUME TypeInv, [Next]_vars PROVE ExecStep
  OBVIOUS
<1>1. \A e \in exec : e \in Exec
  BY DEF TypeInv, TypeOK
<1>2. ASSUME exec' \subseteq exec PROVE ExecStep
  BY <1>2 DEF ExecStep, NothingBegins
<1>3. ASSUME NEW e \in exec, NEW ph \in Phases, MoveExec(e, ph),
             Began(e) \/ ph \in {"parked", "failing", "failingRetryable"}
      PROVE  ExecStep
  <2>1. CASE Began(e)
    BY <1>3, <2>1 DEF ExecStep, GoesOn, MoveExec
  <2>2. CASE ph \in {"parked", "failing", "failingRetryable"}
    <3>1. [e EXCEPT !.phase = ph].phase = ph
      BY <1>1 DEF Exec
    <3>2. ~Began([e EXCEPT !.phase = ph])
      BY <2>2, <3>1 DEF Began
    <3>3. exec' = (exec \ {e}) \cup {[e EXCEPT !.phase = ph]}
      BY <1>3 DEF MoveExec
    <3>. QED
      BY <3>2, <3>3 DEF ExecStep, NothingBegins
  <2>. QED
    BY <1>3, <2>1, <2>2
<1>4. CASE UNCHANGED vars
  BY <1>2, <1>4 DEF vars
<1>5. CASE Enqueue
  BY <1>2, <1>5 DEF Enqueue, EnqueueTask, EnqueueRoutedTask,
                    EnqueueDeferredAssigneeFallback, FireTimeArrives
<1>6. CASE Cancel
  BY <1>2, <1>6
  DEF Cancel, CancelTask, CancelTasksForIssue, CancelTasksForIssueAndAgent,
      CancelEscalationsForIssueAgent, CancelTasksForAgent,
      CancelTasksByRuntimeOrAgent, CancelRows
<1>7. CASE Claim
  <2>1. ASSUME NEW p \in Pollers, FinalizeTaskClaim(p)
        PROVE  ExecStep
    <3>1. exec' = exec \cup {[task |-> poll[p].task, claim |-> poll[p].claim,
                              phase |-> "preparing"]}
      BY <2>1 DEF FinalizeTaskClaim
    <3>. QED
      BY <3>1 DEF ExecStep, NothingBegins, Began
  <2>2. ASSUME NEW p \in Pollers,
               \/ \E r \in Runtimes : PollPromotes(p, r)
               \/ ReclaimStaleDispatchedTask(p)
               \/ ClaimTask(p)
               \/ PollFindsNothing(p)
               \/ RequeueTaskAfterClaimFailure(p)
               \/ AbortPoll(p)
        PROVE  exec' = exec
    BY <2>2
    DEF PollPromotes, ReclaimStaleDispatchedTask, ClaimTask, PollFindsNothing,
        RequeueTaskAfterClaimFailure, AbortPoll
  <2>3. ASSUME NEW t \in Tasks, LeaseExpires(t) PROVE exec' = exec
    BY <2>3 DEF LeaseExpires
  <2>. QED
    BY <1>2, <1>7, <2>1, <2>2, <2>3 DEF Claim
<1>8. CASE Execute
  <2>1. ASSUME NEW e \in exec,
               \/ MarkTaskWaitingLocalDirectory(e)
               \/ StartAcknowledged(e)
               \/ LoseStartResponse(e)
               \/ AbandonStart(e)
               \/ AgentFinishes(e)
        PROVE  ExecStep
    <3>1. \E ph \in Phases :
            /\ MoveExec(e, ph)
            /\ Began(e) \/ ph \in {"parked", "failing", "failingRetryable"}
      BY <2>1
      DEF MarkTaskWaitingLocalDirectory, StartAcknowledged, LoseStartResponse,
          AbandonStart, AgentFinishes, Phases, Began
    <3>. QED
      BY <1>3, <3>1
  <2>2. ASSUME NEW e \in exec, StartTask(e)
        PROVE  ExecStep
    <3>1. CASE ~Startable(e.task)
      <4>1. MoveExec(e, "failing") /\ "failing" \in Phases
        BY <2>2, <3>1 DEF StartTask, Phases
      <4>. QED
        BY <1>3, <4>1
    <3>2. CASE Startable(e.task)
      <4>1. row' = Moved({e.task}, "running") /\ MoveExec(e, "starting")
        BY <2>2, <3>2 DEF StartTask
      <4>2. e.task \in Tasks
        BY <1>1 DEF Exec
      <4>3. row'[e.task].status = "running"
        BY <4>1, <4>2, MovedKeys
      <4>. QED
        BY <3>2, <4>1, <4>3 DEF ExecStep, Begins, MoveExec
    <3>. QED
      BY <3>1, <3>2
  <2>3. ASSUME NEW e \in exec,
               \/ ExtendTaskPrepareLease(e)
               \/ InterruptAgent(e)
               \/ CompleteTask(e)
               \/ FailTask(e)
               \/ GiveUpReport(e)
        PROVE  exec' \subseteq exec
    BY <2>3
    DEF ExtendTaskPrepareLease, InterruptAgent, CompleteTask, FailTask,
        GiveUpReport
  <2>4. ASSUME NEW t \in Tasks, CancelDeferredEscalationsForTask(t)
        PROVE  exec' = exec
    BY <2>4 DEF CancelDeferredEscalationsForTask
  <2>. QED
    BY <1>2, <1>8, <2>1, <2>2, <2>3, <2>4 DEF Execute
<1>9. CASE Recover
  <2>1. exec' \subseteq exec
    BY <1>9
    DEF Recover, MaybeRetryFailedTask, ExpireStaleQueuedTask, AbortHandler,
        FailStaleTasks, FailTasksForOfflineRuntimes, MarkRuntimeOffline,
        Heartbeat, DaemonCrash, RegisterDaemon, RecoverOrphans, SkipRecovery
  <2>. QED
    BY <1>2, <2>1
<1>. QED
  BY <1>4, <1>5, <1>6, <1>7, <1>8, <1>9 DEF Next

-----------------------------------------------------------------------------
(* Executions of a row                                                      *)

\* The row of an execution that has begun is running or final, so it cannot be
\* started again, and nobody else has begun it.
BeganInv ==
    /\ \A e \in exec : Began(e) => In(e.task, {"running"} \cup Terminal)
    /\ OneExecutionPastStart

\* A row that runs or is final never leaves these states.
LEMMA RunningStays ==
    ASSUME TableStep, NEW t \in Tasks, In(t, {"running"} \cup Terminal)
    PROVE  row'[t].status \in {"running"} \cup Terminal
  BY DEF TableStep, RowSteps, RetrySteps, StatusMoves, Created, Child, In,
         Terminal, Open, Active

\* The inductive step: only StartTask lets an execution begin, and it finds the
\* row neither running nor final.
LEMMA BeganStep == TypeInv /\ BeganInv /\ [Next]_vars => BeganInv'
<1> SUFFICES ASSUME TypeInv, BeganInv, [Next]_vars PROVE BeganInv'
  OBVIOUS
<1>1. TableStep /\ ExecStep
  BY TableLemma, ExecLemma
<1>2. \A e \in exec : e \in Exec /\ e.task \in Tasks
  BY DEF TypeInv, TypeOK, Exec
<1>3. ASSUME NEW e \in exec, Began(e)
      PROVE  row'[e.task].status \in {"running"} \cup Terminal
  BY <1>1, <1>2, <1>3, RunningStays DEF BeganInv
<1>4. ASSUME NEW e \in exec, NEW f \in exec, Began(e), Began(f), e.task = f.task
      PROVE  e = f
  BY <1>4 DEF BeganInv, OneExecutionPastStart, Began
<1>5. ASSUME \A e \in exec' : Began(e) => In(e.task, {"running"} \cup Terminal)',
             \A e, f \in exec' : Began(e) /\ Began(f) /\ e.task = f.task => e = f
      PROVE  BeganInv'
  BY <1>5 DEF BeganInv, OneExecutionPastStart, Began
<1>6. CASE NothingBegins
  BY <1>3, <1>4, <1>5, <1>6 DEF NothingBegins, In
<1>7. ASSUME NEW e \in exec, Begins(e)
      PROVE  BeganInv'
  <2>. DEFINE new == [e EXCEPT !.phase = "starting"]
  <2>1. new.task = e.task
    BY <1>2 DEF Exec
  <2>2. exec' = (exec \ {e}) \cup {new}
    BY <1>7 DEF Begins
  <2>. HIDE DEF new
  <2>3. \A f \in exec : Began(f) => f.task # e.task
    BY <1>7 DEF BeganInv, Begins, Startable, In, Terminal
  <2>4. row'[e.task].status = "running"
    BY <1>7 DEF Begins
  <2>. QED
    BY <1>3, <1>4, <1>5, <2>1, <2>2, <2>3, <2>4 DEF In
<1>8. ASSUME NEW e \in exec, NEW ph \in Phases, GoesOn(e, ph)
      PROVE  BeganInv'
  <2>. DEFINE new == [e EXCEPT !.phase = ph]
  <2>1. new.task = e.task
    BY <1>2 DEF Exec
  <2>2. exec' = (exec \ {e}) \cup {new} /\ Began(e)
    BY <1>8 DEF GoesOn
  <2>. HIDE DEF new
  <2>3. \A f \in exec \ {e} : Began(f) => f.task # e.task
    BY <1>4, <2>2
  <2>. QED
    BY <1>3, <1>4, <1>5, <2>1, <2>2, <2>3 DEF In
<1>. QED
  BY <1>1, <1>6, <1>7, <1>8 DEF ExecStep

\* The two invariants hold of every behaviour.
LEMMA BeganInvariant == Spec => []BeganInv
<1>1. Init => BeganInv
  BY DEF Init, BeganInv, OneExecutionPastStart
<1>. QED
  BY TypeInvariant, <1>1, BeganStep, PTL DEF Spec

\* A row an agent process works on is running or final: no reclaim, requeue or
\* promotion hands it out again (StartTask's guard and the statuses they read).
THEOREM NeverReissued == Spec => []WorkingNeverReissued
<1>1. BeganInv => WorkingNeverReissued
  BY DEF BeganInv, WorkingNeverReissued, Began
<1>. QED
  BY BeganInvariant, <1>1, PTL

\* However often a row is claimed, reclaimed and requeued, StartTask lets one of
\* its executions through.
THEOREM OneStart == Spec => []OneExecutionPastStart
<1>1. BeganInv => OneExecutionPastStart
  BY DEF BeganInv
<1>. QED
  BY BeganInvariant, <1>1, PTL

-----------------------------------------------------------------------------
(* Rollback, fallbacks and retries                                          *)

\* Only the poll that holds the newest claim of a row returns it to the queue
\* (RequeueTaskAfterClaimFailure compares dispatched_at).
THEOREM Rollback == Spec => RollbackOwnClaimOnly
<1>1. ASSUME TypeInv, [Next]_vars
      PROVE  \A t \in Tasks :
               In(t, {"dispatched"}) /\ row'[t].status = "queued" =>
                  \E p \in Pollers : /\ poll[p].pc = "respond"
                                     /\ poll[p].task = t
                                     /\ poll[p].claim = row[t].claim
  <2>1. TableStep
    BY <1>1, TableLemma
  <2>. QED
    BY <2>1 DEF TableStep, RowSteps, RetrySteps, StatusMoves, Created, Child,
                HeldByPoll, In
<1>. QED
  BY TypeInvariant, <1>1, PTL DEF Spec, RollbackOwnClaimOnly

\* No fallback is queued or handed out before its fire time: only the promotion
\* of due rows takes one out of "deferred" alive.
THEOREM Fallback == Spec => []FallbackWaits
<1>1. Init => FallbackWaits
  BY DEF Init, FallbackWaits, AbsentRow, NewRow
<1>2. ASSUME TypeInv, FallbackWaits, [Next]_vars
      PROVE  FallbackWaits'
  <2>1. TableStep
    BY <1>2, TableLemma
  <2>2. ASSUME NEW t \in Tasks, KeepsKeys(t), StatusMoves(t),
               row'[t].primary # None, row'[t].status \in Active \cup {"queued"}
        PROVE  t \in due
    BY <1>2, <2>2 DEF FallbackWaits, KeepsKeys, StatusMoves, In, Active
  <2>3. ASSUME NEW t \in Tasks,
               row'[t].primary # None, row'[t].status \in Active \cup {"queued"}
        PROVE  t \in due
    <3>1. CASE RowSteps
      BY <2>2, <2>3, <3>1 DEF RowSteps, Created, Active
    <3>2. CASE RetrySteps
      BY <1>2, <2>3, <3>2 DEF RetrySteps, Child, FallbackWaits, In
    <3>. QED
      BY <2>1, <3>1, <3>2 DEF TableStep
  <2>. QED
    BY <2>1, <2>3 DEF TableStep, FallbackWaits, In
<1>. QED
  BY TypeInvariant, <1>1, <1>2, PTL DEF Spec

\* RetryChains made inductive: a row that does not exist has no parent.
ChainInv ==
    /\ RetryChains
    /\ \A t \in Tasks : row[t].status = "absent" => row[t].parent = None

\* The inductive step: a retried row has failed, stays so and leaves "retrying".
LEMMA ChainStep == TypeInv /\ ChainInv /\ [Next]_vars => ChainInv'
<1> SUFFICES ASSUME TypeInv, ChainInv, [Next]_vars PROVE ChainInv'
  OBVIOUS
<1>1. TableStep
  BY TableLemma
<1>2. /\ \A c \in Tasks : row[c].parent \in Tasks \cup {None}
      /\ None \notin Tasks
      /\ retrying \subseteq Tasks
  BY NoneAssumption DEF TypeInv, TypeOK, Row
<1>3. ASSUME NEW p \in Tasks, row[p].status = "failed"
      PROVE  /\ row'[p].status = "failed"
             /\ row'[p].attempt = row[p].attempt
             /\ p \in retrying' => p \in retrying
  BY <1>1, <1>3
  DEF TableStep, RowSteps, RetrySteps, KeepsKeys, StatusMoves, Created, Child,
      RetryingGrows, Open, Active
<1>4. CASE RowSteps
  <2>1. \A t \in Tasks :
          /\ row'[t].parent # None => /\ row'[t].parent = row[t].parent
                                      /\ row'[t].attempt = row[t].attempt
          /\ row'[t].status = "absent" => row'[t].parent = None
    BY <1>4 DEF RowSteps, KeepsKeys, StatusMoves, Created, ChainInv
  <2>. QED
    BY <1>2, <1>3, <2>1 DEF ChainInv, RetryChains
<1>5. ASSUME NEW c \in Tasks, NEW t \in Tasks, Child(c, t),
             \A u \in Tasks \ {c} : row'[u] = row[u]
      PROVE  ChainInv'
  <2>1. row[t].status = "failed" /\ t # c /\ t \in retrying /\ t \notin retrying'
    BY <1>5 DEF Child, TypeInv, RetryBudget
  <2>2. \A d \in Tasks : row[d].parent # t
    BY <1>2, <2>1 DEF ChainInv, RetryChains
  <2>3. \A d \in Tasks : row'[d].parent = t => d = c
    BY <1>5, <2>2
  <2>. DEFINE Good(d) == /\ row'[row'[d].parent].status = "failed"
                         /\ row'[d].attempt = row'[row'[d].parent].attempt + 1
                         /\ row'[d].parent \notin retrying'
                         /\ \A f \in Tasks : row'[f].parent = row'[d].parent => f = d
  <2>4. Good(c)
    BY <1>3, <1>5, <2>1, <2>3 DEF Child
  <2>5. ASSUME NEW d \in Tasks \ {c}, row'[d].parent # None PROVE Good(d)
    <3>1. /\ row'[d].parent = row[d].parent
          /\ row'[d].attempt = row[d].attempt
          /\ row[d].parent \in Tasks
          /\ row[d].parent # t
      BY <1>2, <1>5, <2>2, <2>5
    <3>2. /\ row[row[d].parent].status = "failed"
          /\ row[d].attempt = row[row[d].parent].attempt + 1
          /\ row[d].parent \notin retrying
          /\ \A f \in Tasks : row[f].parent = row[d].parent => f = d
      BY <2>5, <3>1, <1>2 DEF ChainInv, RetryChains
    <3>3. \A f \in Tasks : row'[f].parent = row[d].parent => f = d
      BY <1>5, <3>1, <3>2 DEF Child
    <3>. QED
      BY <1>3, <3>1, <3>2, <3>3
  <2>6. RetryChains'
    BY <2>4, <2>5 DEF RetryChains
  <2>7. \A u \in Tasks : row'[u].status = "absent" => row'[u].parent = None
    BY <1>5 DEF ChainInv, Child
  <2>. QED
    BY <2>6, <2>7 DEF ChainInv
<1>. QED
  BY <1>1, <1>4, <1>5 DEF TableStep, RetrySteps

\* However many times a failure is reported, swept and recovered, a failed row
\* has at most one retry, which is its next attempt (MaybeRetryFailedTask).
THEOREM Chains == Spec => []RetryChains
<1>1. Init => ChainInv
  BY DEF Init, ChainInv, RetryChains, AbsentRow, NewRow
<1>2. ChainInv => RetryChains
  BY DEF ChainInv
<1>. QED
  BY TypeInvariant, <1>1, <1>2, ChainStep, PTL DEF Spec
=============================================================================
