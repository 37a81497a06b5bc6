----------------------------- MODULE TaskQueue -----------------------------
(***************************************************************************)
(* The agent task queue: the table agent_task_queue, the server handlers   *)
(* that move its rows (enqueue, poll, claim, start, finish, cancel), the   *)
(* background sweepers, and the daemon that executes claimed tasks.        *)
(*                                                                         *)
(* One step is one database statement or transaction, so everything the    *)
(* code does between two of them can be interleaved with everybody else.   *)
(* A poll that reaches the server keeps running there after its client     *)
(* has timed out or died: that is why several pollers may serve one        *)
(* runtime.                                                                *)
(*                                                                         *)
(* The operators marked "mutated" are plausible mistakes in the definition *)
(* that follows them; nothing uses them but the mutation of that one.      *)
(***************************************************************************)
EXTENDS Naturals, FiniteSets

CONSTANTS
    Tasks,          \* identities of the rows that may ever be created
    Agents,
    Issues,
    Runtimes,
    Pollers,        \* claim requests being served by the API server
    None,           \* SQL NULL
    Capacity,       \* [Agents -> Nat], agent.max_concurrent_tasks
    MaxAttempts,    \* agent_task_queue.max_attempts
    MaxClaims       \* bound of the model on the claims of one row

ASSUME NoneAssumption == None \notin Tasks \cup Agents \cup Issues \cup Runtimes
ASSUME BoundsAssumption ==
    /\ Capacity \in [Agents -> Nat]
    /\ MaxAttempts \in Nat \ {0}
    /\ MaxClaims \in Nat

VARIABLES
    row,        \* the table: [Tasks -> Row]
    due,        \* deferred rows whose fire_at has passed
    poll,       \* [Pollers -> state of a claim request in the server]
    exec,       \* executions inside the daemons
    daemonUp,   \* runtimes whose daemon process is alive
    offline,    \* runtimes the server has marked offline
    retrying,   \* failed rows whose handler has yet to try the auto-retry
    acking,     \* started rows whose handler has yet to cancel escalations
    routing     \* primary rows whose handler has yet to insert the fallback

vars == <<row, due, poll, exec, daemonUp, offline, retrying, acking, routing>>

-----------------------------------------------------------------------------
(* Rows *)

Active   == {"dispatched", "running", "waiting_local_directory"}
Pending  == {"queued", "dispatched"}
Terminal == {"completed", "failed", "cancelled"}
Open     == Active \cup {"queued", "deferred"}
Status   == {"absent"} \cup Open \cup Terminal

\* "claim" counts the claims of the row and stands for dispatched_at, "lease"
\* says that prepare_lease_expires_at lies in the future.
Row == [status: Status, agent: Agents \cup {None}, issue: Issues \cup {None},
        runtime: Runtimes \cup {None}, attempt: 0 .. MaxAttempts,
        parent: Tasks \cup {None}, primary: Tasks \cup {None},
        claim: 0 .. MaxClaims, lease: BOOLEAN]

NewRow(s, a, i, r, attempt, parent, primary) ==
    [status |-> s, agent |-> a, issue |-> i, runtime |-> r, attempt |-> attempt,
     parent |-> parent, primary |-> primary, claim |-> 0, lease |-> FALSE]

AbsentRow == NewRow("absent", None, None, None, 0, None, None)

In(t, S) == row[t].status \in S

SamePair(t, u) == row[t].agent = row[u].agent /\ row[t].issue = row[u].issue

ActiveOf(a) == {t \in Tasks : row[t].agent = a /\ In(t, Active)}

\* The unique index: a pair (issue, agent) has no row in Pending.
NonePending(i, a) ==
    \A t \in Tasks : row[t].issue = i /\ row[t].agent = a => ~In(t, Pending)

\* Rewrites the rows of S with status s, dropping their prepare lease.
Moved(S, s) ==
    [t \in Tasks |-> IF t \in S THEN [row[t] EXCEPT !.status = s, !.lease = FALSE]
                                ELSE row[t]]

\* Puts a row in status s with a fresh prepare lease.
Leased(t, s, claim) ==
    [row EXCEPT ![t] = [row[t] EXCEPT !.status = s, !.lease = TRUE,
                                      !.claim = claim]]

-----------------------------------------------------------------------------
(* Executions inside the daemon, one for every claim response received *)

Phases == {"preparing", "parked", "starting", "working", "completing",
           "failing", "failingRetryable"}
Exec   == [task: Tasks, claim: 0 .. MaxClaims, phase: Phases]

MoveExec(e, ph) == exec' = (exec \ {e}) \cup {[e EXCEPT !.phase = ph]}

-----------------------------------------------------------------------------
(* Claim requests in the server *)

IdlePoll == [pc |-> "idle", runtime |-> None, tried |-> {}, task |-> None,
             claim |-> 0]
PollPc   == {"idle", "reclaim", "claim", "respond"}
Poll     == [pc: PollPc, runtime: Runtimes \cup {None}, tried: SUBSET Agents,
             task: Tasks \cup {None}, claim: 0 .. MaxClaims]

Init ==
    /\ row = [t \in Tasks |-> AbsentRow]
    /\ due = {}
    /\ poll = [p \in Pollers |-> IdlePoll]
    /\ exec = {}
    /\ daemonUp = Runtimes
    /\ offline = {}
    /\ retrying = {}
    /\ acking = {}
    /\ routing = {}

-----------------------------------------------------------------------------
(* Enqueue *)

\* The insert of CreateAgentTask: refused by the unique index when the pair
\* already has a pending row.
Insert(t, a, i, r) ==
    /\ In(t, {"absent"})
    /\ NonePending(i, a)
    /\ row' = [row EXCEPT ![t] = NewRow("queued", a, i, r, 1, None, None)]

EnqueueTask(t, a, i, r) ==
    /\ Insert(t, a, i, r)
    /\ UNCHANGED <<due, poll, exec, daemonUp, offline, retrying, acking, routing>>

\* A comment routed to a thread owner: the primary row first, its fallback by
\* a later statement of the same handler.
EnqueueRoutedTask(t, a, i, r) ==
    /\ Insert(t, a, i, r)
    /\ routing' = routing \cup {t}
    /\ UNCHANGED <<due, poll, exec, daemonUp, offline, retrying, acking>>

EnqueueDeferredAssigneeFallback(p, t, a, r) ==
    /\ p \in routing
    /\ a # row[p].agent
    /\ In(t, {"absent"})
    /\ row' = [row EXCEPT ![t] =
                 NewRow("deferred", a, row[p].issue, r, 1, None, p)]
    /\ routing' = routing \ {p}
    /\ UNCHANGED <<due, poll, exec, daemonUp, offline, retrying, acking>>

\* fire_at passes.
FireTimeArrives(t) ==
    /\ In(t, {"deferred"})
    /\ t \notin due
    /\ due' = due \cup {t}
    /\ UNCHANGED <<row, poll, exec, daemonUp, offline, retrying, acking, routing>>

-----------------------------------------------------------------------------
(* Cancellation *)

CancelRows(S) ==
    /\ S # {}
    /\ row' = Moved(S, "cancelled")
    /\ UNCHANGED <<due, poll, exec, daemonUp, offline, retrying, acking, routing>>

CancelTask(t) == In(t, Open) /\ CancelRows({t})

CancelTasksForIssue(i) ==
    CancelRows({t \in Tasks : row[t].issue = i /\ In(t, Open)})

\* The first statement of RerunIssue; its second one is an EnqueueTask.
CancelTasksForIssueAndAgent(i, a) ==
    CancelRows({t \in Tasks : row[t].issue = i /\ row[t].agent = a /\ In(t, Open)})

CancelTasksForAgent(a) ==
    CancelRows({t \in Tasks : row[t].agent = a /\ In(t, Open)})

\* A member is revoked: the rows of their agents, and those on their runtimes.
\* Deferred rows are left alone.
CancelTasksByRuntimeOrAgent(R, A) ==
    CancelRows({t \in Tasks : /\ row[t].runtime \in R \/ row[t].agent \in A
                              /\ In(t, Active \cup {"queued"})})

\* An agent replied on the issue: fallbacks of its own primary rows die.
CancelEscalationsForIssueAgent(i, a) ==
    CancelRows({t \in Tasks :
        /\ row[t].primary # None
        /\ row[row[t].primary].issue = i
        /\ row[row[t].primary].agent = a
        /\ In(t, {"deferred", "queued", "dispatched", "waiting_local_directory"})})

-----------------------------------------------------------------------------
(* Claiming: a poll runs ClaimTaskForRuntime and then finalizes the claim   *)

\* mutated
DueOnEarly(r) == {t \in Tasks : row[t].runtime = r /\ In(t, {"deferred"})}

DueOn(r) == {t \in due : row[t].runtime = r /\ In(t, {"deferred"})}

\* Flipping all due rows of the runtime at once would break the unique index.
PromotionConflict(r) ==
    \E t \in DueOn(r), u \in Tasks :
        /\ t # u
        /\ SamePair(t, u)
        /\ In(u, Pending) \/ u \in DueOn(r)

PollTo(p, state) == poll' = [poll EXCEPT ![p] = state]

\* PromoteDueDeferredTasksForRuntime: one UPDATE for the whole runtime. If it
\* violates the index the poll ends with an error and claims nothing.
PollPromotes(p, r) ==
    /\ poll[p].pc = "idle"
    /\ r \in daemonUp
    /\ IF PromotionConflict(r)
       THEN UNCHANGED <<row, poll>>
       ELSE /\ row' = Moved(DueOn(r), "queued")
            /\ PollTo(p, [IdlePoll EXCEPT !.pc = "reclaim", !.runtime = r])
    /\ UNCHANGED <<due, exec, daemonUp, offline, retrying, acking, routing>>

\* mutated
StaleDispatchedOrRunning(r) ==
    {t \in Tasks : /\ row[t].runtime = r
                   /\ In(t, {"dispatched", "running"})
                   /\ ~row[t].lease
                   /\ row[t].claim < MaxClaims}

\* A claim nobody keeps alive: dispatched, never started, lease expired.
StaleDispatched(r) ==
    {t \in Tasks : /\ row[t].runtime = r
                   /\ In(t, {"dispatched"})
                   /\ ~row[t].lease
                   /\ row[t].claim < MaxClaims}

\* A claim: new dispatched_at, new lease.
TakeClaim(t) == row' = Leased(t, "dispatched", row[t].claim + 1)

Respond(p, t) ==
    PollTo(p, [poll[p] EXCEPT !.pc = "respond", !.task = t,
                              !.claim = row[t].claim + 1])

ReclaimStaleDispatchedTask(p) ==
    /\ poll[p].pc = "reclaim"
    /\ LET stale == StaleDispatched(poll[p].runtime) IN
       IF stale = {}
       THEN /\ PollTo(p, [poll[p] EXCEPT !.pc = "claim"])
            /\ UNCHANGED row
       ELSE \E t \in stale : TakeClaim(t) /\ Respond(p, t)
    /\ UNCHANGED <<due, exec, daemonUp, offline, retrying, acking, routing>>

\* Agents with a queued row on the runtime that this poll has not tried yet.
Candidates(p) ==
    {a \in Agents \ poll[p].tried :
        \E t \in Tasks : /\ row[t].agent = a
                         /\ row[t].runtime = poll[p].runtime
                         /\ In(t, {"queued"})}

\* mutated
ClaimableBesideActive(a) ==
    {t \in Tasks : /\ row[t].agent = a
                   /\ In(t, {"queued"})
                   /\ row[t].claim < MaxClaims}

\* A queued row is claimable while its agent has no active row of the same pair.
Claimable(a) ==
    {t \in Tasks : /\ row[t].agent = a
                   /\ In(t, {"queued"})
                   /\ row[t].claim < MaxClaims
                   /\ \A u \in Tasks : SamePair(t, u) => ~In(u, Active)}

\* mutated
HasRoomForOneMore(a) == Cardinality(ActiveOf(a)) <= Capacity[a]

HasRoom(a) == Cardinality(ActiveOf(a)) < Capacity[a]

\* ClaimTask for one candidate agent, under a lock on the agent's row. The row
\* it claims may belong to another runtime; then the poll moves on without it.
ClaimTask(p) ==
    /\ poll[p].pc = "claim"
    /\ \E a \in Candidates(p) :
        IF HasRoom(a) /\ Claimable(a) # {}
        THEN \E t \in Claimable(a) :
                /\ TakeClaim(t)
                /\ IF row[t].runtime = poll[p].runtime
                   THEN Respond(p, t)
                   ELSE PollTo(p, [poll[p] EXCEPT !.tried = @ \cup {a}])
        ELSE /\ PollTo(p, [poll[p] EXCEPT !.tried = @ \cup {a}])
             /\ UNCHANGED row
    /\ UNCHANGED <<due, exec, daemonUp, offline, retrying, acking, routing>>

PollFindsNothing(p) ==
    /\ poll[p].pc = "claim"
    /\ Candidates(p) = {}
    /\ PollTo(p, IdlePoll)
    /\ UNCHANGED <<row, due, exec, daemonUp, offline, retrying, acking, routing>>

\* The claim is finalized and its response reaches the daemon.
FinalizeTaskClaim(p) ==
    /\ poll[p].pc = "respond"
    /\ poll[p].runtime \in daemonUp
    /\ exec' = exec \cup {[task |-> poll[p].task, claim |-> poll[p].claim,
                           phase |-> "preparing"]}
    /\ PollTo(p, IdlePoll)
    /\ UNCHANGED <<row, due, daemonUp, offline, retrying, acking, routing>>

\* The request's context is cancelled (client timeout, disconnect, crash of the
\* server) or its response is lost: whatever the poll has written stays.
AbortPoll(p) ==
    /\ poll[p].pc # "idle"
    /\ PollTo(p, IdlePoll)
    /\ UNCHANGED <<row, due, exec, daemonUp, offline, retrying, acking, routing>>

\* mutated
HoldsSomeClaim(p) == In(poll[p].task, {"dispatched"})

\* The row still carries the claim that this poll has taken.
HoldsClaim(p) ==
    In(poll[p].task, {"dispatched"}) /\ row[poll[p].task].claim = poll[p].claim

\* Finalization fails and exactly this claim goes back to the queue.
RequeueTaskAfterClaimFailure(p) ==
    /\ poll[p].pc = "respond"
    /\ row' = IF HoldsClaim(p) THEN Moved({poll[p].task}, "queued") ELSE row
    /\ PollTo(p, IdlePoll)
    /\ UNCHANGED <<due, exec, daemonUp, offline, retrying, acking, routing>>

\* No refresh of the lease for longer than it lasts.
LeaseExpires(t) ==
    /\ row[t].lease
    /\ row' = [row EXCEPT ![t].lease = FALSE]
    /\ UNCHANGED <<due, poll, exec, daemonUp, offline, retrying, acking, routing>>

-----------------------------------------------------------------------------
(* The daemon executes a claimed task                                       *)

ExtendTaskPrepareLease(e) ==
    /\ e.phase \in {"preparing", "parked"}
    /\ In(e.task, {"dispatched", "waiting_local_directory"})
    /\ row' = [row EXCEPT ![e.task].lease = TRUE]
    /\ UNCHANGED <<due, poll, exec, daemonUp, offline, retrying, acking, routing>>

\* The local directory is locked by another task. The daemon waits for it even
\* when the server refuses the transition.
MarkTaskWaitingLocalDirectory(e) ==
    /\ e.phase = "preparing"
    /\ row' = IF In(e.task, {"dispatched"})
              THEN Leased(e.task, "waiting_local_directory", row[e.task].claim)
              ELSE row
    /\ MoveExec(e, "parked")
    /\ UNCHANGED <<due, poll, daemonUp, offline, retrying, acking, routing>>

\* mutated
StartableTwice(t) == In(t, {"dispatched", "waiting_local_directory", "running"})

Startable(t) == In(t, {"dispatched", "waiting_local_directory"})

\* The UPDATE of StartTask; a refused start makes the daemon report a failure.
StartTask(e) ==
    /\ e.phase \in {"preparing", "parked"}
    /\ IF Startable(e.task)
       THEN /\ row' = Moved({e.task}, "running")
            /\ acking' = acking \cup {e.task}
            /\ MoveExec(e, "starting")
       ELSE /\ MoveExec(e, "failing")
            /\ UNCHANGED <<row, acking>>
    /\ UNCHANGED <<due, poll, daemonUp, offline, retrying, routing>>

\* The rest of the StartTask handler, then its response.
CancelDeferredEscalationsForTask(t) ==
    /\ t \in acking
    /\ row' = Moved({u \in Tasks : /\ row[u].primary = t
                                   /\ In(u, {"deferred", "queued", "dispatched",
                                             "waiting_local_directory"})},
                    "cancelled")
    /\ acking' = acking \ {t}
    /\ UNCHANGED <<due, poll, exec, daemonUp, offline, retrying, routing>>

StartAcknowledged(e) ==
    /\ e.phase = "starting"
    /\ e.task \notin acking
    /\ MoveExec(e, "working")
    /\ UNCHANGED <<row, due, poll, daemonUp, offline, retrying, acking, routing>>

\* The daemon never learns that its start succeeded and reports a failure.
LoseStartResponse(e) ==
    /\ e.phase = "starting"
    /\ MoveExec(e, "failing")
    /\ UNCHANGED <<row, due, poll, daemonUp, offline, retrying, acking, routing>>

\* Preparation breaks before the start, or the wait for the path is cut short.
AbandonStart(e) ==
    /\ e.phase \in {"preparing", "parked"}
    /\ MoveExec(e, "failing")
    /\ UNCHANGED <<row, due, poll, daemonUp, offline, retrying, acking, routing>>

AgentFinishes(e) ==
    /\ e.phase = "working"
    /\ \E ph \in {"completing", "failing", "failingRetryable"} : MoveExec(e, ph)
    /\ UNCHANGED <<row, due, poll, daemonUp, offline, retrying, acking, routing>>

\* watchTaskCancellation and the check before the report: the row is final.
InterruptAgent(e) ==
    /\ e.phase \in {"preparing", "parked", "working", "completing"}
    /\ In(e.task, Terminal)
    /\ exec' = exec \ {e}
    /\ UNCHANGED <<row, due, poll, daemonUp, offline, retrying, acking, routing>>

\* Both reports are idempotent: a row that is already final stays as it is. A
\* report whose response is lost is sent again.
CompleteTask(e) ==
    /\ e.phase = "completing"
    /\ row' = IF In(e.task, {"running"}) THEN Moved({e.task}, "completed") ELSE row
    /\ exec' \in {exec, exec \ {e}}
    /\ UNCHANGED <<due, poll, daemonUp, offline, retrying, acking, routing>>

\* mutated
WithinAnyBudget(S) == S

\* "retrying" keeps the rows the handler will pass to MaybeRetryFailedTask and
\* whose budget, which never changes, is not exhausted.
WithinBudget(S) == {t \in S : row[t].attempt < MaxAttempts}

\* mutated
FailableAlways(t) == TRUE

\* mutated
FailableAgain(t) == In(t, Active \cup {"failed"})

Failable(t) == In(t, Active)

\* Only some failure reasons are retried.
FailTask(e) ==
    /\ e.phase \in {"failing", "failingRetryable"}
    /\ IF Failable(e.task)
       THEN /\ row' = Moved({e.task}, "failed")
            /\ retrying' = IF e.phase = "failingRetryable"
                           THEN retrying \cup WithinBudget({e.task})
                           ELSE retrying
       ELSE UNCHANGED <<row, retrying>>
    /\ exec' \in {exec, exec \ {e}}
    /\ UNCHANGED <<due, poll, daemonUp, offline, acking, routing>>

\* All attempts to deliver a report fail: the daemon forgets the task.
GiveUpReport(e) ==
    /\ e.phase \in {"completing", "failing", "failingRetryable"}
    /\ exec' = exec \ {e}
    /\ UNCHANGED <<row, due, poll, daemonUp, offline, retrying, acking, routing>>

-----------------------------------------------------------------------------
(* Failure handling, sweepers, crashes                                      *)

FailRows(S) ==
    /\ row' = Moved(S, "failed")
    /\ retrying' = retrying \cup WithinBudget(S)

\* MaybeRetryFailedTask. The insert of the child is refused when the pair has
\* a pending row again; nothing is tried a second time.
MaybeRetryFailedTask(t) ==
    /\ t \in retrying
    /\ retrying' = retrying \ {t}
    /\ IF NonePending(row[t].issue, row[t].agent)
       THEN \E c \in Tasks :
              /\ In(c, {"absent"})
              /\ row' = [row EXCEPT ![c] =
                           NewRow("queued", row[t].agent, row[t].issue,
                                  row[t].runtime, row[t].attempt + 1, t, None)]
       ELSE UNCHANGED row
    /\ UNCHANGED <<due, poll, exec, daemonUp, offline, acking, routing>>

\* A handler dies between two of its statements.
AbortHandler ==
    /\ \/ /\ \E t \in retrying : retrying' = retrying \ {t}
          /\ UNCHANGED <<acking, routing>>
       \/ /\ \E t \in acking : acking' = acking \ {t}
          /\ UNCHANGED <<retrying, routing>>
       \/ /\ \E t \in routing : routing' = routing \ {t}
          /\ UNCHANGED <<retrying, acking>>
    /\ UNCHANGED <<row, due, poll, exec, daemonUp, offline>>

\* mutated
UnattendedRunning ==
    {t \in Tasks : In(t, {"running"}) /\ row[t].runtime \in offline}

\* Rows past their timeout that nothing vouches for: an expired prepare lease,
\* or a runtime whose heartbeat the server no longer sees.
Unattended == {t \in Tasks : \/ In(t, {"dispatched"}) /\ ~row[t].lease
                             \/ In(t, {"running"}) /\ row[t].runtime \in offline}

\* One sweep; S holds the rows among them whose timeout has passed.
FailStaleTasks(S) ==
    /\ S # {}
    /\ S \subseteq Unattended
    /\ FailRows(S)
    /\ UNCHANGED <<due, poll, exec, daemonUp, offline, acking, routing>>

\* A row queued for longer than its time to live; this reason is not retried.
ExpireStaleQueuedTask(t) ==
    /\ In(t, {"queued"})
    /\ row' = Moved({t}, "failed")
    /\ UNCHANGED <<due, poll, exec, daemonUp, offline, retrying, acking, routing>>

\* mutated
MarkIdleRuntimeOffline(r) ==
    /\ r \notin offline
    /\ \A t \in Tasks : row[t].runtime = r => ~In(t, {"running"})
    /\ offline' = offline \cup {r}
    /\ UNCHANGED <<row, due, poll, exec, daemonUp, retrying, acking, routing>>

\* No heartbeat within the stale window: the daemon is dead or unreachable.
MarkRuntimeOffline(r) ==
    /\ r \notin offline
    /\ offline' = offline \cup {r}
    /\ UNCHANGED <<row, due, poll, exec, daemonUp, retrying, acking, routing>>

Heartbeat(r) ==
    /\ r \in daemonUp
    /\ r \in offline
    /\ offline' = offline \ {r}
    /\ UNCHANGED <<row, due, poll, exec, daemonUp, retrying, acking, routing>>

FailTasksForOfflineRuntimes ==
    /\ LET S == {t \in Tasks : In(t, Active) /\ row[t].runtime \in offline} IN
       S # {} /\ FailRows(S)
    /\ UNCHANGED <<due, poll, exec, daemonUp, offline, acking, routing>>

DaemonCrash(r) ==
    /\ r \in daemonUp
    /\ daemonUp' = daemonUp \ {r}
    /\ exec' = {e \in exec : row[e.task].runtime # r}
    /\ UNCHANGED <<row, due, poll, offline, retrying, acking, routing>>

\* A new daemon process registers the runtime ...
RegisterDaemon(r) ==
    /\ r \in offline \ daemonUp
    /\ offline' = offline \ {r}
    /\ UNCHANGED <<row, due, poll, exec, daemonUp, retrying, acking, routing>>

\* ... reports the orphans of its predecessor and only then starts to poll.
RecoverOrphans(r) ==
    /\ r \notin daemonUp \cup offline
    /\ FailRows({t \in Tasks : row[t].runtime = r /\ In(t, Active)})
    /\ daemonUp' = daemonUp \cup {r}
    /\ UNCHANGED <<due, poll, exec, offline, acking, routing>>

\* The report of the orphans fails; the daemon logs it and carries on.
SkipRecovery(r) ==
    /\ r \notin daemonUp \cup offline
    /\ daemonUp' = daemonUp \cup {r}
    /\ UNCHANGED <<row, due, poll, exec, offline, retrying, acking, routing>>

-----------------------------------------------------------------------------
Enqueue ==
    \/ \E t \in Tasks, a \in Agents, i \in Issues, r \in Runtimes :
         \/ EnqueueTask(t, a, i, r)
         \/ EnqueueRoutedTask(t, a, i, r)
    \/ \E p, t \in Tasks, a \in Agents, r \in Runtimes :
         EnqueueDeferredAssigneeFallback(p, t, a, r)
    \/ \E t \in Tasks : FireTimeArrives(t)

Cancel ==
    \/ \E t \in Tasks : CancelTask(t)
    \/ \E i \in Issues : CancelTasksForIssue(i)
    \/ \E i \in Issues, a \in Agents :
         \/ CancelTasksForIssueAndAgent(i, a)
         \/ CancelEscalationsForIssueAgent(i, a)
    \/ \E a \in Agents : CancelTasksForAgent(a)
    \/ \E R \in SUBSET Runtimes, A \in SUBSET Agents :
         CancelTasksByRuntimeOrAgent(R, A)

Claim ==
    \/ \E p \in Pollers, r \in Runtimes : PollPromotes(p, r)
    \/ \E p \in Pollers :
         \/ ReclaimStaleDispatchedTask(p)
         \/ ClaimTask(p)
         \/ PollFindsNothing(p)
         \/ FinalizeTaskClaim(p)
         \/ RequeueTaskAfterClaimFailure(p)
         \/ AbortPoll(p)
    \/ \E t \in Tasks : LeaseExpires(t)

Execute ==
    \/ \E e \in exec :
         \/ ExtendTaskPrepareLease(e)
         \/ MarkTaskWaitingLocalDirectory(e)
         \/ StartTask(e)
         \/ StartAcknowledged(e)
         \/ LoseStartResponse(e)
         \/ AbandonStart(e)
         \/ AgentFinishes(e)
         \/ InterruptAgent(e)
         \/ CompleteTask(e)
         \/ FailTask(e)
         \/ GiveUpReport(e)
    \/ \E t \in Tasks : CancelDeferredEscalationsForTask(t)

Recover ==
    \/ \E t \in Tasks : MaybeRetryFailedTask(t) \/ ExpireStaleQueuedTask(t)
    \/ AbortHandler
    \/ \E S \in SUBSET Unattended : FailStaleTasks(S)
    \/ FailTasksForOfflineRuntimes
    \/ \E r \in Runtimes :
         \/ MarkRuntimeOffline(r)
         \/ Heartbeat(r)
         \/ DaemonCrash(r)
         \/ RegisterDaemon(r)
         \/ RecoverOrphans(r)
         \/ SkipRecovery(r)

Next == Enqueue \/ Cancel \/ Claim \/ Execute \/ Recover

Spec == Init /\ [][Next]_vars

\* What a healthy daemon never puts off: the next step of an execution that has
\* not started its task yet.
DaemonProceeds(t) ==
    \E e \in exec : /\ e.task = t
                    /\ \/ MarkTaskWaitingLocalDirectory(e)
                       \/ StartTask(e)
                       \/ AbandonStart(e)

\* The sweepers run every 30 seconds, a lease nobody extends runs out, and a
\* runtime without a daemon stops sending heartbeats.
Fairness ==
    /\ \A t \in Tasks :
        /\ WF_vars(DaemonProceeds(t))
        /\ WF_vars(LeaseExpires(t))
        /\ WF_vars(\E S \in SUBSET Unattended : t \in S /\ FailStaleTasks(S))
    /\ WF_vars(FailTasksForOfflineRuntimes)
    /\ \A r \in Runtimes : WF_vars(r \notin daemonUp /\ MarkRuntimeOffline(r))

FairSpec == Spec /\ Fairness

-----------------------------------------------------------------------------
(* Properties *)

\* Every variable stays within its domain.
TypeOK ==
    /\ row \in [Tasks -> Row]
    /\ due \subseteq Tasks
    /\ poll \in [Pollers -> Poll]
    /\ exec \subseteq Exec
    /\ daemonUp \subseteq Runtimes
    /\ offline \subseteq Runtimes
    /\ retrying \subseteq Tasks
    /\ acking \subseteq Tasks
    /\ routing \subseteq Tasks

\* ClaimAgentTask's promise: an agent never has two active rows for one issue,
\* whatever polls, reclaims, requeues, retries and promotions are under way.
OneActivePerPair ==
    \A t, u \in Tasks :
        t # u /\ SamePair(t, u) /\ In(t, Active) => ~In(u, Active)

\* ClaimTask's promise: claims racing from several runtimes never push an agent
\* above max_concurrent_tasks.
WithinCapacity == \A a \in Agents : Cardinality(ActiveOf(a)) <= Capacity[a]

\* Once an agent process works on a row (StartTask acknowledged), nothing puts
\* the row back where another claim could hand it out: it is running or final.
WorkingNeverReissued ==
    \A e \in exec : e.phase = "working" => In(e.task, {"running"} \cup Terminal)

\* Reclaims and requeues may hand one row to several executions, but at most
\* one of them gets past StartTask.
OneExecutionPastStart ==
    \A e, f \in exec :
        /\ e.task = f.task
        /\ {e.phase, f.phase} \subseteq {"starting", "working", "completing"}
        => e = f

\* Auto-retry builds chains: a child continues a failed row as its next attempt,
\* and no row gets or awaits a second child, however many times its failure is
\* reported, swept and recovered.
RetryChains ==
    \A c \in Tasks : row[c].parent # None =>
        /\ row[row[c].parent].status = "failed"
        /\ row[c].attempt = row[row[c].parent].attempt + 1
        /\ row[c].parent \notin retrying
        /\ \A d \in Tasks : row[d].parent = row[c].parent => d = c

\* A final row is never revived or rewritten, by any late report, sweep,
\* cancellation or retry.
TerminalIsFinal ==
    [][\A t \in Tasks : In(t, Terminal) => row'[t].status = row[t].status]_vars

\* A failed finalization rolls back its own claim only: a dispatched row returns
\* to the queue by the poll that holds its newest claim.
RollbackOwnClaimOnly ==
    [][\A t \in Tasks :
         In(t, {"dispatched"}) /\ row'[t].status = "queued" =>
            \E p \in Pollers : /\ poll[p].pc = "respond"
                               /\ poll[p].task = t
                               /\ poll[p].claim = row[t].claim]_vars

\* A fallback is inert until its fire time: nothing queues, claims or runs it
\* earlier, so a comment never wakes the thread owner and the assignee at once.
FallbackWaits ==
    \A t \in Tasks :
        row[t].primary # None /\ In(t, Active \cup {"queued"}) => t \in due

\* A dispatched row never stays so: it is started, parked, requeued, swept or
\* cancelled, whatever responses, daemons and handlers are lost on the way.
DispatchedMovesOn ==
    \A t \in Tasks : In(t, {"dispatched"}) ~> ~In(t, {"dispatched"})

\* A running row that nobody executes any more stays so only if daemons keep coming back
\* to its runtime: the sweepers end it otherwise, whoever lost the report of it.
Orphan(t) == In(t, {"running"}) /\ \A e \in exec : e.task # t
OrphansNeedADaemon ==
    \A t \in Tasks : <>[]Orphan(t) =>
        \/ []<>(row[t].runtime \in daemonUp)
        \/ []<><<RegisterDaemon(row[t].runtime)>>_vars

\* The queue implements the abstract life of its rows.
Lifecycle == INSTANCE TaskLifecycle
    WITH Agents <- Agents \cup {None},
         Issues <- Issues \cup {None},
         status <- [t \in Tasks |-> row[t].status],
         agent  <- [t \in Tasks |-> row[t].agent],
         issue  <- [t \in Tasks |-> row[t].issue]

FollowsLifecycle == Lifecycle!Spec

=============================================================================
