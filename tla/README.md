# Multica: a formal model of the task queue, its daemons and its clients

Multica lets people and coding agents work on the same issues. A Go server
(`src/server`) keeps issues, comments and the queue of agent tasks in PostgreSQL,
with Redis beside it; a daemon on each user's machine polls the server for tasks,
runs an agent process for each and reports the outcome; web, desktop and mobile
clients in TypeScript (`src/packages`, `src/apps`) show the issues and keep their
lists right by events, and the desktop app also manages the local daemon. This
directory holds TLA+ specifications of the parts whose correctness depends on the
order in which requests, sweepers, daemons, events, timers and crashes act, TLC
configurations that check them on small instances, and TLAPS proofs for every value
of the constants.

Everything here is translated from the Go, SQL and TypeScript source. `PROJECT.json`
names, for every definition, the lines it stands for; the properties are listed there
with the hazards they are for.

## The system

| Component | State it keeps | Operations |
|---|---|---|
| Task queue (`service/task.go`, `queries/agent.sql`) | `agent_task_queue`: status, agent, issue, runtime, attempt, parent, claim time, prepare lease | enqueue, promote, claim, reclaim, finalize, requeue, start, park, complete, fail, retry, cancel |
| Runtime sweeper (`cmd/server/runtime_sweeper.go`) | none; reads `agent_runtime` and the queue | mark runtimes offline, fail rows of offline runtimes, fail stale rows, expire queued rows |
| Daemon (`internal/daemon`) | the executions under way, slots, path locks | poll, prepare, keep the lease, start, run, report, recover orphans |
| Comment delivery (`handler/comment.go`, `handler/daemon.go`) | `comment`, and in a row: trigger, coalesced comments, delivered comments | post, merge, defer, reconcile at completion, edit, delete, repair |
| Empty-claim cache (`service/empty_claim_cache.go`) | Redis: a version and a verdict per runtime | bump, sample, mark, check |
| Result outbox (`service/result_outbox.go`, `webhook_result.go`, `queries/workbench.sql`) | `workbench_result_outbox` | insert with the outcome, lease, deliver, acknowledge, retry, give up |
| Job scheduler (`internal/scheduler`) | `sys_cron_executions` | plan, claim or steal, run, finish, catch up |
| Heartbeats (`handler/heartbeat_scheduler.go`, `runtime_liveness_store.go`) | `last_seen_at`, a Redis key, a batch in memory | record, flush, judge stale |
| Channel engine (`integrations/channel/engine`) | leases of installations, claimed message ids, batches | supervise, deduplicate, batch, route |
| Realtime relay (`internal/realtime`) | Redis streams, cursors, connected clients | publish, read, replay |
| Daemon auto-update (`internal/daemon/auto_update.go`) | claim barrier, pending update | close the barrier, restart |
| Repository cache, local directories, garbage collection (`internal/daemon`) | worktrees, path mutexes | acquire, release, collect |
| Autopilot (`service/autopilot.go`, `scheduler/jobs_autopilot.go`) | `autopilot_run`, with its planned occurrence, issue and task | plan from a cron expression, dispatch, recover a half-made run, follow its task or issue |
| Issue lists of the clients (`packages/core/issues`) | query cache: a bucket and a total per status and list, issue details, calls of the user under way | load a page per status, apply events, change optimistically, settle or roll back, refetch |
| Realtime connection of the clients (`core/api/ws-client.ts`, `core/realtime`) | one WebSocket instance per workspace | connect, authenticate, reconnect, replace, recover |
| Desktop daemon manager (`apps/desktop/src/main/daemon-manager.ts`) | state shown, guard, probe, pending restart, token and user on disk | start, stop, restart, poll, probe the token, match the version, sync, rotate and clear credentials |
| Failure monitor, inbound webhooks | deliveries | pause, record, replay |
| Trigger computation (`handler/comment.go`, `issue_trigger.go`) | none | decide which agents a comment wakes |
| Event bus, WebSocket hubs, CRUD handlers, integrations with vendors, agent backends, authentication, command line, views of the clients | – | I/O, presentation, single statements |

How they interact. A request handler inserts a row and then, in separate steps,
bumps the empty-claim version and wakes the daemon; the daemon would find the row
by polling anyway. A poll promotes due fallbacks, looks for a stale claim, then
claims a queued row agent by agent under a lock on the agent's row, writes the
receipt of the comments it delivers and answers. The daemon starts the row, runs
the agent and reports. Completing a row commits its outcome together with a row
of the outbox, and only then reconciles comments; failing one commits and only
then inserts a retry. Sweepers and the orphan report of a restarted daemon move
the same rows from outside. PostgreSQL gives every statement atomicity and two
unique indexes; nothing else orders these actors. Beside them every server runs a
scheduler: its ticks plan the periodic jobs and lease each planned execution as a
row of `sys_cron_executions`, and one of the jobs dispatches the autopilots, whose runs
create issues and rows of the queue.

A commit to an issue is published to the clients that the hub has registered. A client
never refetches a list on its own (`staleTime: Infinity`): it applies each event to every
list it holds, as it applies its own user's changes before the server has answered, and
falls back to a refetch where it cannot decide. Loads, events, answers and rollbacks are
ordered by nothing but the network. The desktop app's main process answers the
renderer's login and logout and its own timers with handlers that await the command
line, the disk and the server; only start, stop and restart by the user exclude each
other, and the daemon they act on is a process that may come up or linger at any time.

What is hard, and the properties that answer it:

- *Races over a row*: two polls, a reclaim, a late requeue, a cancel, a sweep and
  a retry on the same pair of agent and issue (`OneActivePerPair`,
  `WithinCapacity`, `RollbackOwnClaimOnly`, `TerminalIsFinal`).
- *Lost and repeated messages*: a claim's answer, a start's answer and a report may
  be lost, and a report may be sent again (`OneExecutionPastStart`,
  `WorkingNeverReissued`, `RetryChains`, `DispatchedMovesOn`).
- *State read before it is used*: a comment's request decides on a row it read
  two statements ago; a claim's receipt is written after the claim; a completion
  is reconciled after its commit (`NoSilentLoss`, `ReceiptSettledAtStart`).
- *Stale verdicts*: a slow poll says "empty" after an enqueue (`NoStalledTask`,
  `QueuedIsTaken`).
- *Leases*: a delivery outlives its lease, or its worker dies
  (`OneDeliveryAtATime`, `VerdictIsNewest`, `SettledForGood`, `ResultSettles`); a handler of
  a job dies, is swept, stolen or retried while it still runs
  (`PromptHandlerIsAlone`, `VerdictIsNewestAttempts`, `AttemptsMoveOn`).
- *Plans*: catch-up, retries and new occurrences compete for one cursor
  (`NoPlanLeftOut`).
- *Crashes between statements*: a run is created, then its issue or task, then the
  link (`SuccessIsAccounted`, `OneIssuePerOccurrence`, `OneTaskPerOccurrence`); a daemon
  dies with running rows and nobody reports them (`OrphansNeedADaemon`).
- *Two views of one change*: an event, a load and the user's own call tell of the same
  commit in any order, and a rollback undoes what came between (`SettledListIsRight`).
- *Awaits*: what a handler of the daemon manager has read (health, token, user) is old
  when it acts on it (`CachedTokenIsTheUsers`, `DaemonServesTheSession`, `LoggedOutIsOff`,
  `NeverInherits`), and a handler may fail at each await (`GuardHasOneHolder`).

## The modules

| Module | What it models |
|---|---|
| `TaskLifecycle` | Abstract: the life of rows, one active row per agent and issue, capacity |
| `TaskQueue` | The table, polls, handlers, sweepers and daemons; implements `TaskLifecycle` |
| `MCTaskQueue` | Bounds and symmetry for TLC |
| `TaskQueueProofs` | Theorems about `TaskQueue`: its table, refinement and capacity |
| `TaskHistoryProofs` | Theorems about `TaskQueue`: executions, retries and fallbacks |
| `CommentDelivery`, `MCCommentDelivery` | How the comments of one issue reach one agent |
| `CommentDeliveryProofs` | Theorems about `CommentDelivery` |
| `EmptyClaimCache`, `EmptyClaimCacheProofs` | The negative cache of one runtime |
| `ResultOutbox`, `ResultOutboxProofs` | The outbox and its workers |
| `JobScheduler` | Ticks, leases, retries and planners of one periodic job |
| `AutopilotDispatch`, `MCAutopilot` | The job that dispatches autopilots, on top of `JobScheduler` |
| `AutopilotProofs` | Theorems about both |
| `IssueBuckets` | The clients' lists as data, and the pure rules that change them |
| `RealtimeSocket` | The client's connection, its reconnections and its instances |
| `IssueLists`, `MCIssueLists` | The query cache of one client on top of both, with the server and the user |
| `IssueListsProofs` | Theorems about `IssueLists` and its two modules |
| `DaemonManager`, `MCDaemonManager` | The desktop app's daemon manager, the daemon process and the renderer |
| `DaemonManagerProofs` | Theorems about `DaemonManager` |

An action is one database statement, transaction or Redis call of the code, so
everything the code does between two of them may be interleaved with everybody
else. A handler of several statements is a set of actions with a place to wait
between them (`poll`, `retrying`, `acking`, `routing`, `handler`); a crash of the
server, a cancelled request or an expired client timeout may end it at each of
those places. In the TypeScript modules an action runs from one `await` to the next.

### TaskQueue

`row` is the table. `due` is the set of deferred rows whose `fire_at` has passed.
`poll` holds the claim requests inside the server, which go on after their client
is gone: several may serve one runtime. `exec` is what the daemons do with the
claims they received. `daemonUp` and `offline` tell the life of a daemon from the
server's view of it. `retrying`, `acking` and `routing` are handlers that have
committed their first statement and owe a second one: the retry, the cancellation
of fallbacks, the insert of a fallback.

Correspondence and abstractions:

- `claim` counts the claims of a row and stands for `dispatched_at`, the token by
  which a requeue recognises its own claim. `lease` says that the prepare lease, or
  the recovery window and the dispatch timeout that follow it, still protects the
  row: 45 s, 90 s and 300 s in the code, in this order.
- The order of candidates is any order: the code sorts them by priority and age,
  and no property depends on it. A row's runtime is any runtime, for the runtime
  of an agent may be changed between two enqueues.
- `Capacity` is constant: `max_concurrent_tasks` is only edited by users, and
  lowering it below the number of active rows is not an error of the queue.
- Only rows with an issue are modelled. The claim of a chat, quick-create or
  autopilot row has another serialisation key.
- The receipt of comments is left to `CommentDelivery`, the early answer "empty"
  to `EmptyClaimCache`; for the queue both are polls that end (`AbortPoll`).
- A new daemon process registers and reports orphans before it polls, in this
  order, as `RegisterDaemon` and `RecoverOrphans` do. `offline` means that the
  server sees no fresh heartbeat, whatever the reason.
- A lock on a local directory is a choice: a daemon parks a row or does not.
- Merging a legacy runtime rewrites `runtime_id`; this is not modelled.

### CommentDelivery

All rows belong to one pair of issue and agent, and every comment is routed to
this agent: the routing itself is a function of the thread, and not modelled.
Comments are numbered by `created_at`; `born` is the number of comments that
existed when the row was created, so that "created after the row" is `c > born`.
`handler` is a request that enqueues one comment after the other: a post, an edit,
a deletion, a reconcile, the repair of a stale plan.

`head` is the head commit of the pull request linked to the issue; webhooks move it and
users link and unlink it (`UpsertGitHubPullRequest`). A lookup of it fails soft, so it may
return none instead (`ResolveIssueReviewSHA`). A row is stamped with the head its request
has seen. The check for a pending row is keyed by the head when there is one
(`comment.go:1868-1885`, `agent.sql:744-775`), so a pending row with another stamp, or
without one, is a miss; the unique index that guards the insert (migration 037) knows no
heads and refuses it. A merge does not stamp the row again, a retry inherits the stamp.

`NoSilentLoss` is a property of steps. `AccountedFor` says that a request still has the
comment (`Has`) or that a row has received it, will, or will list it (`Covers`). Every
step keeps this, and the post of a comment establishes it, except steps of six kinds, in
each of which the code does lose a comment: a request dies (`CutShort`); an
insert is refused (`Refused`); a request leaves the comment to rows that will not list
it (`Misplaced`); the row fails and no retry takes the comment over (`LeftToFailure`);
a user cancels the row (`Withdrawn`); the row is cancelled because another comment of it
is edited or deleted, and only its plan is replayed (`LeftToCancelled`). Each kind is a
step of the code at a moment the property describes, not a mark kept for ever: a comment let
go once and enqueued again is under the promise again.

A claim's payload has a budget, so the receipt is the trigger and any prefix of
the other comments, oldest first. The content of a comment, notes, comments
written by agents, suppressed agents and fallbacks are not modelled, nor are
errors of single reads. `waiting_local_directory` is the same as running here.
`TaskQueue`'s sweeps are failures of `FailTask`. Registration and crashes are
absent: what the daemon does with a row is `exec`, and a lost answer leaves it
`"none"`.

### EmptyClaimCache

One runtime. `version` is 0 when the key is missing, and reading it may fail,
which gives 0 as well. The key of the version lives for 24 hours and is renewed by
every sample and bump; it may expire only when no verdict is cached (3 minutes) and no
poll is under way that carries a sample (30 seconds). A restart of Redis without
its data is `LoseData`; `lost` remembers it. A command that arrives at Redis after its
caller has timed out is not modelled.

### ResultOutbox

A result is named by its task. `attempt_count` grows with every lease and stands
for the fresh token the lease gets. `accepted` records what the receiver has
accepted, which the workers cannot see. A delivery ends before its lease expires:
`validate` refuses to start a worker unless the delivery timeout is shorter than
the lease (20 s and 30 s by default). A process that is paused for longer than
that is outside the model. Every task here has a binding to an enabled
webhook connector; without one no row is inserted and nothing follows.

### JobScheduler

`row` is `sys_cron_executions` for one job and one scope, `tick` what each server's
`RunOnce` is doing, `exec` the claimed execution inside it. The planner and
`AllowStaleReentry` of the job are variables that never change, so that one run
covers every kind of job.

- The clock is explicit, and is the database's: `now()` in the code. A tick reads it once, at
  its start, and plans, sweeps and claims with that time, as the code does; a heartbeat
  and a terminal write read it again. Other jobs and scopes of a tick, whose handlers run
  inside it, only make time pass between its statements.
- A claim more than `StaleTimeout - RunTimeout` after the start of its tick is `late`: its
  lease may run out while its handler is within its time.
- A handler returns within `RunTimeout`, for its context ends then and the database
  calls it makes honour the context. A process that is paused is outside the model, as
  in `ResultOutbox`.
- `attempt` grows with every claim and stands for the lease token. The insert and the
  conflicting update of `tryClaim` are one action: rows are never deleted, so
  the update finds the row the insert met, and nothing is decided in between.
- A plan is the number of its bucket; for the autopilot the buckets are the occurrences
  of its cron expression, which are taken to be regular. The backoff is one constant;
  in the code it is 1, 5 and 15 minutes.
- `succeeded`, `unclaimed` and `bootstrap` only record history for the properties.

### AutopilotDispatch

The scheduler's actions are those of `JobScheduler` (`Schedule`), with the handler of the autopilot
job between a claim and its return. `run` is `autopilot_run`, named by the plan and the attempt
whose handler created it: a handler creates at most one. `pending` stands for `issue_created` and `running`, which differ by
the mode of the autopilot only; `planned` for a `planned_at` that is set, which the unique
index allows once per occurrence; `task` is the run's row in the queue. `step` is where a
handler is between two statements. Admission, readiness and the guard
against a recent issue with the same title are choices. For other jobs the handler is
any handler.

### IssueBuckets, RealtimeSocket and IssueLists

`IssueBuckets` has the pure part: what a page request answers (`Page`), the bucket
functions (`AddCard`, `RemoveCard`, `PatchCard`, `MoveTotal`, ...) and the coordinator's
decision for one change of one issue in one list (`Change`), which says what the list
becomes and whether it has to be refetched. `RealtimeSocket` is `WSClient` and the provider
around it. `IssueLists` puts the query library, the event handlers, the mutations and the
server around them.

- The server is its `log` of commits, and a page reads the state after all of them. A
  commit and its event are one step; in the code the event is published after the commit, so
  the events of two requests may also be published in the other order, which is
  left out.
- An issue is named by its position: a bucket is a set of cards, ordered by the
  numbers, and positions never change. The owner stands for every field a list filters by.
- A list query has data, an invalidation mark and a fetch, as in the query library:
  setting data clears the mark, invalidation starts the fetch of a list on the
  screen over, cancellation drops it. First loads are not started over.
- The total the three lists of `my:all` show is the length of a merge of their loads
  (`queries.ts:189-211`), which is not modelled; the totals here are those of the buckets.
- A call of the user carries the context its `onMutate` returned: the lists as they
  were, those to refetch when it settles, and the detail. Its answer may come after any
  event and any load, and may never come though the server has done the work.
- `races`, `since` and `own` are history variables; no action depends on them. `own` has the calls of
  the user whose change the list has had since its load and which no event has confirmed. `races` names,
  for each list since its last load, why it may be wrong: an event missed before registration ("gap"), a
  load that a commit overtook or that read its pages at different times ("overtaken", "torn"), an issue
  counted again ("twice"), a change of a card that is not loaded, judged by an entity that is not the one it
  changes or counted in a total that has it already, from the load or from another call ("miscounted"), a
  rollback over something newer, which the calls of the list show if its data do not ("rolled back"), a
  cancelled or unmarked refetch, and a late answer. `SettledListIsRight` says that these nine are all: a
  list at rest to which none of them has happened is what the server has, in every card and every total.

### DaemonManager

Every handler, timer callback and unawaited promise is a *flow*: the steps it still has
to take (`todo`), what a failure of the current one leaves (`onFail`: the guard to give
back, or a stop to try), and what it has read and not yet used. A flow asks for the
health first (`AskHealth`) and acts on the answer later.

- The daemon is a process of its own: spawned, token loaded, serving as "starting", then
  "running"; asked to leave it serves until its work is done. `old` and `busy` are the
  version and the tasks it reports.
- `config` and `sidecar` are the two files with the token and the user it was made for. A
  write of either is atomic; a sync writes one after the other, without a lock.
- A personal access token (`mul_`), which is passed straight to the daemon, auto-start switched
  off, the stop on quitting the app, and the auth probe that the health request of
  auto-start and of get-status may start are left out; no property depends on them.
- Time is not modelled: the grace before the auth probe, the wait of `daemon stop` and
  the timeouts of `daemon start` are choices between the steps they separate.
- `races` is history: two writers of the credentials at once, a pair half written,
  credentials not synced, a stop refused by the guard, failed or cut short, a
  daemon that outlived its stop or was not seen while it came up, and a probe's
  verdict about a token that has changed since. The properties about credentials except those that
  concern them, by name.

## What TLC checks

| Run | Instance | Shows |
|---|---|---|
| `queue_claims` | 2 rows of one agent and issue, 1 runtime, 2 polls, 2 claims of a row, 2 attempts, 2 executions | `OneActivePerPair`, `WorkingNeverReissued`, `OneExecutionPastStart`, `RetryChains`, `RollbackOwnClaimOnly`, `TerminalIsFinal` |
| `queue_lifecycle` | 2 rows, 2 agents with room for one task each, 2 issues, 1 runtime, 1 poll, one row may be a fallback | `TypeOK`, `WithinCapacity`, `FallbackWaits`; the queue implements `TaskLifecycle` (`FollowsLifecycle`) |
| `queue_stuck` | 1 row, 2 claims, 2 executions, fairness | `DispatchedMovesOn`, `OrphansNeedADaemon` |
| `comments_loss` | 2 comments, 2 rows, 2 requests and 2 polls with at most 2 of them at work at once, 2 claims of a row and 3 in all, 1 head, 1 failure, cancellation or assignment, 1 retry | `NoSilentLoss`, `ReceiptSettledAtStart` |
| `comments_rewrites` | 2 comments, 2 rows, 2 requests, 1 poll, 1 claim of a row, one edit or deletion at a time, no pull request | `TypeOK`, `NoSilentLoss` |
| `cache` | 1 row that is queued again and again, 2 polls, 4 versions, fairness | `TypeOK`, `NoStalledTask`, `QueuedIsTaken` |
| `outbox` | 2 tasks that may form a chain, 2 workers, 3 leases, fairness | `TypeOK`, `OneDeliveryAtATime`, `VerdictIsNewest`, `OneOutcomePerChain`, `SettledForGood`, `ResultSettles` |
| `autopilot` | 2 servers, 2 attempts, one occurrence of an autopilot in either mode to time 5, or three plans of a job of either catch-up mode to time 4 | `TypeOK`, `PromptHandlerIsAlone`, `VerdictIsNewestAttempts`, `SuccessIsAccounted`, `OneIssuePerOccurrence`, `AttemptsMoveOn`, `NoPlanLeftOut` |
| `client` | 3 issues of which one is not created yet, 2 statuses, a board and a filtered list, pages of one card, 2 commits, 1 call of the user, 4 moves of users and network | `TypeOK`, `SettledListIsRight` |
| `desktop` | 2 users, 2 handlers at once, 2 tokens, 3 moves of users, disks and network | `TypeOK`, `CachedTokenIsTheUsers`, `DaemonServesTheSession`, `LoggedOutIsOff`, `GuardHasOneHolder` |
| `autopilot_twice` | 2 servers, one occurrence | violates `OneTaskPerOccurrence` |
| `desktop_login` | as `desktop` | violates `NeverInherits` |

Why the bounds are enough. Two rows are needed for every rivalry (two claims of a
pair, a row and its retry, a primary and its fallback) and suffice for it,
because the guards compare a row with one other. Two polls and two claims of a
row give the late requeue and the double execution. The issues, agents and
runtimes of a run are those its property compares. Two comments give an older
and a newer one, and two requests their race. A version of the cache is compared
for equality only: four versions let a slow poll carry a tag that is several
bumps old. The bound on leases matters only for `ResultSettles`, which says so.
A board and one filtered list tell apart the rules with and without a filter; a page of
one card leaves a second one unloaded, which is where totals go wrong; two commits give an event
and one that overtakes it, and every pair of call, event, load and reconnection fits
into four moves. Two handlers of the daemon manager race for every file and for the
guard, and two users are those a credential can be confused between.

`MCTaskQueue` bounds the executions alive at once and whether comments are routed
with a fallback; in `queue_stuck`, which checks liveness, this bound is never reached. `MCCommentDelivery` bounds the edits under way
and the rows that end badly or are assignments (these only before the first
comment, one such row in `comments_loss`), how many requests and claims are at work at once
(`MaxBusy`) and the claims in all, and does not follow a behaviour past a step that lets a comment
go, which the property has seen. `AssignmentsBefore` counts the
comments before which an assignment may come. Of heads only equality with the stamp of a
row counts. One head gives a match, and a miss by a row that was made before the pull request was
linked or whose lookup had failed; the instance follows at most one stamped row, and only while
the head is that of its stamp or none. A head that moves from one commit to the next is a miss like
these, and is covered by the theorem, which bounds nothing.
`MCAutopilot` bounds the occurrences that are dispatched (`Occurrences`), how long the
other jobs are followed (`MaxOtherTime`), the plans whose claim may fail (`MayFail`) and
those chosen without history (`MaxBootstraps`). Times are as short as their order
allows: a handler may take 1, a lease lasts 2, a plan falls due every 2, so that a lease can run
out, be swept, stolen and retried before the clock stops. `MCIssueLists` (`Bounds`) does not follow
behaviours that have used all moves and in which no list without a race is loaded or
loading (the property has nothing left to say), nor what surrounds a creation by
the user, which makes no optimistic change, or the last commit when the user has changed
nothing. `MCDaemonManager` bounds how many different things have gone wrong (`MaxRaces`),
as the properties except each of them alone; with four moves instead of three
the run holds too.

Rows, claims, comments, attempts, deliveries, commits and moves are bounded, so behaviours end
where a bound is reached: deadlock is not checked in those runs. It is checked in
`cache`.

Every property of a passing run is also run against a mutated definition (the
operators marked "mutated", in `PROJECT.json` "mutants"), where TLC finds it
violated.

### Fairness

- `TaskQueue`: the sweepers run every 30 seconds, so a sweep that stays possible
  happens (`WF` on `FailStaleTasks` for each row and on
  `FailTasksForOfflineRuntimes`); a lease nobody extends runs out; a runtime without
  daemon stops sending heartbeats; a daemon does not put off the next step of a
  task that has not started. Nothing is assumed of polls, agents, network answers
  or users. Claims of a row are bounded, so `DispatchedMovesOn` assumes that claims are
  lost finitely often: the code reclaims a row as often as its answer is lost.
  `OrphansNeedADaemon` needs no more: it says that, without daemons that stay or keep
  registering, the sweepers end what nobody runs.
- `EmptyClaimCache`: daemons keep polling, not every poll is cut short between its
  statements (`SF` on the sample and on the query), and Redis honours the verdict's
  time to live.
- `ResultOutbox`: some worker is running, a delivery ends within its timeout, its
  answer is recorded unless the worker dies, and time passes.

## What the runs found

- `autopilot_twice`: an autopilot that only runs a task creates the task, then links the
  run to it. A server that dies in between leaves a run without a task id, which
  the retry takes for half-made: it is failed, and a second task is created for
  the occurrence beside the first.
- `desktop_login`: a logout stops the daemon, but the guard refuses the stop while a start
  is still under way, and the renderer ignores the refusal. The daemon comes up with
  the token of the user who has left; the logout has removed the record of whose
  it is, so the next user's login sees no change of user, finds the daemon up, and restarts
  nothing. The comment above the logout's handler says that a later login never inherits the
  previous user's credentials.

More follows from the definitions and is named by the disjuncts of a property or
by a hazard:

- A comment that finds an active row is left to that row's completion, also when
  the row was created after the comment and no longer queued; that completion
  lists only newer comments, and the comment is dropped (`Misplaced` in `NoSilentLoss`).
  `comment.go:1416-1418` says that the completion guarantees a follow-up.
- When the head of the pull request has moved since the pending row was made, the check
  misses that row "and a fresh review enqueues against the new HEAD" (`agent.sql:750-752`,
  likewise `comment.go:1869-1870`). The insert of that review is refused as long as the row
  is pending, and the comment is dropped (`Refused`), unless the row is older than
  the comment, in which case its completion lists it. The test
  (`task_dedup_head_sha_test.go:197-198`) runs the check alone, not the insert.
- A row that fails takes the comments left to it with it, because only completions
  reconcile (`LeftToFailure`); and a follow-up that starts between a completion and its
  reconcile receives a comment that is then enqueued once more.
- An edit or deletion cancels the rows that plan the comment and replays their plans. A
  comment that was left to such a row without being planned is not replayed
  (`LeftToCancelled`).
- The fallback of a routed comment is inserted after its primary. A primary that
  starts in between cancels nothing, and the fallback is later claimed beside it, which
  `FallbackWaits` does not exclude.
- A dispatch that fails after its run was created marks the run failed; the
  retry hands that run back, and the scheduler records a success.
- A poll promotes all due fallbacks of its runtime in one statement. If the agent of one
  already has a queued or dispatched row on the issue, the statement violates the unique
  index and the poll fails, and so do all polls of that runtime until the row moves
  on, which by a claim there it cannot.
- A daemon that dies with a running row, and whose successor's report of orphans is
  lost, leaves the row running as long as the successor lives: the timeout of
  running rows exempts runtimes that send heartbeats (`OrphansNeedADaemon`).
- An occurrence that failed, and whose backoff still runs when the next occurrence is due,
  is passed over; the planner reads only the newest row.
- A list is wrong for good after each of the nine races of `IssueLists`: nothing refetches it
  until it is invalidated again. The commonest are a load that a commit overtakes,
  pages of one load that are read at different times, and the first connection, which acknowledges the
  client before it is registered and refetches nothing.
- `daemon stop` gives up its wait and reports success while the daemon still
  finishes a task; the manager then takes it for stopped.

## What is proved

`TLAPS` proves the theorems for all values of the constants that satisfy the
modules' assumptions (`None` is no row, head, agent, user, list or load, the bounds are numbers).

**TaskQueueProofs.** `TypeInv` strengthens `TypeOK` by `PollShape` (a poll that
answers has a row, a running poll a runtime) and `RetryBudget` (a row waiting for
its retry has failed and has an attempt left); without the first, a claim would
not be known to write a row of the table, and without the second, a retry could
leave the range of `attempt`. `StepLemma` shows, action by action, that a step preserves `TypeInv` and
at the same time is a step or a stutter of `TaskLifecycle`: the lemmas before it
(`MovedStep`, `InsertStep`, `LeasedStep`, `TakeClaimStep`, ...) treat the few ways in
which a step rewrites the table once for all handlers that use them. From it follow

- `TypeCorrectness`: `Spec => []TypeOK`;
- `Refinement`: `Spec => FollowsLifecycle`;
- `Finality`: `Spec => TerminalIsFinal`, read off the abstract steps;
- `OneActive`: `Spec => []OneActivePerPair`: a row becomes active only by a claim,
  which sees no active row of its pair, and never changes its pair;
- `CapacityRespected`: `Spec => []WithinCapacity`. `CapacityInv` adds that the active
  rows of an agent are finitely many, which `Cardinality` needs; the set `Tasks` may
  be infinite.

**TaskHistoryProofs.** What one step does to one row is said once (`TableLemma`, `RowSteps`), and what
it does to one execution once (`ExecLemma`, `ExecStep`); the rest is read off these two.
`Rollback` (`Spec => RollbackOwnClaimOnly`) and `Fallback` (`Spec => []FallbackWaits`) are: only the poll that
holds the newest claim of a row returns it to the queue, and a fallback leaves deferral alive
only when its time has come. `NeverReissued` (`Spec => []WorkingNeverReissued`) and `OneStart`
(`Spec => []OneExecutionPastStart`) share one invariant, `BeganInv`: the row of every execution past
its start is running or final, and no row has two such executions. Rows never leave these
states (`RunningStays`), and `StartTask`, the only step that takes an execution past its start, finds
the row in neither. `Chains` (`Spec => []RetryChains`) needs `ChainInv`, that a row which does not
exist yet has no parent, and from `TypeInv` that a row waiting for its retry has failed: inserting the child
ends the wait, and a failed row never waits again.

**CommentDeliveryProofs.** `TypeCorrectness`, `Settled` (`Spec => ReceiptSettledAtStart`) and `Lossless`
(`Spec => NoSilentLoss`), for any number of comments, rows, requests, polls and heads. `TypeInv` adds what a
request may have in hand at each of its statements (`HandlerOK`) and what it knows of its row's
status: the one that lists a row has found it final (`StatusKnown`). `ReceiptInPlan` adds that a receipt
names only comments of the plan or deleted ones: hence a running row that is cancelled or fails
holds in its plan what it had received. Under these two invariants `LossStep` shows that a step which
lets no comment go (`Kept`) keeps every comment accounted for. The argument has two halves. A row that
covers a comment goes on to, or hands it to a request at the moment it is completed or cancelled
(`CoversMoves` and `CoversStep`, from the same `RowSteps` that gives `Settled`); a request that has a
comment keeps it until a row takes it over (`HandsKeep`, one lemma for each
group of actions). A new comment starts in the hands of the request that posts it (`NewComment`).

**EmptyClaimCacheProofs.** `TypeCorrectness` and `NeverStalled`: `Spec => []NoStalledTask`. The inductive invariant says
that, while Redis has kept its data, no tag, cached or carried by a poll, is
newer than the version (`TagsArePast`), and that while a bumped row waits every tag
that may still be written is strictly older (`TagsAreStale`). The second survives a
poll's empty query because that query sees no waiting row.

**ResultOutboxProofs.** `TypeCorrectness`, `OneDelivery`, `NewestVerdict`, `Settled` and `OneOutcome`. The inductive
invariant says that a token a worker holds was issued by its row and that, while
the worker delivers, it is the newest one and its lease runs (`TokensIssued`); that no
token is held twice (`TokensDistinct`); and that a worker that heard "accepted" was
accepted under its token (`AnswersTrue`). `OneDelivery` follows from the first two.
`OneOutcome` (`Spec => []OneOutcomePerChain`) has an invariant of its own (`ChainInv`): a chain has at
most one task that is open, that is, not ended or failed with its retry still to
come; a chain whose result is reported has none left, so the retry that would report a
second one is never made.

**AutopilotProofs.** `Alone` (`JobSpec => []PromptHandlerIsAlone`), `Verdict`
(`JobSpec => []VerdictIsNewestAttempts`) and `MoveOn` (`JobSpec => AttemptsMoveOn`), for any
number of servers and plans and any durations with `RunTimeout < StaleTimeout`, which
`JobSpec.validate` demands. `LeftOut` (`JobSpec => NoPlanLeftOut`) is about every plan a catching-up job
claims: `PlannedInv` says that a plan in a tick's list has no gap before it, except plans
tried in vain, plans older than the window and plans up to the newest one on record. A tick takes its oldest plan
first (`OlderIsDueFirst`), so the gap cannot open while other servers claim in between; records
are never removed (`RecordsStay`), and what `now` has put outside the window stays outside (`OlderStays`).
`PromptHandlerIsAlone` speaks of one server's handler and is not
inductive: its invariant adds that an execution holds an attempt its row has issued
(`ExecInv`), that no attempt is held twice (`Distinct`), that no handler is older than
`RunTimeout` (`ClockInv`) and that the lease of a handler that was claimed in time lasts at
least as long (`LeaseInv`): so nothing that needs an expired lease, a sweep, a
steal or a retry, is possible beside it. `Scheduled` (`Spec => JobSpec`) shows that the dispatch of
autopilots is a run of the scheduler whatever its handlers do, and `DispatchIsScheduled`
carries these results over to it.

On top of that the module follows the runs of an occurrence. `RunInv` says that a handler which has
not reached its insert has no run under its own attempt, nor has any attempt to come
(`Fresh`), that a handler at the link has created its task (`StepInv`), and that one that reports, or is about to
report, a success leaves its occurrence accounted for (`OkInv`), although the scheduler
records it only later. From it `TypeCorrectness` and `Accounting`
(`Spec => []SuccessIsAccounted`) follow, also where two handlers run at once.
`OneIssue` (`Spec => []OneIssuePerOccurrence`) needs `SlotInv`: at most one run of an
occurrence is in the slot of the unique index, and, unless a claim was late, every linked run is; the
handler that creates the issue holds the slot, and the one that recovers a run still finds
it unlinked. The last two are not stable under steps of a second handler, and `AloneOnPlan`,
from `LeaseInv` and `Distinct`, shows that there is none.

**DaemonManagerProofs.** `TypeCorrect`, `GuardIsExclusive` (`Spec => []GuardHasOneHolder`),
`CachedTokenIsOwned` (`Spec => []CachedTokenIsTheUsers`), `ServesTheSession`
(`Spec => []DaemonServesTheSession`) and `OffAfterLogout` (`Spec => []LoggedOutIsOff`), for any users and any number of handlers at
once. `FlowInv` says what may be left of a handler: the step that takes or gives back the guard
is its last, a handler under the guard has an `onFail` that gives it back, and nothing but
a clear comes before a sync (`InOrder`, `Sound`); that is what a failure at any await needs.
`FilesInv` follows the two files while they are written one handler at a time: the token a sync is about
to write is its user's, the token in the file is so while the sidecar is still to be written, and no
token is left while the sidecar is still to be cleared (`Files`). `TokenInv` says that every token somebody
holds has been minted. `Splice` and `SpliceInOrder` are the lemmas on
sequences by which a step's replacement keeps that shape.

The last two speak of a manager at rest, and nothing is at rest on the way there. Their invariant, `Cov`,
says that whatever is not right yet is *covered*: some handler will still make it right. As long as no race is
noted, a daemon works for the user in the files, or loaded a token with the owner of the one in the file, or some handler
will stop it (`Served`, `Kills`); the files are the session's, or a sync of that user is on its way
(`InSession`, `WillSync`); after a logout the files are empty and the daemon is gone or about
to be stopped, or the logout has not finished clearing (`OutOfSession`, `LogsOut`); what a sync
remembers as the previous user is still what the sidecar says (`Remembered`), and a token in the file
has its user beside it or is about to (`Owned`). What makes this inductive is the order of what
is left of a handler (`Shape`): before a stop come only credentials and the rotation, before a logout's stop only its
clear, and a clear is always followed by a stop. So the rotation, which stops a daemon only if it has seen one,
covers a daemon until it has looked, and a daemon it cannot see is a race that is noted. `Away` and `Onward` treat
all steps outside the credentials at once, `Reading` those that write nothing, and `OnlyWriter` says that a write
for which no race is noted has the files for itself. The assumption that
the two ways of having no user, unknown and logged out, are different (`UsersAssumption`) is
needed here: in the code one is a session that is not restored yet, the other a store without a user.

**IssueListsProofs.** `TypeCorrect` (`Spec => []TypeOK`) and `ListsAreRight` (`Spec => []SettledListIsRight`),
for any issues, lists, page size and bounds, and any number of overlapping calls. The types need that the frames are
commits in order, so that there are never more frames than commits (`FramesInv`), and what a call of each kind knows
while it is under way (`CallShape`): the answer that reconciles a list is an entity only because the call that has it
was done. The functions on buckets, the coordinator's rules and the four operations of the query library each have a
lemma on what they return, so that no action looks inside a list.

`ListsAreRight` is about a list at rest, and no list is at rest on the way there. Its invariant says in what way a
list may differ from the server while things are under way:

- `Base` is always so: the frames are exactly the commits after the `Handled` first ones (`FramesExact`); an issue is
  born once (`LogInv`); a call has made at most one commit, which is its change of the issue as it was then, and
  an answer is that commit (`Ledger`); what a context has saved belongs to an update or a delete that began no
  later than the last event (`Contexts`); a list's own calls have begun and their commits are later than its load
  (`Sights`); each page of a load is what the server answered at one of the commits it spans (`Reads`).
- A list that has no race and no reload ahead (`Quiet`) is `Explained`: there is a column `P` which gives
  each issue a status or no place, such that each total is the number of issues in its status and each card is in its
  place (`Fits`), and for each issue (`Explains`) the place is the one the server had for it when the list was loaded
  or has at the last event since. The exceptions are an event of the issue that is still to come (`Owed`) and a call
  of the user whose event has not come: one that has changed the card (`Changing`), deleted it (`Removing`) or
  put it out of the list (`Leaving`); any other leaves the place as it is (`Neutral`).
- What a rollback would put back is explained in the same way without the call that it undoes, as long
  as no event has come and the list has still the calls it was written with (`SavedOf`).

The column is what makes totals provable: pages hold some of the cards, so a total counts issues nobody sees, and
a step is shown to change `P` at one issue (`Turns`) and with it at most two totals. An explanation is carried
over a commit once for all that commit (`Advances`), over an event by `EventTurns`, and over what a call does to
its own issue by the lemmas on one kind of call each. At rest every frame is handled and no
call is under way, so none of the exceptions is left, the column is the server's, and `FittingIsRight` turns it into totals and
cards. The proof found what the run had not: with two owners and two calls a total could be dropped by a call
and by an event of another, or a rollback could bring back the change of a call that had been taken back before,
with no race noted. The conditions of "miscounted" and "rolled back" are stated accordingly now.

In the modules with theorems a record is updated as a whole,
`![t] = [@ EXCEPT !.a = ..., !.b = ...]`, and never by two paths into one row:
the SMT encoding of tlapm 1.4.5 loses the first of two such updates.

Only model-checked: the liveness properties (`DispatchedMovesOn`, `OrphansNeedADaemon`, `QueuedIsTaken`,
`ResultSettles`), for fairness and `ENABLED` are out of the prover's reach.

## The plan

In the order of importance in which it was carried out:

1. `TaskQueue` with `TaskLifecycle` and proofs of both, its table and its histories.
2. `CommentDelivery`, `EmptyClaimCache` and `ResultOutbox` with proofs.
3. `JobScheduler` and `AutopilotDispatch` with proofs.
4. `IssueBuckets`, `RealtimeSocket` and `IssueLists`: the clients' side of an issue.
5. `DaemonManager` with proofs: the desktop app's side of a daemon.

What would come next:

- an abstract specification "the attempts of a plan, one after the other", which the
  scheduler implements when no claim is late;
- the Redis key of a runtime, the batched flush of heartbeats and the stale window,
  composed with the sweeper's view in `TaskQueue`;
- the leases of channel installations and the claimed ids of inbound messages over
  crashes; cursors and replay of the Redis relay between servers;
- the daemon's mutex on local directories with cancelled waiters, and the claim barrier of
  its auto-update.

## What is not modelled

Rows without an issue, the routing of comments, and what the list above names. In the
clients: further pages of a status, batch changes, labels and metadata of a card, the lists
that are not bucketed (they are invalidated by every event), the handlers of other
events, chat, and the desktop shell. In the daemon manager: the installation of the
command line, a daemon of another host or profile, a change of the backend's address.

Left out for good: vendor adapters, agent backends, the event bus, CRUD handlers and the
command line, which are I/O around single statements; authentication; the WebSocket
wakeup of daemons, which only makes a poll earlier, and a poll is possible at any time
here; generated code and migrations, of which the models keep the constraints. Most of the
repository's TypeScript is of this kind too: components, landing pages and texts
in several languages, and an API client with one function per request have no state
whose order could be got wrong, and no model could say more of them than they do.
