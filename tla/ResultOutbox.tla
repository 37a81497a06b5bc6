---------------------------- MODULE ResultOutbox ----------------------------
(***************************************************************************)
(* The transactional outbox workbench_result_outbox: the transaction that  *)
(* ends a task also inserts its result, and the workers of the servers     *)
(* lease results one at a time, post them to the connector's webhook and   *)
(* record the answer under the lease token they hold.                      *)
(*                                                                         *)
(* A task has at most one result, so a result is named by its task. Every  *)
(* task here belongs to an issue bound to an enabled webhook connector.    *)
(* attempt_count grows with every lease and stands for the fresh token the *)
(* lease gets. A definition under "mutated" is a plausible mistake in the  *)
(* one after it, used only to see that the properties can fail.            *)
(***************************************************************************)
EXTENDS Naturals

CONSTANTS
    Tasks,          \* rows of agent_task_queue that may ever be created
    Workers,        \* ResultOutboxWorker.Run loops
    None,
    MaxAttempts,    \* agent_task_queue.max_attempts
    MaxDeliveries   \* bound of the model on attempt_count

Answers == {"accepted", "retry", "terminal"}

ASSUME NoneAssumption == None \notin Tasks \cup Answers
ASSUME BoundAssumption == {MaxAttempts, MaxDeliveries} \subseteq Nat \ {0}

VARIABLES
    task,       \* [Tasks -> row of agent_task_queue]
    retrying,   \* failed tasks whose request has yet to create the retry
    outbox,     \* [Tasks -> row of workbench_result_outbox]
    worker,     \* [Workers -> what the worker is doing]
    accepted    \* [Tasks -> attempts the receiver has accepted]

vars == <<task, retrying, outbox, worker, accepted>>

Task == [status: {"absent", "running", "completed", "failed"},
         root: Tasks, attempt: 0 .. MaxAttempts]

Final == {"delivered", "terminal_failed"}

\* "due" says that next_attempt_at, or lease_expires_at of a leased row, has passed.
Row == [status: {"none", "pending", "leased"} \cup Final,
        attempt_count: 0 .. MaxDeliveries, due: BOOLEAN]

Worker == [task: Tasks \cup {None}, token: 0 .. MaxDeliveries,
           answer: Answers \cup {None}]
IdleWorker == [task |-> None, token |-> 0, answer |-> None]

Init ==
    /\ task = [t \in Tasks |-> [status |-> "absent", root |-> t, attempt |-> 0]]
    /\ retrying = {}
    /\ outbox = [t \in Tasks |-> [status |-> "none", attempt_count |-> 0, due |-> FALSE]]
    /\ worker = [w \in Workers |-> IdleWorker]
    /\ accepted = [t \in Tasks |-> {}]

-----------------------------------------------------------------------------
(* The producers: transactions that end a task                              *)

EnqueueTask(t) ==
    /\ task[t].status = "absent"
    /\ task' = [task EXCEPT ![t] = [status |-> "running", root |-> t, attempt |-> 1]]
    /\ UNCHANGED <<retrying, outbox, worker, accepted>>

EnqueueWorkbenchResult(t) ==
    outbox' = [outbox EXCEPT ![t] = IF @.status = "none"
                                    THEN [@ EXCEPT !.status = "pending", !.due = TRUE]
                                    ELSE @]

CompleteTask(t) ==
    /\ task[t].status = "running"
    /\ task' = [task EXCEPT ![t].status = "completed"]
    /\ EnqueueWorkbenchResult(t)
    /\ UNCHANGED <<retrying, worker, accepted>>

HasBudget(t) == task[t].attempt < MaxAttempts

\* mutated
ReportsEveryFailure(t, retryable) == TRUE

ReportsFailure(t, retryable) == ~retryable \/ ~HasBudget(t)

Fail(t, retryable) ==
    /\ task[t].status = "running"
    /\ task' = [task EXCEPT ![t].status = "failed"]
    /\ retrying' = IF retryable /\ HasBudget(t) THEN retrying \cup {t} ELSE retrying
    /\ UNCHANGED <<worker, accepted>>

\* Reported by the daemon, with a reason that is retried or not.
FailTask(t) ==
    \E retryable \in BOOLEAN :
        /\ Fail(t, retryable)
        /\ IF ReportsFailure(t, retryable)
           THEN EnqueueWorkbenchResult(t)
           ELSE UNCHANGED outbox

\* Failed by a sweeper or by the recovery of orphans: no result is inserted.
HandleFailedTasks(t) ==
    /\ Fail(t, TRUE)
    /\ UNCHANGED outbox

\* After the commit, so the server may die before it, and the insert may be refused.
MaybeRetryFailedTask(t) ==
    /\ t \in retrying
    /\ retrying' = retrying \ {t}
    /\ \/ UNCHANGED task
       \/ \E c \in Tasks :
            /\ task[c].status = "absent"
            /\ task' = [task EXCEPT ![c] = [status |-> "running", root |-> task[t].root,
                                            attempt |-> task[t].attempt + 1]]
    /\ UNCHANGED <<outbox, worker, accepted>>

-----------------------------------------------------------------------------
(* The workers                                                              *)

\* mutated
ClaimableEarly(t) == outbox[t].status \in {"pending", "leased"}

\* mutated
ClaimablePending(t) == outbox[t].status = "pending" /\ outbox[t].due

Claimable(t) == outbox[t].status \in {"pending", "leased"} /\ outbox[t].due

ClaimWorkbenchResults(w) ==
    /\ worker[w].task = None
    /\ \E t \in Tasks :
         /\ Claimable(t)
         /\ outbox[t].attempt_count < MaxDeliveries
         /\ LET n == outbox[t].attempt_count + 1 IN
            /\ outbox' = [outbox EXCEPT ![t] =
                            [status |-> "leased", attempt_count |-> n, due |-> FALSE]]
            /\ worker' = [worker EXCEPT ![w] = [task |-> t, token |-> n, answer |-> None]]
    /\ UNCHANGED <<task, retrying, accepted>>

Delivering(w) == worker[w].task # None /\ worker[w].answer = None

\* A timeout, a lost response or an unreadable body is retried although the
\* receiver may have accepted the result.
DeliverResult(w) ==
    /\ Delivering(w)
    /\ LET t == worker[w].task
           received == [accepted EXCEPT ![t] = @ \cup {worker[w].token}] IN
       \E a \in Answers :
         /\ worker' = [worker EXCEPT ![w].answer = a]
         /\ accepted' \in CASE a = "accepted" -> {received}
                            [] a = "retry"    -> {received, accepted}
                            [] a = "terminal" -> {accepted}
    /\ UNCHANGED <<task, retrying, outbox>>

\* mutated
OwnsRow(w) == TRUE

\* mutated
HoldsSomeLease(w) == outbox[worker[w].task].status = "leased"

HoldsLease(w) ==
    /\ outbox[worker[w].task].status = "leased"
    /\ outbox[worker[w].task].attempt_count = worker[w].token

\* mutated
VerdictOfTask(answer) == CASE answer = "accepted" -> "delivered"
                           [] answer = "retry"    -> "pending"
                           [] answer = "terminal" -> "failed"

Verdict(answer) == CASE answer = "accepted" -> "delivered"
                     [] answer = "retry"    -> "pending"
                     [] answer = "terminal" -> "terminal_failed"

\* Acknowledge, retry after a delay, or give up. A worker that lost its lease
\* changes nothing, and starts over.
FinalizeResult(w) ==
    /\ worker[w].answer # None
    /\ outbox' =
         IF HoldsLease(w)
         THEN [outbox EXCEPT ![worker[w].task] =
                 [@ EXCEPT !.status = Verdict(worker[w].answer), !.due = FALSE]]
         ELSE outbox
    /\ worker' = [worker EXCEPT ![w] = IdleWorker]
    /\ UNCHANGED <<task, retrying, accepted>>

\* The server shuts down or dies, or the statement that records the answer fails.
AbandonResult(w) ==
    /\ worker[w].task # None
    /\ worker' = [worker EXCEPT ![w] = IdleWorker]
    /\ UNCHANGED <<task, retrying, outbox, accepted>>

\* A delivery ends before its lease does: the worker refuses to run unless
\* DeliveryTimeout < LeaseDuration.
TimePasses(t) ==
    /\ outbox[t].status \in {"pending", "leased"}
    /\ ~outbox[t].due
    /\ outbox[t].status = "leased" =>
         \A w \in Workers : ~(/\ Delivering(w)
                              /\ worker[w].task = t
                              /\ worker[w].token = outbox[t].attempt_count)
    /\ outbox' = [outbox EXCEPT ![t].due = TRUE]
    /\ UNCHANGED <<task, retrying, worker, accepted>>

-----------------------------------------------------------------------------
Producer ==
    \E t \in Tasks :
        \/ EnqueueTask(t)
        \/ CompleteTask(t)
        \/ FailTask(t)
        \/ HandleFailedTasks(t)
        \/ MaybeRetryFailedTask(t)

Next ==
    \/ Producer
    \/ \E w \in Workers :
        \/ ClaimWorkbenchResults(w)
        \/ DeliverResult(w)
        \/ FinalizeResult(w)
        \/ AbandonResult(w)
    \/ \E t \in Tasks : TimePasses(t)

Spec == Init /\ [][Next]_vars

\* Some worker is running, a delivery ends within its timeout, and clocks advance.
Fairness ==
    /\ WF_vars(\E w \in Workers : ClaimWorkbenchResults(w))
    /\ \A w \in Workers : WF_vars(DeliverResult(w)) /\ WF_vars(FinalizeResult(w))
    /\ \A t \in Tasks : WF_vars(TimePasses(t))

FairSpec == Spec /\ Fairness

-----------------------------------------------------------------------------
(* Properties *)

\* Every variable stays within its domain.
TypeOK ==
    /\ task \in [Tasks -> Task]
    /\ retrying \subseteq Tasks
    /\ outbox \in [Tasks -> Row]
    /\ worker \in [Workers -> Worker]
    /\ accepted \in [Tasks -> SUBSET (1 .. MaxDeliveries)]

\* Two workers never post the same result at the same time: a lease is only
\* taken over once the delivery made under it is over.
OneDeliveryAtATime ==
    \A v, w \in Workers :
        v # w /\ Delivering(v) /\ Delivering(w) => worker[v].task # worker[w].task

\* A delivered result was accepted by the receiver in its newest attempt: the
\* late answer of an attempt whose lease was taken over decides nothing.
VerdictIsNewest ==
    \A t \in Tasks :
        outbox[t].status = "delivered" => outbox[t].attempt_count \in accepted[t]

\* A settled result is never sent again nor decided again, whatever late workers do.
SettledForGood ==
    [][\A t \in Tasks : outbox[t].status \in Final => outbox'[t] = outbox[t]]_vars

\* A task and its automatic retries report at most one outcome: a failure that
\* may still be retried is not reported, although the retry is made later.
OneOutcomePerChain ==
    \A t, u \in Tasks :
        t # u /\ task[t].root = task[u].root
            => outbox[t].status = "none" \/ outbox[u].status = "none"

\* A result is attempted again and again until it is delivered or refused, over
\* crashes between the delivery and its acknowledgement (up to the model's bound).
ResultSettles ==
    \A t \in Tasks :
        outbox[t].status = "pending"
            ~> \/ outbox[t].status \in Final
               \/ outbox[t].attempt_count = MaxDeliveries
=============================================================================
