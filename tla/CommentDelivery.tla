-------------------------- MODULE CommentDelivery --------------------------
(***************************************************************************)
(* How the comments of one issue reach one agent: every comment must be    *)
(* part of some run of the agent. A comment is enqueued as a new row of    *)
(* the task queue, merged into the queued row, or left to the row at work, *)
(* whose completion lists what it has not delivered and replays it.        *)
(*                                                                         *)
(* All rows belong to the same pair (issue, agent) and every comment is a  *)
(* member's, routed to this agent. Comments are numbered by created_at; a  *)
(* row keeps in "born" how many existed when it was created. The status    *)
(* waiting_local_directory is the same as running here. Any request may be *)
(* interleaved with the others between two of its statements. A definition *)
(* under "mutated" is a plausible mistake in the next one, used only to    *)
(* see that the properties can fail.                                       *)
(***************************************************************************)
EXTENDS Naturals, FiniteSets

CONSTANTS
    Tasks,          \* rows that may ever be created
    Handlers,       \* requests being served: posts, edits, deletes, reports
    Pollers,        \* claim requests being served
    Heads,          \* commits that may be the head of the linked pull request
    None,
    MaxComments,    \* bound of the model
    MaxAttempts,    \* agent_task_queue.max_attempts
    MaxClaims       \* bound of the model on the claims of one row

ASSUME NoneAssumption == None \notin Tasks \cup Heads
ASSUME LimitsAssumption ==
    {MaxComments, MaxClaims} \subseteq Nat /\ MaxAttempts \in Nat \ {0}

VARIABLES
    posted,     \* number of comments created so far
    deleted,    \* comments deleted since
    head,       \* head of the issue's pull request, None when none is linked
    row,        \* rows of agent_task_queue
    handler,    \* [Handlers -> state of a request]
    poll,       \* [Pollers -> state of a claim request]
    exec        \* what the daemon does with a row

vars == <<posted, deleted, head, row, handler, poll, exec>>

Comments  == 1 .. MaxComments
NoComment == 0

-----------------------------------------------------------------------------
(* Rows *)

Pending == {"queued", "dispatched"}
Active  == Pending \cup {"running"}
Status  == {"absent"} \cup Active \cup {"completed", "failed", "cancelled"}

\* trigger_comment_id and coalesced_comment_ids are the plan made at enqueue
\* time, delivered_comment_ids is the receipt written when a claim is finalized.
\* The head_sha of its context is the commit the row was enqueued to review.
Row == [status: Status, trigger: Comments \cup {NoComment},
        coalesced: SUBSET Comments, delivered: SUBSET Comments,
        born: 0 .. MaxComments, head: Heads \cup {None},
        attempt: 0 .. MaxAttempts, claim: 0 .. MaxClaims]

NewRow(s, trigger, coalesced, sha, attempt) ==
    [status |-> s, trigger |-> trigger, coalesced |-> coalesced, delivered |-> {},
     born |-> posted, head |-> sha, attempt |-> attempt, claim |-> 0]

In(t, S) == row[t].status \in S

Plan(t) == row[t].coalesced \cup ({row[t].trigger} \ {NoComment})

NonePending == \A t \in Tasks : ~In(t, Pending)

\* What a lookup of the head returns: none also when the lookup fails.
ResolveIssueReviewSHA == {head, None}

Oldest(S) == CHOOSE c \in S : \A d \in S : c <= d

-----------------------------------------------------------------------------
(* Requests: "todo" is replayed oldest first, then "last"                   *)

HandlerPc == {"idle", "compute", "merge", "active", "insert", "list", "deleting",
              "retry"}
Handler == [pc: HandlerPc, todo: SUBSET Comments, last: Comments \cup {NoComment},
            task: Tasks \cup {None}]

IdleHandler == [pc |-> "idle", todo |-> {}, last |-> NoComment, task |-> None]

Replaying(todo, last) ==
    IF todo = {} /\ last = NoComment
    THEN IdleHandler
    ELSE [pc |-> "compute", todo |-> todo, last |-> last, task |-> None]

HandlerTo(h, state) == handler' = [handler EXCEPT ![h] = state]
GoTo(h, pc) == HandlerTo(h, [handler[h] EXCEPT !.pc = pc])

\* The comment under way, and the request without it.
Current(h) == IF handler[h].todo # {} THEN Oldest(handler[h].todo) ELSE handler[h].last

Rest(h) == IF handler[h].todo # {}
           THEN Replaying(handler[h].todo \ {Current(h)}, handler[h].last)
           ELSE IdleHandler

Remaining(h) == handler[h].todo \cup ({handler[h].last} \ {NoComment})

IdlePoll == [task |-> None, claim |-> 0, trigger |-> NoComment, coalesced |-> {}]
Poll == [task: Tasks \cup {None}, claim: 0 .. MaxClaims,
         trigger: Comments \cup {NoComment}, coalesced: SUBSET Comments]

Init ==
    /\ posted = 0
    /\ deleted = {}
    /\ head = None
    /\ row = [t \in Tasks |-> NewRow("absent", NoComment, {}, None, 0)]
    /\ handler = [h \in Handlers |-> IdleHandler]
    /\ poll = [p \in Pollers |-> IdlePoll]
    /\ exec = [t \in Tasks |-> "none"]

\* mutated
UndeliveredByPlan(t) ==
    ({c \in 1 .. posted : c > row[t].born} \cup Plan(t)) \ (Plan(t) \cup deleted)

\* What the completion of a row has to replay: the comments created after the
\* row and those of its plan, without the receipt.
Undelivered(t) ==
    ({c \in 1 .. posted : c > row[t].born} \cup Plan(t))
        \ (row[t].delivered \cup deleted)

\* The pull request is linked, unlinked, or gets new commits.
UpsertGitHubPullRequest ==
    /\ head' \in Heads \cup {None}
    /\ head' # head
    /\ UNCHANGED <<posted, deleted, row, handler, poll, exec>>

-----------------------------------------------------------------------------
(* Creating comments, and enqueueing one comment for the agent              *)

CreateComment(h) ==
    /\ handler[h].pc = "idle"
    /\ posted < MaxComments
    /\ posted' = posted + 1
    /\ HandlerTo(h, Replaying({posted + 1}, NoComment))
    /\ UNCHANGED <<deleted, head, row, poll, exec>>

\* Rows triggered by the comment itself do not count, and when the head is known
\* only the rows stamped with it do.
HasPendingTask(c, sha) ==
    \E t \in Tasks : /\ In(t, Pending)
                     /\ row[t].trigger # c
                     /\ sha = None \/ row[t].head = sha

\* Is a task pending already? A miss goes straight to the insert.
ComputeTriggers(h) ==
    /\ handler[h].pc = "compute"
    /\ \E sha \in ResolveIssueReviewSHA :
         GoTo(h, IF HasPendingTask(Current(h), sha) THEN "merge" ELSE "insert")
    /\ UNCHANGED <<posted, deleted, head, row, poll, exec>>

\* Only a queued row takes the comment in. For a deleted comment the statement
\* fails, which counts as handled.
MergeCommentIntoPendingTask(h) ==
    /\ handler[h].pc = "merge"
    /\ LET c == Current(h)
           queued == {t \in Tasks : In(t, {"queued"})} IN
       IF queued = {}
       THEN GoTo(h, "active") /\ UNCHANGED row
       ELSE /\ HandlerTo(h, Rest(h))
            /\ row' = IF c \in deleted THEN row ELSE
                 [t \in Tasks |-> IF t \notin queued THEN row[t] ELSE
                     [row[t] EXCEPT !.trigger = c, !.coalesced = Plan(t) \ {c}]]
    /\ UNCHANGED <<posted, deleted, head, poll, exec>>

\* An active row makes the request leave the comment to it, whether or not its
\* completion will list it.
HasActiveTaskForIssueAndAgent(h) ==
    /\ handler[h].pc = "active"
    /\ IF \E t \in Tasks : In(t, Active)
       THEN HandlerTo(h, Rest(h))
       ELSE GoTo(h, "insert")
    /\ UNCHANGED <<posted, deleted, head, row, poll, exec>>

\* The insert is refused by the unique index, whatever the head of the row that is
\* pending, or by the foreign key when the comment is gone; the error is only logged.
EnqueueSingleCommentTrigger(h) ==
    /\ handler[h].pc = "insert"
    /\ LET c == Current(h) IN
       IF NonePending /\ c \notin deleted
       THEN \E t \in Tasks, sha \in ResolveIssueReviewSHA :
              /\ In(t, {"absent"})
              /\ row' = [row EXCEPT ![t] = NewRow("queued", c, {}, sha, 1)]
       ELSE UNCHANGED row
    /\ HandlerTo(h, Rest(h))
    /\ UNCHANGED <<posted, deleted, head, poll, exec>>

\* The issue is assigned to the agent: a row without a comment.
EnqueueTaskForIssue(t) ==
    /\ In(t, {"absent"})
    /\ NonePending
    /\ \E sha \in ResolveIssueReviewSHA :
         row' = [row EXCEPT ![t] = NewRow("queued", NoComment, {}, sha, 1)]
    /\ UNCHANGED <<posted, deleted, head, handler, poll, exec>>

\* The server dies or the request is cancelled.
AbortHandler(h) ==
    /\ handler[h].pc # "idle"
    /\ HandlerTo(h, IdleHandler)
    /\ UNCHANGED <<posted, deleted, head, row, poll, exec>>

-----------------------------------------------------------------------------
(* Claims: the response carries the comments its receipt names              *)

\* The claim sees the plan as it is now.
TakeClaim(p, t) ==
    /\ row[t].claim < MaxClaims
    /\ row' = [row EXCEPT ![t] = [@ EXCEPT !.status = "dispatched",
                                         !.claim = row[t].claim + 1]]
    /\ poll' = [poll EXCEPT ![p] =
                  [task |-> t, claim |-> row[t].claim + 1,
                   trigger |-> row[t].trigger, coalesced |-> row[t].coalesced]]
    /\ UNCHANGED <<posted, deleted, head, handler, exec>>

ClaimAgentTask(p) ==
    /\ poll[p].task = None
    /\ \A u \in Tasks : ~In(u, {"dispatched", "running"})
    /\ \E t \in Tasks : In(t, {"queued"}) /\ TakeClaim(p, t)

\* The lease of the previous claim has expired.
ReclaimStaleDispatchedTask(p) ==
    /\ poll[p].task = None
    /\ \E t \in Tasks : In(t, {"dispatched"}) /\ TakeClaim(p, t)

\* The trigger always fits, then as many of the others as the budget of the
\* payload allows, oldest first; nothing when the trigger is gone.
Selections(trigger, coalesced) ==
    IF trigger = NoComment \/ trigger \in deleted THEN {{}}
    ELSE {S \cup {trigger} : S \in {T \in SUBSET (coalesced \ deleted) :
             \A c \in T, d \in (coalesced \ deleted) \ T : c < d}}

\* mutated
ReceiptAnyStatus(p, S) ==
    /\ row[poll[p].task].claim = poll[p].claim
    /\ row[poll[p].task].trigger = poll[p].trigger
    /\ S \subseteq Plan(poll[p].task)

\* The compare-and-set of SetTaskDeliveredCommentIDs.
ReceiptAccepted(p, S) ==
    /\ In(poll[p].task, {"dispatched"})
    /\ row[poll[p].task].claim = poll[p].claim
    /\ row[poll[p].task].trigger = poll[p].trigger
    /\ S \subseteq Plan(poll[p].task)

StalePlan(p) == poll[p].trigger = NoComment /\ poll[p].coalesced # {}

\* The response may be lost on its way to the daemon. A row without comments
\* has no receipt to write.
FinalizeTaskClaim(p) ==
    /\ poll[p].task # None
    /\ ~StalePlan(p)
    /\ IF poll[p].trigger = NoComment
       THEN UNCHANGED row
       ELSE \E S \in Selections(poll[p].trigger, poll[p].coalesced) :
              /\ ReceiptAccepted(p, S)
              /\ row' = [row EXCEPT ![poll[p].task].delivered = S]
    /\ exec' \in {exec, [exec EXCEPT ![poll[p].task] =
                            IF @ = "none" THEN "received" ELSE @]}
    /\ poll' = [poll EXCEPT ![p] = IdlePoll]
    /\ UNCHANGED <<posted, deleted, head, handler>>

\* A finalization that fails, for this reason or another, returns its own claim
\* to the queue and clears the receipt.
RequeueTaskAfterClaimFailure(p) ==
    /\ poll[p].task # None
    /\ LET t == poll[p].task IN
       row' = IF In(t, {"dispatched"}) /\ row[t].claim = poll[p].claim
              THEN [row EXCEPT ![t] = [@ EXCEPT !.status = "queued", !.delivered = {}]]
              ELSE row
    /\ poll' = [poll EXCEPT ![p] = IdlePoll]
    /\ UNCHANGED <<posted, deleted, head, handler, exec>>

\* A plan whose trigger was deleted is cancelled and its survivors replayed.
RepairStalePlan(p, h) ==
    /\ poll[p].task # None
    /\ StalePlan(p)
    /\ handler[h].pc = "idle"
    /\ row' = IF In(poll[p].task, Active)
              THEN [row EXCEPT ![poll[p].task].status = "cancelled"] ELSE row
    /\ HandlerTo(h, Replaying(Plan(poll[p].task) \ deleted, NoComment))
    /\ poll' = [poll EXCEPT ![p] = IdlePoll]
    /\ UNCHANGED <<posted, deleted, head, exec>>

AbortPoll(p) ==
    /\ poll[p].task # None
    /\ poll' = [poll EXCEPT ![p] = IdlePoll]
    /\ UNCHANGED <<posted, deleted, head, row, handler, exec>>

-----------------------------------------------------------------------------
(* The run                                                                  *)

StartTask(t) ==
    /\ exec[t] = "received"
    /\ In(t, {"dispatched"})
    /\ row' = [row EXCEPT ![t].status = "running"]
    /\ exec' = [exec EXCEPT ![t] = "started"]
    /\ UNCHANGED <<posted, deleted, head, handler, poll>>

\* The report finds the row running or final. Either way the handler goes on to
\* reconcile; a report whose response is lost is sent again.
CompleteTask(h, t) ==
    /\ exec[t] = "started"
    /\ handler[h].pc = "idle"
    /\ row' = IF In(t, {"running"}) THEN [row EXCEPT ![t].status = "completed"] ELSE row
    /\ exec' \in {exec, [exec EXCEPT ![t] = "reported"]}
    /\ HandlerTo(h, [IdleHandler EXCEPT !.pc = "list", !.task = t])
    /\ UNCHANGED <<posted, deleted, head, poll>>

\* ListReconcilableCommentsForIssueSince, a statement after the commit.
ReconcileCommentsOnCompletion(h) ==
    /\ handler[h].pc = "list"
    /\ HandlerTo(h, Replaying(Undelivered(handler[h].task), NoComment))
    /\ UNCHANGED <<posted, deleted, head, row, poll, exec>>

\* mutated
RetryableAlways(t) == TRUE

Retryable(t) == row[t].attempt < MaxAttempts

\* Reported by the daemon or found by a sweeper, for a reason that is retried or not.
FailTask(h, t) ==
    /\ handler[h].pc = "idle"
    /\ In(t, {"dispatched", "running"})
    /\ row' = [row EXCEPT ![t].status = "failed"]
    /\ \/ /\ Retryable(t)
          /\ HandlerTo(h, [IdleHandler EXCEPT !.pc = "retry", !.task = t])
       \/ UNCHANGED handler
    /\ UNCHANGED <<posted, deleted, head, poll, exec>>

\* The child inherits the plan and the head, and starts with an empty receipt.
MaybeRetryFailedTask(h) ==
    /\ handler[h].pc = "retry"
    /\ LET t == handler[h].task IN
       IF NonePending
       THEN \E c \in Tasks :
              /\ In(c, {"absent"})
              /\ row' = [row EXCEPT ![c] = NewRow("queued", row[t].trigger,
                              row[t].coalesced, row[t].head, row[t].attempt + 1)]
       ELSE UNCHANGED row
    /\ HandlerTo(h, IdleHandler)
    /\ UNCHANGED <<posted, deleted, head, poll, exec>>

\* A user gives the row up, and with it what it planned.
CancelTask(t) ==
    /\ In(t, Active)
    /\ row' = [row EXCEPT ![t].status = "cancelled"]
    /\ UNCHANGED <<posted, deleted, head, handler, poll, exec>>

-----------------------------------------------------------------------------
(* Editing and deleting a comment                                           *)

PlannedIn(c) == {t \in Tasks : In(t, Active) /\ c \in Plan(t)}

\* mutated
TriggersOf(S) == {row[t].trigger : t \in S} \ {NoComment}

BatchOf(S) == UNION {Plan(t) : t \in S}

CancelTasksByTriggerComment(S) ==
    row' = [t \in Tasks |-> IF t \in S THEN [row[t] EXCEPT !.status = "cancelled"]
                                       ELSE row[t]]

\* The rows that plan the comment are cancelled. Their other comments are
\* replayed, then the edited one; when the edit itself fails, the whole batch.
UpdateComment(h, c) ==
    /\ handler[h].pc = "idle"
    /\ c \in 1 .. posted \ deleted
    /\ LET S == PlannedIn(c) IN
       /\ CancelTasksByTriggerComment(S)
       /\ \/ HandlerTo(h, Replaying(BatchOf(S) \ ({c} \cup deleted), c))
          \/ HandlerTo(h, Replaying(BatchOf(S) \ deleted, NoComment))
    /\ UNCHANGED <<posted, deleted, head, poll, exec>>

\* The cancellation may fail; the comment is deleted all the same.
StartDeleteComment(h, c) ==
    /\ handler[h].pc = "idle"
    /\ c \in 1 .. posted \ deleted
    /\ \E S \in {PlannedIn(c), {}} :
         /\ CancelTasksByTriggerComment(S)
         /\ HandlerTo(h, [pc |-> "deleting", last |-> c, task |-> None,
                          todo |-> BatchOf(S) \ ({c} \cup deleted)])
    /\ UNCHANGED <<posted, deleted, head, poll, exec>>

\* The foreign key clears the triggers that still name the comment.
DeleteComment(h) ==
    /\ handler[h].pc = "deleting"
    /\ LET c == handler[h].last IN
       /\ deleted' = deleted \cup {c}
       /\ row' = [t \in Tasks |-> IF row[t].trigger = c
                                  THEN [row[t] EXCEPT !.trigger = NoComment]
                                  ELSE row[t]]
    /\ HandlerTo(h, Replaying(handler[h].todo, NoComment))
    /\ UNCHANGED <<posted, head, poll, exec>>

\* The deletion fails: the cancelled batch is restored with its comment.
DeleteCommentFails(h) ==
    /\ handler[h].pc = "deleting"
    /\ HandlerTo(h, Replaying(handler[h].todo \cup {handler[h].last}, NoComment))
    /\ UNCHANGED <<posted, deleted, head, row, poll, exec>>

-----------------------------------------------------------------------------
Enqueue ==
    \E h \in Handlers :
        \/ CreateComment(h)
        \/ ComputeTriggers(h)
        \/ MergeCommentIntoPendingTask(h)
        \/ HasActiveTaskForIssueAndAgent(h)
        \/ EnqueueSingleCommentTrigger(h)
        \/ ReconcileCommentsOnCompletion(h)
        \/ MaybeRetryFailedTask(h)
        \/ AbortHandler(h)

Claim ==
    \E p \in Pollers :
        \/ ClaimAgentTask(p)
        \/ ReclaimStaleDispatchedTask(p)
        \/ FinalizeTaskClaim(p)
        \/ RequeueTaskAfterClaimFailure(p)
        \/ AbortPoll(p)
        \/ \E h \in Handlers : RepairStalePlan(p, h)

Run ==
    \E t \in Tasks :
        \/ EnqueueTaskForIssue(t)
        \/ StartTask(t)
        \/ CancelTask(t)
        \/ \E h \in Handlers : CompleteTask(h, t) \/ FailTask(h, t)

Rewrite ==
    \E h \in Handlers :
        \/ \E c \in Comments : UpdateComment(h, c) \/ StartDeleteComment(h, c)
        \/ DeleteComment(h)
        \/ DeleteCommentFails(h)

Next == Enqueue \/ Claim \/ Run \/ Rewrite \/ UpsertGitHubPullRequest

Spec == Init /\ [][Next]_vars

-----------------------------------------------------------------------------
(* Properties *)

\* Every variable stays within its domain.
TypeOK ==
    /\ posted \in 0 .. MaxComments
    /\ deleted \subseteq Comments
    /\ head \in Heads \cup {None}
    /\ row \in [Tasks -> Row]
    /\ handler \in [Handlers -> Handler]
    /\ poll \in [Pollers -> Poll]
    /\ exec \in [Tasks -> {"none", "received", "started", "reported"}]

Existing == 1 .. posted \ deleted

\* A request has the comment: to enqueue it, to list it, or in the plan of a retry.
Has(h, c) ==
    \/ c \in Remaining(h)
    \/ handler[h].pc = "list" /\ c \in Undelivered(handler[h].task)
    \/ handler[h].pc = "retry" /\ c \in Plan(handler[h].task)

\* A run has received the comment, or will, or will list it when it completes.
Covers(t, c) ==
    \/ In(t, Active) /\ (row[t].born < c \/ c \in Plan(t))
    \/ In(t, {"running", "completed"}) /\ c \in row[t].delivered

AccountedFor(c) == (\E h \in Handlers : Has(h, c)) \/ (\E t \in Tasks : Covers(t, c))

\* The server dies, or the client leaves, before the request has done with it.
CutShort(c) == \E h \in Handlers : Has(h, c) /\ AbortHandler(h)

\* The unique index refuses its insert, or that of the retry that inherits it:
\* another row is pending, made since the check or passed over by it because it
\* is stamped with another head.
Refused(c) ==
    /\ ~NonePending
    /\ \E h \in Handlers :
         \/ c = Current(h) /\ EnqueueSingleCommentTrigger(h)
         \/ handler[h].pc = "retry" /\ c \in Plan(handler[h].task) /\ MaybeRetryFailedTask(h)

\* Its request leaves it to active rows that all are younger: their completions list
\* newer comments only.
Misplaced(c) ==
    \E h \in Handlers : /\ c = Current(h)
                        /\ HasActiveTaskForIssueAndAgent(h)
                        /\ \A t \in Tasks : In(t, Active) => c <= row[t].born

\* The row that planned it fails and no retry follows, or the row it was left to
\* fails, which had not planned it, so that a retry does not inherit it.
LeftToFailure(c) ==
    \E h \in Handlers, t \in Tasks :
        Covers(t, c) /\ FailTask(h, t) /\ (c \in Plan(t) => UNCHANGED handler)

\* A user cancels a row that planned it, or that it was left to.
Withdrawn(c) == \E t \in Tasks : Covers(t, c) /\ CancelTask(t)

\* It was left to a row that had not planned it, and that is cancelled because another
\* comment is edited or deleted: only the batch of the row is replayed.
LeftToCancelled(c) ==
    \E h \in Handlers :
        /\ (\E d \in Comments : UpdateComment(h, d) \/ StartDeleteComment(h, d))
             \/ (\E p \in Pollers : RepairStalePlan(p, h))
        /\ \A t \in Tasks : Covers(t, c) => c \notin Plan(t)

LetGo(c) == CutShort(c) \/ Refused(c) \/ Misplaced(c)
            \/ LeftToFailure(c) \/ Withdrawn(c) \/ LeftToCancelled(c)

\* The at-least-once promise of reconcileCommentsOnCompletion, with every way in
\* which the code breaks it: a comment is accounted for from its post on, and stays
\* so until it is deleted or a step of one of the six kinds above lets it go. Outside
\* of these no merge, claim, partial receipt, requeue, completion, reconcile or retry
\* loses a comment, and no edit or deletion loses one of the batches it cancels.
NoSilentLoss ==
    [][\A c \in Existing' :
          AccountedFor(c) \/ c \notin Existing => AccountedFor(c)' \/ LetGo(c)]_vars

\* The receipt is settled when the run starts: a late or repeated finalization
\* never rewrites what a running or finished row has received.
ReceiptSettledAtStart ==
    [][\A t \in Tasks : In(t, {"running", "completed"})
                          => row'[t].delivered = row[t].delivered]_vars
=============================================================================
