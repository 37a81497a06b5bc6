------------------------ MODULE CommentDeliveryProofs ------------------------
(***************************************************************************)
(* Theorems about CommentDelivery, for any number of comments, rows,       *)
(* requests and polls: no comment is lost but in the ways NoSilentLoss     *)
(* names, and a receipt is settled when its run starts.                    *)
(***************************************************************************)
EXTENDS CommentDelivery, FiniteSetTheorems, TLAPS

-----------------------------------------------------------------------------
(* The typing invariant                                                     *)

Final == {"completed", "failed", "cancelled"}

\* The comments of a state of a request: Remaining(h) is Left(handler[h]).
Left(s) == s.todo \cup ({s.last} \ {NoComment})

HandlerOK(s) ==
    /\ s \in Handler
    /\ s.pc \in {"idle", "list", "retry"} => s.todo = {} /\ s.last = NoComment
    /\ s.pc \in {"list", "retry"} => s.task \in Tasks
    /\ s.pc = "deleting" => s.last # NoComment
    /\ s.pc \in {"compute", "merge", "active", "insert"} => Left(s) # {}

\* What a request and an execution know of the status of their row.
StatusKnown ==
    /\ \A h \in Handlers :
         /\ handler[h].pc = "list" => In(handler[h].task, Final)
         /\ handler[h].pc = "retry" =>
              /\ In(handler[h].task, {"failed"})
              /\ row[handler[h].task].attempt < MaxAttempts
    /\ \A t \in Tasks :
         exec[t] \in {"started", "reported"} => In(t, {"running"} \cup Final)

TypeInv ==
    /\ TypeOK
    /\ \A h \in Handlers : HandlerOK(handler[h])
    /\ StatusKnown

\* A non-empty set of comments has an oldest one.
LEMMA OldestExists ==
    ASSUME NEW n \in Nat, NEW S \in SUBSET (1 .. n), S # {}
    PROVE  Oldest(S) \in S
<1>. DEFINE Below(c) == {d \in S : d < c}
            F == {Below(c) : c \in S}
<1>0. S \subseteq Int
  OBVIOUS
<1>1. IsFiniteSet(S)
  <2>1. IsFiniteSet(1 .. n)
    BY FS_Interval
  <2>. QED
    BY <2>1, FS_Subset
<1>2. IsWellFoundedOn(StrictSubsetOrdering(S), FiniteSubsetsOf(S))
  BY <1>1, FS_StrictSubsetOrderingWellFounded
<1>3. \A c \in S : Below(c) \in FiniteSubsetsOf(S)
  BY <1>1, FS_Subset DEF FiniteSubsetsOf
<1>4. F \subseteq FiniteSubsetsOf(S) /\ F # {}
  BY <1>3
<1>5. \E A \in F : \A B \in F : <<B, A>> \notin StrictSubsetOrdering(S)
  BY <1>2, <1>4, WFMin
<1>6. PICK c \in S : \A d \in S : <<Below(d), Below(c)>> \notin StrictSubsetOrdering(S)
  BY <1>5
<1>7. ASSUME NEW d \in S, ~(c <= d) PROVE FALSE
  <2>1. d < c
    BY <1>0, <1>7
  <2>2. Below(d) \subseteq Below(c) /\ d \in Below(c) /\ d \notin Below(d)
    <3>1. \A x \in S : x < d => x < c
      BY <1>0, <2>1
    <3>2. ~(d < d)
      BY <1>0
    <3>. QED
      BY <2>1, <3>1, <3>2
  <2>3. Below(d) \in SUBSET S /\ Below(c) \in SUBSET S /\ Below(d) # Below(c)
    BY <2>2
  <2>4. <<Below(d), Below(c)>> \notin StrictSubsetOrdering(S)
    BY <1>6
  <2>. HIDE DEF Below
  <2>. QED
    BY <2>2, <2>3, <2>4 DEF StrictSubsetOrdering
<1>. QED
  BY <1>7 DEF Oldest

\* The comment a request is at.
LEMMA CurrentType ==
    ASSUME TypeInv, NEW h \in Handlers,
           handler[h].pc \in {"compute", "merge", "active", "insert"}
    PROVE  Current(h) \in Comments
<1>1. /\ handler[h].todo \in SUBSET (1 .. MaxComments)
      /\ handler[h].last \in Comments \cup {NoComment}
      /\ Left(handler[h]) # {}
  BY DEF TypeInv, HandlerOK, Handler, Comments
<1>2. MaxComments \in Nat
  BY LimitsAssumption
<1>3. CASE handler[h].todo # {}
  <2>1. Oldest(handler[h].todo) \in handler[h].todo
    BY <1>1, <1>2, <1>3, OldestExists
  <2>. QED
    BY <1>1, <1>3, <2>1 DEF Current, Comments
<1>4. CASE handler[h].todo = {}
  BY <1>1, <1>4 DEF Current, Left
<1>. QED
  BY <1>3, <1>4

\* What Replaying leaves to do.
LEMMA ReplayingType ==
    ASSUME NEW todo \in SUBSET Comments, NEW last \in Comments \cup {NoComment}
    PROVE  /\ HandlerOK(Replaying(todo, last))
           /\ Left(Replaying(todo, last)) = todo \cup ({last} \ {NoComment})
           /\ Replaying(todo, last).pc \in {"idle", "compute"}
  BY DEF Replaying, IdleHandler, HandlerOK, Handler, HandlerPc, Left

\* Only the comment under way leaves the request.
LEMMA RestType ==
    ASSUME TypeInv, NEW h \in Handlers
    PROVE  /\ HandlerOK(Rest(h))
           /\ Left(handler[h]) \subseteq Left(Rest(h)) \cup {Current(h)}
           /\ Rest(h).pc \in {"idle", "compute"}
<1>1. /\ handler[h].todo \in SUBSET Comments
      /\ handler[h].last \in Comments \cup {NoComment}
  BY DEF TypeInv, HandlerOK, Handler
<1>2. CASE handler[h].todo # {}
  <2>1. handler[h].todo \ {Current(h)} \in SUBSET Comments
    BY <1>1
  <2>2. Rest(h) = Replaying(handler[h].todo \ {Current(h)}, handler[h].last)
    BY <1>2 DEF Rest
  <2>3. /\ HandlerOK(Rest(h))
        /\ Left(Rest(h)) = (handler[h].todo \ {Current(h)})
                             \cup ({handler[h].last} \ {NoComment})
        /\ Rest(h).pc \in {"idle", "compute"}
    BY <1>1, <2>1, <2>2, ReplayingType
  <2>. QED
    BY <2>3 DEF Left
<1>3. CASE handler[h].todo = {}
  BY <1>3 DEF Rest, Current, IdleHandler, HandlerOK, Handler, HandlerPc, Left
<1>. QED
  BY <1>2, <1>3

-----------------------------------------------------------------------------
(* What one step does to one row                                            *)

\* A row keeps its birth, its attempt and the comments of its plan that exist.
KeepsRow(t) ==
    /\ row'[t].born = row[t].born
    /\ row'[t].attempt = row[t].attempt
    /\ Plan(t) \subseteq Plan(t)' \cup deleted'

\* An edit or a deletion, or the repair of a stale plan, cancels rows.
Cancels ==
    \E h \in Handlers :
        \/ \E d \in Comments : UpdateComment(h, d) \/ StartDeleteComment(h, d)
        \/ \E p \in Pollers : RepairStalePlan(p, h)

Replayed(S) == \A c \in S \ deleted' : \E h \in Handlers : c \in Left(handler'[h])

\* The request that completes a row goes on to list it, the one that fails it may go
\* on to retry it, and the one that cancels it replays its plan.
StatusMoves(t) ==
    \/ /\ row'[t].status = row[t].status
       /\ \/ row'[t].delivered = row[t].delivered
          \/ In(t, {"dispatched"}) /\ row'[t].delivered \subseteq Plan(t)'
    \/ /\ In(t, {"dispatched"})
       /\ row'[t].status = "queued"
       /\ row'[t].delivered = {}
    \/ /\ row'[t].delivered = row[t].delivered
       /\ \/ In(t, {"queued"}) /\ row'[t].status = "dispatched"
          \/ In(t, {"dispatched"}) /\ row'[t].status = "running"
          \/ /\ In(t, {"dispatched", "running"})
             /\ row'[t].status = "failed"
             /\ \E h \in Handlers :
                  /\ FailTask(h, t)
                  /\ \/ UNCHANGED handler
                     \/ handler'[h].pc = "retry" /\ handler'[h].task = t
          \/ /\ In(t, {"running"})
             /\ row'[t].status = "completed"
             /\ \E h \in Handlers : handler'[h].pc = "list" /\ handler'[h].task = t
          \/ /\ In(t, Active)
             /\ row'[t].status = "cancelled"
             /\ CancelTask(t) \/ (Cancels /\ Replayed(Plan(t)))

Created(t) ==
    /\ In(t, {"absent"})
    /\ row'[t].status = "queued"
    /\ row'[t].delivered = {}

RowSteps == \A t \in Tasks : (KeepsRow(t) /\ StatusMoves(t)) \/ Created(t)

\* A step that leaves the table alone.
LEMMA SameTable == ASSUME UNCHANGED row PROVE RowSteps
  BY DEF RowSteps, KeepsRow, StatusMoves, Plan

\* A new row.
LEMMA InsertRow ==
    ASSUME TypeInv, NEW t \in Tasks, NEW trigger, NEW coalesced, NEW sha, NEW n,
           In(t, {"absent"}),
           row' = [row EXCEPT ![t] = NewRow("queued", trigger, coalesced, sha, n)]
    PROVE  RowSteps
<1>. DEFINE new == NewRow("queued", trigger, coalesced, sha, n)
<1>1. new.status = "queued" /\ new.delivered = {}
  BY DEF NewRow
<1>2. row' = [row EXCEPT ![t] = new] /\ row \in [Tasks -> Row]
  BY DEF TypeInv, TypeOK
<1>. HIDE DEF new
<1>. QED
  BY <1>1, <1>2 DEF RowSteps, KeepsRow, StatusMoves, Created, Plan

\* One row changes in columns other than its plan.
LEMMA OneRow ==
    ASSUME TypeInv, NEW t \in Tasks, NEW new, row' = [row EXCEPT ![t] = new],
           new.trigger = row[t].trigger, new.coalesced = row[t].coalesced,
           new.born = row[t].born, new.attempt = row[t].attempt,
           StatusMoves(t)
    PROVE  RowSteps
<1>1. row \in [Tasks -> Row]
  BY DEF TypeInv, TypeOK
<1>2. row'[t] = new /\ \A u \in Tasks \ {t} : row'[u] = row[u]
  BY <1>1
<1>3. KeepsRow(t)
  BY <1>2 DEF KeepsRow, Plan
<1>4. \A u \in Tasks \ {t} : KeepsRow(u) /\ StatusMoves(u)
  BY <1>2 DEF KeepsRow, StatusMoves, Plan
<1>. QED
  BY <1>3, <1>4 DEF RowSteps

\* One row changes its status only.
LEMMA OneStatus ==
    ASSUME TypeInv, NEW t \in Tasks, NEW s,
           row' = [row EXCEPT ![t].status = s],
           row'[t].delivered = row[t].delivered => StatusMoves(t)
    PROVE  RowSteps
<1>. DEFINE new == [row[t] EXCEPT !.status = s]
<1>1. row \in [Tasks -> Row] /\ row[t] \in Row
  BY DEF TypeInv, TypeOK
<1>2. /\ new.trigger = row[t].trigger /\ new.coalesced = row[t].coalesced
      /\ new.born = row[t].born /\ new.attempt = row[t].attempt
      /\ new.delivered = row[t].delivered
  BY <1>1 DEF Row
<1>3. row' = [row EXCEPT ![t] = new]
  OBVIOUS
<1>. HIDE DEF new
<1>. QED
  BY <1>1, <1>2, <1>3, OneRow

\* Rows are cancelled and their comments replayed.
LEMMA CancelledRows ==
    ASSUME TypeInv, NEW S \in SUBSET Tasks, \A t \in S : In(t, Active),
           CancelTasksByTriggerComment(S), Cancels, Replayed(BatchOf(S))
    PROVE  RowSteps
<1> SUFFICES ASSUME NEW t \in Tasks PROVE KeepsRow(t) /\ StatusMoves(t)
  BY DEF RowSteps
<1>1. row[t] \in Row
  BY DEF TypeInv, TypeOK
<1>2. CASE t \notin S
  BY <1>2 DEF CancelTasksByTriggerComment, KeepsRow, StatusMoves, Plan
<1>3. CASE t \in S
  <2>1. row'[t] = [row[t] EXCEPT !.status = "cancelled"]
    BY <1>3 DEF CancelTasksByTriggerComment
  <2>2. /\ row'[t].status = "cancelled"
        /\ row'[t].delivered = row[t].delivered
        /\ row'[t].born = row[t].born /\ row'[t].attempt = row[t].attempt
        /\ Plan(t)' = Plan(t)
    BY <1>1, <2>1 DEF Row, Plan
  <2>3. Plan(t) \subseteq BatchOf(S)
    BY <1>3 DEF BatchOf
  <2>. QED
    BY <1>3, <2>2, <2>3 DEF KeepsRow, StatusMoves, Replayed
<1>. QED
  BY <1>2, <1>3

\* The requests that enqueue and replay comments.
LEMMA EnqueueRows == TypeInv /\ Enqueue => RowSteps
<1> SUFFICES ASSUME TypeInv, NEW h \in Handlers,
                    \/ CreateComment(h)
                    \/ ComputeTriggers(h)
                    \/ MergeCommentIntoPendingTask(h)
                    \/ HasActiveTaskForIssueAndAgent(h)
                    \/ EnqueueSingleCommentTrigger(h)
                    \/ ReconcileCommentsOnCompletion(h)
                    \/ MaybeRetryFailedTask(h)
                    \/ AbortHandler(h)
             PROVE  RowSteps
  BY DEF Enqueue
<1>1. CASE UNCHANGED row
  BY <1>1, SameTable
<1>2. CASE MergeCommentIntoPendingTask(h)
  <2>. DEFINE c == Current(h)
              queued == {t \in Tasks : In(t, {"queued"})}
              merged(t) == [row[t] EXCEPT !.trigger = c, !.coalesced = Plan(t) \ {c}]
  <2>1. c \in Comments /\ NoComment \notin Comments
    <3>1. handler[h].pc = "merge"
      BY <1>2 DEF MergeCommentIntoPendingTask
    <3>. QED
      BY <3>1, CurrentType DEF Comments, NoComment
  <2>2. CASE row' = [t \in Tasks |-> IF t \notin queued THEN row[t] ELSE merged(t)]
    <3> SUFFICES ASSUME NEW t \in Tasks PROVE KeepsRow(t) /\ StatusMoves(t)
      BY DEF RowSteps
    <3>1. row[t] \in Row
      BY DEF TypeInv, TypeOK
    <3>2. CASE t \in queued
      <4>1. row'[t] = merged(t)
        BY <2>2, <3>2
      <4>2. /\ row'[t].trigger = c /\ row'[t].coalesced = Plan(t) \ {c}
            /\ row'[t].status = row[t].status
            /\ row'[t].delivered = row[t].delivered
            /\ row'[t].born = row[t].born /\ row'[t].attempt = row[t].attempt
        BY <3>1, <4>1 DEF Row
      <4>3. Plan(t)' = (Plan(t) \ {c}) \cup {c}
        BY <2>1, <4>2 DEF Plan
      <4>. QED
        BY <4>2, <4>3 DEF KeepsRow, StatusMoves
    <3>3. CASE t \notin queued
      <4>1. row'[t] = row[t]
        BY <2>2, <3>3
      <4>. QED
        BY <4>1 DEF KeepsRow, StatusMoves, Plan
    <3>. QED
      BY <3>2, <3>3
  <2>. QED
    BY <1>1, <1>2, <2>2 DEF MergeCommentIntoPendingTask
<1>3. CASE EnqueueSingleCommentTrigger(h)
  <2>1. ASSUME NEW t \in Tasks, NEW sha, In(t, {"absent"}),
               row' = [row EXCEPT ![t] = NewRow("queued", Current(h), {}, sha, 1)]
        PROVE  RowSteps
    BY <2>1, InsertRow
  <2>. QED
    BY <1>1, <1>3, <2>1 DEF EnqueueSingleCommentTrigger
<1>4. CASE MaybeRetryFailedTask(h)
  <2>. DEFINE t == handler[h].task
  <2>1. ASSUME NEW c \in Tasks, In(c, {"absent"}),
               row' = [row EXCEPT ![c] = NewRow("queued", row[t].trigger,
                           row[t].coalesced, row[t].head, row[t].attempt + 1)]
        PROVE  RowSteps
    <3>. HIDE DEF t
    <3>. QED
      BY <2>1, InsertRow
  <2>. QED
    BY <1>1, <1>4, <2>1 DEF MaybeRetryFailedTask
<1>. QED
  BY <1>1, <1>2, <1>3, <1>4
  DEF CreateComment, ComputeTriggers, HasActiveTaskForIssueAndAgent,
      ReconcileCommentsOnCompletion, AbortHandler

\* The polls. A receipt names comments of the plan only.
LEMMA ClaimRows == TypeInv /\ Claim => RowSteps
<1> SUFFICES ASSUME TypeInv, NEW p \in Pollers,
                    \/ ClaimAgentTask(p)
                    \/ ReclaimStaleDispatchedTask(p)
                    \/ FinalizeTaskClaim(p)
                    \/ RequeueTaskAfterClaimFailure(p)
                    \/ AbortPoll(p)
                    \/ \E h \in Handlers : RepairStalePlan(p, h)
             PROVE  RowSteps
  BY DEF Claim
<1>1. CASE UNCHANGED row
  BY <1>1, SameTable
<1>2. poll[p].task # None => poll[p].task \in Tasks
  BY DEF TypeInv, TypeOK, Poll
<1>3. ASSUME NEW t \in Tasks, In(t, {"queued", "dispatched"}), TakeClaim(p, t)
      PROVE  RowSteps
  <2>. DEFINE new == [row[t] EXCEPT !.status = "dispatched",
                                !.claim = row[t].claim + 1]
  <2>1. row[t] \in Row /\ row \in [Tasks -> Row]
    BY DEF TypeInv, TypeOK
  <2>2. /\ new.trigger = row[t].trigger /\ new.coalesced = row[t].coalesced
        /\ new.born = row[t].born /\ new.attempt = row[t].attempt
        /\ new.delivered = row[t].delivered /\ new.status = "dispatched"
    BY <2>1 DEF Row
  <2>3. row' = [row EXCEPT ![t] = new]
    BY <1>3 DEF TakeClaim
  <2>. HIDE DEF new
  <2>4. row'[t] = new
    BY <2>1, <2>3
  <2>5. StatusMoves(t)
    BY <1>3, <2>2, <2>4 DEF StatusMoves, In
  <2>. QED
    BY <2>2, <2>3, <2>5, OneRow
<1>4. CASE ClaimAgentTask(p) \/ ReclaimStaleDispatchedTask(p)
  BY <1>3, <1>4 DEF ClaimAgentTask, ReclaimStaleDispatchedTask, In
<1>5. CASE FinalizeTaskClaim(p)
  <2>1. PICK t \in Tasks : t = poll[p].task
    BY <1>2, <1>5 DEF FinalizeTaskClaim
  <2>2. ASSUME NEW S, ReceiptAccepted(p, S), row' = [row EXCEPT ![t].delivered = S]
        PROVE  RowSteps
    <3>. DEFINE new == [row[t] EXCEPT !.delivered = S]
    <3>1. row[t] \in Row /\ row \in [Tasks -> Row]
      BY <2>1 DEF TypeInv, TypeOK
    <3>2. /\ new.trigger = row[t].trigger /\ new.coalesced = row[t].coalesced
          /\ new.born = row[t].born /\ new.attempt = row[t].attempt
          /\ new.delivered = S /\ new.status = row[t].status
      BY <3>1 DEF Row
    <3>3. row' = [row EXCEPT ![t] = new]
      BY <2>2
    <3>4. In(t, {"dispatched"}) /\ S \subseteq Plan(t)
      BY <2>1, <2>2 DEF ReceiptAccepted
    <3>. HIDE DEF new
    <3>5. row'[t] = new
      BY <2>1, <3>1, <3>3
    <3>6. StatusMoves(t)
      <4>1. Plan(t)' = Plan(t)
        BY <3>2, <3>5 DEF Plan
      <4>. QED
        BY <3>2, <3>4, <3>5, <4>1 DEF StatusMoves
    <3>. QED
      BY <2>1, <3>2, <3>3, <3>6, OneRow
  <2>. QED
    BY <1>1, <1>5, <2>1, <2>2 DEF FinalizeTaskClaim
<1>6. CASE RequeueTaskAfterClaimFailure(p)
  <2>1. PICK t \in Tasks : t = poll[p].task
    BY <1>2, <1>6 DEF RequeueTaskAfterClaimFailure
  <2>. DEFINE new == [row[t] EXCEPT !.status = "queued", !.delivered = {}]
  <2>2. CASE In(t, {"dispatched"}) /\ row' = [row EXCEPT ![t] = new]
    <3>1. row[t] \in Row /\ row \in [Tasks -> Row]
      BY <2>1 DEF TypeInv, TypeOK
    <3>2. /\ new.trigger = row[t].trigger /\ new.coalesced = row[t].coalesced
          /\ new.born = row[t].born /\ new.attempt = row[t].attempt
          /\ new.delivered = {} /\ new.status = "queued"
      BY <3>1 DEF Row
    <3>. HIDE DEF new
    <3>3. row'[t] = new
      BY <2>1, <2>2, <3>1
    <3>4. StatusMoves(t)
      BY <2>2, <3>2, <3>3 DEF StatusMoves
    <3>. QED
      BY <2>1, <2>2, <3>2, <3>4, OneRow
  <2>. QED
    BY <1>1, <1>6, <2>1, <2>2 DEF RequeueTaskAfterClaimFailure
<1>7. ASSUME NEW h \in Handlers, RepairStalePlan(p, h)
      PROVE  RowSteps
  <2>1. PICK t \in Tasks : t = poll[p].task
    BY <1>2, <1>7 DEF RepairStalePlan
  <2>2. CASE In(t, Active) /\ row' = [row EXCEPT ![t].status = "cancelled"]
    <3>1. row[t] \in Row /\ row \in [Tasks -> Row]
      BY <2>1 DEF TypeInv, TypeOK
    <3>2. Plan(t) \ deleted \in SUBSET Comments
      BY <3>1 DEF Row, Plan
    <3>3. Left(handler'[h]) = Plan(t) \ deleted /\ deleted' = deleted
      <4>1. handler'[h] = Replaying(Plan(t) \ deleted, NoComment)
        BY <1>7, <2>1 DEF RepairStalePlan, HandlerTo, TypeInv, TypeOK
      <4>. QED
        BY <1>7, <3>2, <4>1, ReplayingType DEF RepairStalePlan
    <3>4. row'[t].status = "cancelled"
      BY <2>1, <2>2, <3>1 DEF Row
    <3>5. Cancels /\ Replayed(Plan(t))
      BY <1>7, <3>3 DEF Cancels, Replayed
    <3>6. row'[t].delivered = row[t].delivered => StatusMoves(t)
      BY <2>2, <3>4, <3>5 DEF StatusMoves
    <3>. QED
      BY <2>1, <2>2, <3>6, OneStatus
  <2>. QED
    BY <1>1, <1>7, <2>1, <2>2 DEF RepairStalePlan
<1>. QED
  BY <1>1, <1>4, <1>5, <1>6, <1>7 DEF AbortPoll

\* The run of a row.
LEMMA RunRows == TypeInv /\ Run => RowSteps
<1> SUFFICES ASSUME TypeInv, NEW t \in Tasks,
                    \/ EnqueueTaskForIssue(t)
                    \/ StartTask(t)
                    \/ CancelTask(t)
                    \/ \E h \in Handlers : CompleteTask(h, t) \/ FailTask(h, t)
             PROVE  RowSteps
  BY DEF Run
<1>1. CASE UNCHANGED row
  BY <1>1, SameTable
<1>2. ASSUME NEW s, row' = [row EXCEPT ![t].status = s]
      PROVE  row'[t].status = s
  BY <1>2 DEF TypeInv, TypeOK, Row
<1>3. CASE EnqueueTaskForIssue(t)
  BY <1>3, InsertRow DEF EnqueueTaskForIssue
<1>4. CASE StartTask(t)
  <2>1. In(t, {"dispatched"}) /\ row' = [row EXCEPT ![t].status = "running"]
    BY <1>4 DEF StartTask
  <2>2. row'[t].delivered = row[t].delivered => StatusMoves(t)
    BY <1>2, <2>1 DEF StatusMoves
  <2>. QED
    BY <2>1, <2>2, OneStatus
<1>5. CASE CancelTask(t)
  <2>1. In(t, Active) /\ row' = [row EXCEPT ![t].status = "cancelled"]
    BY <1>5 DEF CancelTask
  <2>2. row'[t].delivered = row[t].delivered => StatusMoves(t)
    BY <1>2, <1>5, <2>1 DEF StatusMoves
  <2>. QED
    BY <2>1, <2>2, OneStatus
<1>6. ASSUME NEW h \in Handlers, CompleteTask(h, t)
      PROVE  RowSteps
  <2>1. CASE In(t, {"running"}) /\ row' = [row EXCEPT ![t].status = "completed"]
    <3>1. handler'[h].pc = "list" /\ handler'[h].task = t
      BY <1>6 DEF CompleteTask, HandlerTo, IdleHandler, TypeInv, TypeOK
    <3>2. row'[t].delivered = row[t].delivered => StatusMoves(t)
      BY <1>2, <2>1, <3>1 DEF StatusMoves
    <3>. QED
      BY <2>1, <3>2, OneStatus
  <2>. QED
    BY <1>1, <1>6, <2>1 DEF CompleteTask
<1>7. ASSUME NEW h \in Handlers, FailTask(h, t)
      PROVE  RowSteps
  <2>1. /\ In(t, {"dispatched", "running"})
        /\ row' = [row EXCEPT ![t].status = "failed"]
    BY <1>7 DEF FailTask
  <2>2. UNCHANGED handler \/ (handler'[h].pc = "retry" /\ handler'[h].task = t)
    <3>. DEFINE st == [IdleHandler EXCEPT !.pc = "retry", !.task = t]
    <3>1. st.pc = "retry" /\ st.task = t
      BY DEF IdleHandler
    <3>2. UNCHANGED handler \/ HandlerTo(h, st)
      BY <1>7 DEF FailTask
    <3>. HIDE DEF st
    <3>. QED
      BY <3>1, <3>2 DEF HandlerTo, TypeInv, TypeOK
  <2>3. row'[t].delivered = row[t].delivered => StatusMoves(t)
    BY <1>2, <1>7, <2>1, <2>2 DEF StatusMoves
  <2>. QED
    BY <2>1, <2>3, OneStatus
<1>. QED
  BY <1>3, <1>4, <1>5, <1>6, <1>7

\* The edits and deletions: what they cancel they replay.
LEMMA RewriteRows == TypeInv /\ Rewrite => RowSteps
<1> SUFFICES ASSUME TypeInv, NEW h \in Handlers,
                    \/ \E c \in Comments : UpdateComment(h, c) \/ StartDeleteComment(h, c)
                    \/ DeleteComment(h)
                    \/ DeleteCommentFails(h)
             PROVE  RowSteps
  BY DEF Rewrite
<1>1. ASSUME NEW S \in SUBSET Tasks PROVE BatchOf(S) \in SUBSET Comments
  BY DEF BatchOf, Plan, TypeInv, TypeOK, Row
<1>2. \A c \in Comments : /\ PlannedIn(c) \in SUBSET Tasks
                          /\ \A t \in PlannedIn(c) : In(t, Active)
  BY DEF PlannedIn
<1>3. ASSUME NEW st, HandlerTo(h, st) PROVE handler'[h] = st
  BY <1>3 DEF HandlerTo, TypeInv, TypeOK
<1>4. ASSUME NEW c \in Comments, UpdateComment(h, c)
      PROVE  RowSteps
  <2>. DEFINE S == PlannedIn(c)
  <2>1. BatchOf(S) \in SUBSET Comments
    BY <1>1, <1>2
  <2>2. NoComment \notin Comments /\ deleted' = deleted
    BY <1>4 DEF Comments, NoComment, UpdateComment
  <2>3. \/ handler'[h] = Replaying(BatchOf(S) \ ({c} \cup deleted), c)
        \/ handler'[h] = Replaying(BatchOf(S) \ deleted, NoComment)
    BY <1>3, <1>4 DEF UpdateComment
  <2>4. BatchOf(S) \ deleted' \subseteq Left(handler'[h])
    <3>1. CASE handler'[h] = Replaying(BatchOf(S) \ ({c} \cup deleted), c)
      <4>1. Left(handler'[h]) = (BatchOf(S) \ ({c} \cup deleted)) \cup ({c} \ {NoComment})
        BY <2>1, <3>1, ReplayingType
      <4>. QED
        BY <2>2, <4>1
    <3>2. CASE handler'[h] = Replaying(BatchOf(S) \ deleted, NoComment)
      <4>1. Left(handler'[h]) = (BatchOf(S) \ deleted) \cup ({NoComment} \ {NoComment})
        BY <2>1, <3>2, ReplayingType
      <4>. QED
        BY <2>2, <4>1
    <3>. QED
      BY <2>3, <3>1, <3>2
  <2>5. CancelTasksByTriggerComment(S)
    BY <1>4 DEF UpdateComment
  <2>6. Cancels /\ Replayed(BatchOf(S))
    BY <1>4, <2>4 DEF Cancels, Replayed
  <2>. QED
    BY <1>2, <2>5, <2>6, CancelledRows
<1>5. ASSUME NEW c \in Comments, StartDeleteComment(h, c)
      PROVE  RowSteps
  <2>1. PICK S \in {PlannedIn(c), {}} :
          /\ CancelTasksByTriggerComment(S)
          /\ HandlerTo(h, [pc |-> "deleting", last |-> c, task |-> None,
                           todo |-> BatchOf(S) \ ({c} \cup deleted)])
    BY <1>5 DEF StartDeleteComment
  <2>2. S \in SUBSET Tasks /\ \A t \in S : In(t, Active)
    BY <1>2
  <2>3. NoComment \notin Comments /\ deleted' = deleted
    BY <1>5 DEF Comments, NoComment, StartDeleteComment
  <2>4. handler'[h].last = c /\ handler'[h].todo = BatchOf(S) \ ({c} \cup deleted)
    BY <1>3, <2>1
  <2>5. BatchOf(S) \ deleted' \subseteq Left(handler'[h])
    BY <2>3, <2>4 DEF Left
  <2>6. Cancels /\ Replayed(BatchOf(S))
    BY <1>5, <2>5 DEF Cancels, Replayed
  <2>. QED
    BY <2>1, <2>2, <2>6, CancelledRows
<1>6. CASE DeleteComment(h)
  <2> SUFFICES ASSUME NEW t \in Tasks PROVE KeepsRow(t) /\ StatusMoves(t)
    BY DEF RowSteps
  <2>. DEFINE c == handler[h].last
  <2>1. /\ deleted' = deleted \cup {c}
        /\ row' = [u \in Tasks |-> IF row[u].trigger = c
                                   THEN [row[u] EXCEPT !.trigger = NoComment]
                                   ELSE row[u]]
    BY <1>6 DEF DeleteComment
  <2>2. row[t] \in Row
    BY DEF TypeInv, TypeOK
  <2>3. CASE row[t].trigger = c
    <3>1. row'[t] = [row[t] EXCEPT !.trigger = NoComment]
      BY <2>1, <2>3
    <3>2. /\ row'[t].trigger = NoComment
          /\ row'[t].coalesced = row[t].coalesced
          /\ row'[t].status = row[t].status
          /\ row'[t].delivered = row[t].delivered
          /\ row'[t].born = row[t].born /\ row'[t].attempt = row[t].attempt
      BY <2>2, <3>1 DEF Row
    <3>. QED
      BY <2>1, <2>3, <3>2 DEF KeepsRow, StatusMoves, Plan
  <2>4. CASE row[t].trigger # c
    <3>1. row'[t] = row[t]
      BY <2>1, <2>4
    <3>. QED
      BY <3>1 DEF KeepsRow, StatusMoves, Plan
  <2>. QED
    BY <2>3, <2>4
<1>7. CASE DeleteCommentFails(h)
  BY <1>7, SameTable DEF DeleteCommentFails
<1>. QED
  BY <1>4, <1>5, <1>6, <1>7

\* So every step of the model is one of these for every row.
LEMMA RowLemma == TypeInv /\ [Next]_vars => RowSteps
  BY EnqueueRows, ClaimRows, RunRows, RewriteRows, SameTable
     DEF Next, vars, UpsertGitHubPullRequest

-----------------------------------------------------------------------------
(* Every step keeps the typing invariant                                    *)

\* A final row stays as it is, a running one runs or ends.
LEMMA FinalStays ==
    ASSUME RowSteps, NEW t \in Tasks
    PROVE  /\ In(t, Final) => /\ row'[t].status = row[t].status
                              /\ row'[t].delivered = row[t].delivered
                              /\ row'[t].attempt = row[t].attempt
                              /\ row'[t].born = row[t].born
                              /\ Plan(t) \subseteq Plan(t)' \cup deleted'
           /\ In(t, {"running"} \cup Final) => row'[t].status \in {"running"} \cup Final
  BY DEF RowSteps, KeepsRow, StatusMoves, Created, In, Final, Active, Pending

HandlersOK ==
    /\ handler \in [Handlers -> Handler]
    /\ \A h \in Handlers :
         /\ HandlerOK(handler[h])
         /\ handler[h].pc = "list" => In(handler[h].task, Final)
         /\ handler[h].pc = "retry" =>
              /\ In(handler[h].task, {"failed"})
              /\ row[handler[h].task].attempt < MaxAttempts

\* A request that keeps its state keeps what it knows.
LEMMA SameHandlers ==
    ASSUME TypeInv, RowSteps, UNCHANGED handler
    PROVE  HandlersOK'
<1>1. handler \in [Handlers -> Handler]
  BY DEF TypeInv, TypeOK
<1> SUFFICES ASSUME NEW h \in Handlers
             PROVE  /\ HandlerOK(handler[h])
                    /\ handler[h].pc = "list" => row'[handler[h].task].status \in Final
                    /\ handler[h].pc = "retry" =>
                         /\ row'[handler[h].task].status = "failed"
                         /\ row'[handler[h].task].attempt < MaxAttempts
  BY <1>1 DEF HandlersOK, In
<1>2. HandlerOK(handler[h])
  BY DEF TypeInv
<1>3. ASSUME handler[h].pc \in {"list", "retry"}
      PROVE  /\ row'[handler[h].task].status = row[handler[h].task].status
             /\ row'[handler[h].task].attempt = row[handler[h].task].attempt
  <2>1. handler[h].task \in Tasks /\ In(handler[h].task, Final)
    BY <1>3 DEF TypeInv, HandlerOK, StatusKnown, In, Final
  <2>. QED
    BY <2>1, FinalStays
<1>. QED
  BY <1>2, <1>3 DEF TypeInv, StatusKnown, In

\* One request moves to a state st.
LEMMA OneHandler ==
    ASSUME TypeInv, RowSteps, NEW h \in Handlers, NEW st, HandlerTo(h, st),
           HandlerOK(st),
           st.pc = "list" => row'[st.task].status \in Final,
           st.pc = "retry" => /\ row'[st.task].status = "failed"
                              /\ row'[st.task].attempt < MaxAttempts
    PROVE  HandlersOK'
<1>1. /\ handler \in [Handlers -> Handler]
      /\ handler' = [handler EXCEPT ![h] = st]
      /\ st \in Handler
  BY DEF TypeInv, TypeOK, HandlerTo, HandlerOK
<1> SUFFICES ASSUME NEW g \in Handlers
             PROVE  /\ HandlerOK(handler'[g])
                    /\ handler'[g].pc = "list" => row'[handler'[g].task].status \in Final
                    /\ handler'[g].pc = "retry" =>
                         /\ row'[handler'[g].task].status = "failed"
                         /\ row'[handler'[g].task].attempt < MaxAttempts
  BY <1>1 DEF HandlersOK, In, HandlerOK, Left
<1>2. CASE g = h
  <2>1. handler'[g] = st
    BY <1>1, <1>2
  <2>. QED
    BY <2>1
<1>3. CASE g # h
  <2>1. handler'[g] = handler[g]
    BY <1>1, <1>3
  <2>2. HandlerOK(handler[g])
    BY DEF TypeInv
  <2>3. ASSUME handler[g].pc \in {"list", "retry"}
        PROVE  /\ row'[handler[g].task].status = row[handler[g].task].status
               /\ row'[handler[g].task].attempt = row[handler[g].task].attempt
    <3>1. handler[g].task \in Tasks /\ In(handler[g].task, Final)
      BY <2>3 DEF TypeInv, HandlerOK, StatusKnown, In, Final
    <3>. QED
      BY <3>1, FinalStays
  <2>. QED
    BY <2>1, <2>2, <2>3 DEF TypeInv, StatusKnown, In
<1>. QED
  BY <1>2, <1>3

\* The rest of the invariant, for a step that leaves the executions alone.
LEMMA TypeFrame ==
    ASSUME TypeInv, RowSteps, HandlersOK',
           posted' \in 0 .. MaxComments, deleted' \subseteq Comments,
           row' \in [Tasks -> Row], poll' \in [Pollers -> Poll],
           head' \in Heads \cup {None},
           exec' \in [Tasks -> {"none", "received", "started", "reported"}],
           \A t \in Tasks : exec'[t] \in {"started", "reported"} =>
              exec[t] \in {"started", "reported"} \/ row'[t].status = "running"
    PROVE  TypeInv'
<1>1. TypeOK'
  BY DEF TypeOK, HandlersOK
<1>2. \A t \in Tasks : exec[t] \in {"started", "reported"} =>
         row'[t].status \in {"running"} \cup Final
  BY FinalStays DEF TypeInv, StatusKnown
<1>3. StatusKnown'
  BY <1>2 DEF StatusKnown, HandlersOK, In
<1>. QED
  BY <1>1, <1>3 DEF TypeInv, HandlersOK

\* A new row is well typed.
LEMMA NewRowType ==
    ASSUME TypeInv, NEW trigger \in Comments \cup {NoComment},
           NEW coalesced \in SUBSET Comments, NEW sha \in Heads \cup {None},
           NEW n \in 0 .. MaxAttempts
    PROVE  NewRow("queued", trigger, coalesced, sha, n) \in Row
<1>1. posted \in 0 .. MaxComments /\ 0 \in 0 .. MaxClaims
  BY LimitsAssumption DEF TypeInv, TypeOK
<1>2. "queued" \in Status
  BY DEF Status, Active, Pending
<1>. QED
  BY <1>1, <1>2 DEF NewRow, Row

\* The plan of a row is a set of comments, and what a completion replays too.
LEMMA PlanType ==
    ASSUME TypeInv, NEW t \in Tasks
    PROVE  Plan(t) \in SUBSET Comments /\ Undelivered(t) \in SUBSET Comments
<1>1. row[t] \in Row
  BY DEF TypeInv, TypeOK
<1>2. Plan(t) \in SUBSET Comments
  BY <1>1 DEF Plan, Row
<1>3. 1 .. posted \subseteq Comments
  BY LimitsAssumption DEF TypeInv, TypeOK, Comments
<1>. QED
  BY <1>2, <1>3 DEF Undelivered

\* The initial state is empty.
LEMMA TypeInit == Init => TypeInv
<1> SUFFICES ASSUME Init PROVE TypeInv
  OBVIOUS
<1>1. NewRow("absent", NoComment, {}, None, 0) \in Row
  BY LimitsAssumption DEF Init, NewRow, Row, Status
<1>2. IdleHandler \in Handler /\ HandlerOK(IdleHandler) /\ IdleHandler.pc = "idle"
  BY DEF IdleHandler, Handler, HandlerPc, HandlerOK
<1>3. IdlePoll \in Poll
  BY LimitsAssumption DEF IdlePoll, Poll
<1>4. 0 \in 0 .. MaxComments
  BY LimitsAssumption
<1>5. TypeOK
  BY <1>1, <1>2, <1>3, <1>4 DEF Init, TypeOK
<1>6. StatusKnown
  BY <1>2 DEF Init, StatusKnown
<1>. QED
  BY <1>2, <1>5, <1>6 DEF Init, TypeInv

\* A request at work on its current comment goes to the next statement.
LEMMA GoToType ==
    ASSUME TypeInv, NEW h \in Handlers, NEW pc \in {"merge", "active", "insert"},
           handler[h].pc \in {"compute", "merge", "active", "insert"}
    PROVE  /\ HandlerOK([handler[h] EXCEPT !.pc = pc])
           /\ [handler[h] EXCEPT !.pc = pc].pc = pc
           /\ Left([handler[h] EXCEPT !.pc = pc]) = Left(handler[h])
<1>1. handler[h] \in Handler /\ Left(handler[h]) # {}
  BY DEF TypeInv, HandlerOK
<1>. DEFINE st == [handler[h] EXCEPT !.pc = pc]
<1>2. /\ st \in Handler
      /\ st.pc = pc
      /\ st.todo = handler[h].todo
      /\ st.last = handler[h].last
  BY <1>1 DEF Handler, HandlerPc
<1>. HIDE DEF st
<1>. QED
  BY <1>1, <1>2 DEF HandlerOK, Left, st

\* The requests that enqueue and replay comments.
LEMMA EnqueueType == TypeInv /\ Enqueue => TypeInv'
<1> SUFFICES ASSUME TypeInv, NEW h \in Handlers,
                    \/ CreateComment(h)
                    \/ ComputeTriggers(h)
                    \/ MergeCommentIntoPendingTask(h)
                    \/ HasActiveTaskForIssueAndAgent(h)
                    \/ EnqueueSingleCommentTrigger(h)
                    \/ ReconcileCommentsOnCompletion(h)
                    \/ MaybeRetryFailedTask(h)
                    \/ AbortHandler(h)
             PROVE  TypeInv'
  BY DEF Enqueue
<1>1. RowSteps
  BY EnqueueRows DEF Enqueue
<1>2. ASSUME HandlersOK', posted' \in 0 .. MaxComments, row' \in [Tasks -> Row],
             UNCHANGED <<deleted, head, poll, exec>>
      PROVE  TypeInv'
  BY <1>1, <1>2, TypeFrame DEF TypeInv, TypeOK
<1>3. /\ posted \in 0 .. MaxComments /\ row \in [Tasks -> Row]
      /\ head \in Heads \cup {None}
      /\ HandlerOK(handler[h])
  BY DEF TypeInv, TypeOK
<1>4. HandlerOK(IdleHandler) /\ IdleHandler.pc = "idle"
  BY DEF IdleHandler, HandlerOK, Handler, HandlerPc
<1>5. ASSUME NEW st, HandlerTo(h, st), HandlerOK(st), st.pc \notin {"list", "retry"}
      PROVE  HandlersOK'
  BY <1>1, <1>5, OneHandler
<1>6. CASE CreateComment(h)
  <2>1. posted + 1 \in 0 .. MaxComments /\ posted + 1 \in Comments
    BY <1>3, <1>6, LimitsAssumption DEF CreateComment, Comments
  <2>2. /\ HandlerOK(Replaying({posted + 1}, NoComment))
        /\ Replaying({posted + 1}, NoComment).pc \in {"idle", "compute"}
    BY <2>1, ReplayingType
  <2>3. HandlersOK'
    BY <1>5, <1>6, <2>2 DEF CreateComment
  <2>. QED
    BY <1>2, <1>3, <1>6, <2>1, <2>3 DEF CreateComment
<1>7. CASE ComputeTriggers(h)
  <2>1. PICK pc \in {"merge", "insert"} : GoTo(h, pc)
    BY <1>7 DEF ComputeTriggers
  <2>2. HandlersOK'
    BY <1>5, <1>7, <2>1, GoToType DEF ComputeTriggers, GoTo
  <2>. QED
    BY <1>2, <1>3, <1>7, <2>2 DEF ComputeTriggers
<1>8. CASE MergeCommentIntoPendingTask(h)
  <2>1. handler[h].pc = "merge"
    BY <1>8 DEF MergeCommentIntoPendingTask
  <2>2. Current(h) \in Comments
    BY <2>1, CurrentType
  <2>3. HandlersOK'
    <3>1. GoTo(h, "active") \/ HandlerTo(h, Rest(h))
      BY <1>8 DEF MergeCommentIntoPendingTask
    <3>2. CASE GoTo(h, "active")
      BY <1>5, <2>1, <3>2, GoToType DEF GoTo
    <3>3. CASE HandlerTo(h, Rest(h))
      BY <1>5, <3>3, RestType
    <3>. QED
      BY <3>1, <3>2, <3>3
  <2>4. row' \in [Tasks -> Row]
    <3>. DEFINE queued == {t \in Tasks : In(t, {"queued"})}
                merged(t) == [row[t] EXCEPT !.trigger = Current(h),
                                            !.coalesced = Plan(t) \ {Current(h)}]
    <3>1. \/ UNCHANGED row
          \/ row' = [t \in Tasks |-> IF t \notin queued THEN row[t] ELSE merged(t)]
      BY <1>8 DEF MergeCommentIntoPendingTask
    <3>2. ASSUME NEW t \in Tasks PROVE merged(t) \in Row
      BY <1>3, <2>2, PlanType DEF Row
    <3>. QED
      BY <1>3, <3>1, <3>2
  <2>. QED
    BY <1>2, <1>3, <1>8, <2>3, <2>4 DEF MergeCommentIntoPendingTask
<1>9. CASE HasActiveTaskForIssueAndAgent(h)
  <2>1. handler[h].pc = "active"
    BY <1>9 DEF HasActiveTaskForIssueAndAgent
  <2>2. Current(h) \in Comments
    BY <2>1, CurrentType
  <2>3. HandlersOK'
    <3>1. GoTo(h, "insert") \/ HandlerTo(h, Rest(h))
      BY <1>9 DEF HasActiveTaskForIssueAndAgent
    <3>2. CASE GoTo(h, "insert")
      BY <1>5, <2>1, <3>2, GoToType DEF GoTo
    <3>3. CASE HandlerTo(h, Rest(h))
      BY <1>5, <3>3, RestType
    <3>. QED
      BY <3>1, <3>2, <3>3
  <2>. QED
    BY <1>2, <1>3, <1>9, <2>2, <2>3 DEF HasActiveTaskForIssueAndAgent
<1>10. CASE EnqueueSingleCommentTrigger(h)
  <2>1. handler[h].pc = "insert" /\ HandlerTo(h, Rest(h))
    BY <1>10 DEF EnqueueSingleCommentTrigger
  <2>2. Current(h) \in Comments
    BY <2>1, CurrentType
  <2>3. HandlersOK'
    BY <1>5, <2>1, RestType
  <2>4. 1 \in 0 .. MaxAttempts
    BY LimitsAssumption
  <2>5. \A sha \in ResolveIssueReviewSHA : NewRow("queued", Current(h), {}, sha, 1) \in Row
    BY <1>3, <2>2, <2>4, NewRowType DEF ResolveIssueReviewSHA
  <2>6. row' \in [Tasks -> Row]
    BY <1>3, <1>10, <2>5 DEF EnqueueSingleCommentTrigger
  <2>. QED
    BY <1>2, <1>3, <1>10, <2>3, <2>6 DEF EnqueueSingleCommentTrigger
<1>11. CASE ReconcileCommentsOnCompletion(h)
  <2>1. handler[h].task \in Tasks
    BY <1>3, <1>11 DEF ReconcileCommentsOnCompletion, HandlerOK
  <2>2. /\ HandlerOK(Replaying(Undelivered(handler[h].task), NoComment))
        /\ Replaying(Undelivered(handler[h].task), NoComment).pc \in {"idle", "compute"}
    BY <2>1, PlanType, ReplayingType
  <2>3. HandlersOK'
    BY <1>5, <1>11, <2>2 DEF ReconcileCommentsOnCompletion
  <2>. QED
    BY <1>2, <1>3, <1>11, <2>3 DEF ReconcileCommentsOnCompletion
<1>12. CASE MaybeRetryFailedTask(h)
  <2>. DEFINE t == handler[h].task
  <2>1. t \in Tasks /\ row[t].attempt < MaxAttempts
    BY <1>3, <1>12 DEF MaybeRetryFailedTask, HandlerOK, TypeInv, StatusKnown
  <2>2. row[t] \in Row
    BY <1>3, <2>1
  <2>3. /\ row[t].trigger \in Comments \cup {NoComment}
        /\ row[t].coalesced \in SUBSET Comments
        /\ row[t].head \in Heads \cup {None}
        /\ row[t].attempt \in 0 .. MaxAttempts
    BY <2>2 DEF Row
  <2>4. row[t].attempt + 1 \in 0 .. MaxAttempts
    BY <2>1, <2>3, LimitsAssumption
  <2>5. NewRow("queued", row[t].trigger, row[t].coalesced, row[t].head,
               row[t].attempt + 1) \in Row
    BY <2>3, <2>4, NewRowType
  <2>6. row' \in [Tasks -> Row]
    <3>. DEFINE new == NewRow("queued", row[t].trigger, row[t].coalesced,
                              row[t].head, row[t].attempt + 1)
    <3>1. UNCHANGED row \/ \E c \in Tasks : row' = [row EXCEPT ![c] = new]
      BY <1>12 DEF MaybeRetryFailedTask
    <3>. HIDE DEF new
    <3>2. new \in Row
      BY <2>5 DEF new
    <3>. QED
      BY <1>3, <3>1, <3>2
  <2>7. HandlersOK'
    BY <1>4, <1>5, <1>12 DEF MaybeRetryFailedTask
  <2>. QED
    BY <1>2, <1>3, <1>12, <2>6, <2>7 DEF MaybeRetryFailedTask
<1>13. CASE AbortHandler(h)
  <2>1. HandlersOK'
    BY <1>4, <1>5, <1>13 DEF AbortHandler
  <2>. QED
    BY <1>2, <1>3, <1>13, <2>1 DEF AbortHandler
<1>. QED
  BY <1>6, <1>7, <1>8, <1>9, <1>10, <1>11, <1>12, <1>13

\* The polls.
LEMMA ClaimType == TypeInv /\ Claim => TypeInv'
<1> SUFFICES ASSUME TypeInv, NEW p \in Pollers,
                    \/ ClaimAgentTask(p)
                    \/ ReclaimStaleDispatchedTask(p)
                    \/ FinalizeTaskClaim(p)
                    \/ RequeueTaskAfterClaimFailure(p)
                    \/ AbortPoll(p)
                    \/ \E h \in Handlers : RepairStalePlan(p, h)
             PROVE  TypeInv'
  BY DEF Claim
<1>1. RowSteps
  BY ClaimRows DEF Claim
<1>2. /\ row \in [Tasks -> Row] /\ poll \in [Pollers -> Poll]
      /\ exec \in [Tasks -> {"none", "received", "started", "reported"}]
  BY DEF TypeInv, TypeOK
<1>3. IdlePoll \in Poll
  BY LimitsAssumption DEF IdlePoll, Poll
<1>4. poll[p].task # None => poll[p].task \in Tasks
  BY <1>2 DEF Poll
<1>5. \A s \in {"dispatched", "queued", "cancelled"} : s \in Status
  BY DEF Status, Active, Pending
<1>6. ASSUME HandlersOK', row' \in [Tasks -> Row], poll' \in [Pollers -> Poll],
             UNCHANGED <<posted, deleted, head, exec>>
      PROVE  TypeInv'
  BY <1>1, <1>6, TypeFrame DEF TypeInv, TypeOK
<1>7. ASSUME NEW t \in Tasks, TakeClaim(p, t) PROVE TypeInv'
  <2>1. row[t] \in Row
    BY <1>2
  <2>2. /\ row[t].claim + 1 \in 0 .. MaxClaims
        /\ row[t].trigger \in Comments \cup {NoComment}
        /\ row[t].coalesced \in SUBSET Comments
    BY <1>7, <2>1, LimitsAssumption DEF TakeClaim, Row
  <2>3. [row[t] EXCEPT !.status = "dispatched", !.claim = row[t].claim + 1] \in Row
    BY <1>5, <2>1, <2>2 DEF Row
  <2>4. row' \in [Tasks -> Row]
    BY <1>2, <1>7, <2>3 DEF TakeClaim
  <2>5. poll' \in [Pollers -> Poll]
    BY <1>2, <1>7, <2>2 DEF TakeClaim, Poll
  <2>. QED
    BY <1>1, <1>6, <1>7, <2>4, <2>5, SameHandlers DEF TakeClaim
<1>8. CASE ClaimAgentTask(p) \/ ReclaimStaleDispatchedTask(p)
  BY <1>7, <1>8 DEF ClaimAgentTask, ReclaimStaleDispatchedTask
<1>9. CASE FinalizeTaskClaim(p)
  <2>1. PICK t \in Tasks : t = poll[p].task
    BY <1>4, <1>9 DEF FinalizeTaskClaim
  <2>2. ASSUME NEW S, ReceiptAccepted(p, S), row' = [row EXCEPT ![t].delivered = S]
        PROVE  row' \in [Tasks -> Row]
    <3>1. S \in SUBSET Comments
      BY <2>1, <2>2, PlanType DEF ReceiptAccepted
    <3>. QED
      BY <1>2, <2>2, <3>1 DEF Row
  <2>3. row' \in [Tasks -> Row]
    BY <1>2, <1>9, <2>1, <2>2 DEF FinalizeTaskClaim
  <2>4. poll' \in [Pollers -> Poll] /\ HandlersOK'
    BY <1>1, <1>2, <1>3, <1>9, SameHandlers DEF FinalizeTaskClaim
  <2>5. exec' = exec \/ exec' = [exec EXCEPT ![t] = IF @ = "none" THEN "received" ELSE @]
    BY <1>9, <2>1 DEF FinalizeTaskClaim
  <2>6. /\ exec' \in [Tasks -> {"none", "received", "started", "reported"}]
        /\ \A u \in Tasks : exec'[u] \in {"started", "reported"} =>
              exec[u] \in {"started", "reported"}
    BY <1>2, <2>5
  <2>. QED
    BY <1>1, <1>9, <2>3, <2>4, <2>6, TypeFrame DEF FinalizeTaskClaim, TypeInv, TypeOK
<1>10. CASE RequeueTaskAfterClaimFailure(p)
  <2>1. PICK t \in Tasks : t = poll[p].task
    BY <1>4, <1>10 DEF RequeueTaskAfterClaimFailure
  <2>. DEFINE new == [row[t] EXCEPT !.status = "queued", !.delivered = {}]
  <2>2. UNCHANGED row \/ row' = [row EXCEPT ![t] = new]
    BY <1>10, <2>1 DEF RequeueTaskAfterClaimFailure
  <2>3. new \in Row
    BY <1>2, <1>5 DEF Row
  <2>. HIDE DEF new
  <2>4. row' \in [Tasks -> Row]
    BY <1>2, <2>2, <2>3
  <2>5. poll' \in [Pollers -> Poll] /\ HandlersOK'
    BY <1>1, <1>2, <1>3, <1>10, SameHandlers DEF RequeueTaskAfterClaimFailure
  <2>. QED
    BY <1>6, <1>10, <2>4, <2>5 DEF RequeueTaskAfterClaimFailure
<1>11. CASE AbortPoll(p)
  BY <1>1, <1>2, <1>3, <1>6, <1>11, SameHandlers DEF AbortPoll
<1>12. ASSUME NEW h \in Handlers, RepairStalePlan(p, h) PROVE TypeInv'
  <2>1. PICK t \in Tasks : t = poll[p].task
    BY <1>4, <1>12 DEF RepairStalePlan
  <2>2. row' \in [Tasks -> Row]
    BY <1>2, <1>5, <1>12, <2>1 DEF RepairStalePlan, Row
  <2>3. /\ HandlerTo(h, Replaying(Plan(t) \ deleted, NoComment))
        /\ Plan(t) \ deleted \in SUBSET Comments
    BY <1>12, <2>1, PlanType DEF RepairStalePlan
  <2>4. HandlersOK'
    <3>. DEFINE st == Replaying(Plan(t) \ deleted, NoComment)
    <3>1. HandlerOK(st) /\ st.pc \in {"idle", "compute"}
      BY <2>3, ReplayingType
    <3>. HIDE DEF st
    <3>. QED
      BY <1>1, <2>3, <3>1, OneHandler DEF st
  <2>. QED
    BY <1>2, <1>3, <1>6, <1>12, <2>2, <2>4 DEF RepairStalePlan
<1>. QED
  BY <1>8, <1>9, <1>10, <1>11, <1>12

\* The run of a row.
LEMMA RunType == TypeInv /\ Run => TypeInv'
<1> SUFFICES ASSUME TypeInv, NEW t \in Tasks,
                    \/ EnqueueTaskForIssue(t)
                    \/ StartTask(t)
                    \/ CancelTask(t)
                    \/ \E h \in Handlers : CompleteTask(h, t) \/ FailTask(h, t)
             PROVE  TypeInv'
  BY DEF Run
<1>1. RowSteps
  BY RunRows DEF Run
<1>2. /\ row \in [Tasks -> Row]
      /\ exec \in [Tasks -> {"none", "received", "started", "reported"}]
  BY DEF TypeInv, TypeOK
<1>3. ASSUME HandlersOK', row' \in [Tasks -> Row], UNCHANGED <<posted, deleted, head, poll>>,
             exec' \in [Tasks -> {"none", "received", "started", "reported"}],
             \A u \in Tasks : exec'[u] \in {"started", "reported"} =>
                exec[u] \in {"started", "reported"} \/ row'[u].status = "running"
      PROVE  TypeInv'
  BY <1>1, <1>3, TypeFrame DEF TypeInv, TypeOK
<1>4. ASSUME NEW s \in Status, row' = [row EXCEPT ![t].status = s]
      PROVE  row' \in [Tasks -> Row] /\ row'[t].status = s
  BY <1>2, <1>4 DEF Row
<1>5. \A s \in {"running", "completed", "failed", "cancelled"} : s \in Status
  BY DEF Status, Active
<1>6. CASE EnqueueTaskForIssue(t)
  <2>1. \A sha \in ResolveIssueReviewSHA : NewRow("queued", NoComment, {}, sha, 1) \in Row
    BY NewRowType, LimitsAssumption DEF ResolveIssueReviewSHA, TypeInv, TypeOK
  <2>2. row' \in [Tasks -> Row]
    BY <1>2, <1>6, <2>1 DEF EnqueueTaskForIssue
  <2>. QED
    BY <1>1, <1>2, <1>3, <1>6, <2>2, SameHandlers
    DEF EnqueueTaskForIssue, TypeInv, TypeOK
<1>7. CASE StartTask(t)
  <2>1. row' \in [Tasks -> Row] /\ row'[t].status = "running"
    BY <1>4, <1>5, <1>7 DEF StartTask
  <2>2. /\ exec' \in [Tasks -> {"none", "received", "started", "reported"}]
        /\ \A u \in Tasks : exec'[u] \in {"started", "reported"} =>
              exec[u] \in {"started", "reported"} \/ row'[u].status = "running"
    BY <1>2, <1>7, <2>1 DEF StartTask
  <2>. QED
    BY <1>1, <1>3, <1>7, <2>1, <2>2, SameHandlers DEF StartTask, TypeInv, TypeOK
<1>8. CASE CancelTask(t)
  <2>1. row' \in [Tasks -> Row]
    BY <1>4, <1>5, <1>8 DEF CancelTask
  <2>. QED
    BY <1>1, <1>2, <1>3, <1>8, <2>1, SameHandlers DEF CancelTask
<1>9. ASSUME NEW h \in Handlers, CompleteTask(h, t) PROVE TypeInv'
  <2>1. row' \in [Tasks -> Row]
    BY <1>2, <1>4, <1>5, <1>9 DEF CompleteTask
  <2>2. /\ exec' \in [Tasks -> {"none", "received", "started", "reported"}]
        /\ \A u \in Tasks : exec'[u] \in {"started", "reported"} =>
              exec[u] \in {"started", "reported"}
    BY <1>2, <1>9 DEF CompleteTask
  <2>3. row'[t].status \in Final
    <3>1. CASE In(t, {"running"})
      BY <1>4, <1>5, <1>9, <3>1 DEF CompleteTask, Final
    <3>2. CASE ~In(t, {"running"})
      BY <1>9, <3>2 DEF CompleteTask, TypeInv, StatusKnown, In, Final
    <3>. QED
      BY <3>1, <3>2
  <2>. DEFINE st == [IdleHandler EXCEPT !.pc = "list", !.task = t]
  <2>4. HandlerOK(st) /\ st.pc = "list" /\ st.task = t
    BY DEF IdleHandler, HandlerOK, Handler, HandlerPc
  <2>5. HandlerTo(h, st)
    BY <1>9 DEF CompleteTask
  <2>. HIDE DEF st
  <2>6. HandlersOK'
    BY <1>1, <2>3, <2>4, <2>5, OneHandler
  <2>. QED
    BY <1>3, <1>9, <2>1, <2>2, <2>6 DEF CompleteTask, TypeInv, TypeOK
<1>10. ASSUME NEW h \in Handlers, FailTask(h, t) PROVE TypeInv'
  <2>1. row' \in [Tasks -> Row] /\ row'[t].status = "failed"
    BY <1>4, <1>5, <1>10 DEF FailTask
  <2>. DEFINE st == [IdleHandler EXCEPT !.pc = "retry", !.task = t]
  <2>2. HandlerOK(st) /\ st.pc = "retry" /\ st.task = t
    BY DEF IdleHandler, HandlerOK, Handler, HandlerPc
  <2>3. UNCHANGED handler \/ (Retryable(t) /\ HandlerTo(h, st))
    BY <1>10 DEF FailTask
  <2>. HIDE DEF st
  <2>4. row'[t].attempt = row[t].attempt
    BY <1>2, <1>10 DEF FailTask, Row
  <2>5. HandlersOK'
    BY <1>1, <2>1, <2>2, <2>3, <2>4, OneHandler, SameHandlers DEF Retryable
  <2>. QED
    BY <1>2, <1>3, <1>10, <2>1, <2>5 DEF FailTask, TypeInv, TypeOK
<1>. QED
  BY <1>6, <1>7, <1>8, <1>9, <1>10

\* The edits and deletions.
LEMMA RewriteType == TypeInv /\ Rewrite => TypeInv'
<1> SUFFICES ASSUME TypeInv, NEW h \in Handlers,
                    \/ \E c \in Comments : UpdateComment(h, c) \/ StartDeleteComment(h, c)
                    \/ DeleteComment(h)
                    \/ DeleteCommentFails(h)
             PROVE  TypeInv'
  BY DEF Rewrite
<1>1. RowSteps
  BY RewriteRows DEF Rewrite
<1>2. row \in [Tasks -> Row] /\ HandlerOK(handler[h]) /\ deleted \subseteq Comments
  BY DEF TypeInv, TypeOK
<1>3. ASSUME HandlersOK', row' \in [Tasks -> Row], deleted' \subseteq Comments,
             UNCHANGED <<posted, head, poll, exec>>
      PROVE  TypeInv'
  BY <1>1, <1>3, TypeFrame DEF TypeInv, TypeOK
<1>4. ASSUME NEW st, HandlerTo(h, st), HandlerOK(st), st.pc \notin {"list", "retry"}
      PROVE  HandlersOK'
  BY <1>1, <1>4, OneHandler
<1>5. ASSUME NEW todo \in SUBSET Comments, NEW last \in Comments \cup {NoComment},
             HandlerTo(h, Replaying(todo, last))
      PROVE  HandlersOK'
  BY <1>4, <1>5, ReplayingType
<1>6. ASSUME NEW S \in SUBSET Tasks, CancelTasksByTriggerComment(S)
      PROVE  row' \in [Tasks -> Row] /\ BatchOf(S) \in SUBSET Comments
  <2>1. \A t \in Tasks : [row[t] EXCEPT !.status = "cancelled"] \in Row
    BY <1>2 DEF Row, Status
  <2>2. BatchOf(S) \in SUBSET Comments
    BY PlanType DEF BatchOf
  <2>. QED
    BY <1>2, <1>6, <2>1, <2>2 DEF CancelTasksByTriggerComment
<1>7. ASSUME NEW c \in Comments, UpdateComment(h, c) PROVE TypeInv'
  <2>. DEFINE S == PlannedIn(c)
  <2>1. S \in SUBSET Tasks /\ CancelTasksByTriggerComment(S)
    BY <1>7 DEF UpdateComment, PlannedIn
  <2>2. row' \in [Tasks -> Row] /\ BatchOf(S) \in SUBSET Comments
    BY <1>6, <2>1
  <2>3. \/ HandlerTo(h, Replaying(BatchOf(S) \ ({c} \cup deleted), c))
        \/ HandlerTo(h, Replaying(BatchOf(S) \ deleted, NoComment))
    BY <1>7 DEF UpdateComment
  <2>. HIDE DEF S
  <2>4. HandlersOK'
    BY <1>5, <2>2, <2>3
  <2>. QED
    BY <1>2, <1>3, <1>7, <2>2, <2>4 DEF UpdateComment
<1>8. ASSUME NEW c \in Comments, StartDeleteComment(h, c) PROVE TypeInv'
  <2>1. PICK S \in {PlannedIn(c), {}} :
          /\ CancelTasksByTriggerComment(S)
          /\ HandlerTo(h, [pc |-> "deleting", last |-> c, task |-> None,
                           todo |-> BatchOf(S) \ ({c} \cup deleted)])
    BY <1>8 DEF StartDeleteComment
  <2>2. S \in SUBSET Tasks
    BY DEF PlannedIn
  <2>3. row' \in [Tasks -> Row] /\ BatchOf(S) \in SUBSET Comments
    BY <1>6, <2>1, <2>2
  <2>. DEFINE st == [pc |-> "deleting", last |-> c, task |-> None,
                     todo |-> BatchOf(S) \ ({c} \cup deleted)]
  <2>4. HandlerOK(st) /\ st.pc = "deleting"
    BY <2>3 DEF HandlerOK, Handler, HandlerPc, Comments, NoComment
  <2>5. HandlerTo(h, st)
    BY <2>1
  <2>. HIDE DEF st
  <2>6. HandlersOK'
    BY <1>4, <2>4, <2>5
  <2>. QED
    BY <1>2, <1>3, <1>8, <2>3, <2>6 DEF StartDeleteComment
<1>9. /\ handler[h].todo \in SUBSET Comments
      /\ handler[h].last \in Comments \cup {NoComment}
      /\ handler[h].pc = "deleting" => handler[h].last \in Comments
  BY <1>2 DEF HandlerOK, Handler
<1>10. CASE DeleteComment(h)
  <2>1. HandlersOK'
    BY <1>5, <1>9, <1>10 DEF DeleteComment
  <2>2. deleted' \subseteq Comments
    BY <1>2, <1>9, <1>10 DEF DeleteComment
  <2>3. \A t \in Tasks : [row[t] EXCEPT !.trigger = NoComment] \in Row
    BY <1>2 DEF Row
  <2>4. row' \in [Tasks -> Row]
    BY <1>2, <1>10, <2>3 DEF DeleteComment
  <2>. QED
    BY <1>3, <1>10, <2>1, <2>2, <2>4 DEF DeleteComment
<1>11. CASE DeleteCommentFails(h)
  <2>1. handler[h].todo \cup {handler[h].last} \in SUBSET Comments
    BY <1>9, <1>11 DEF DeleteCommentFails
  <2>2. HandlersOK'
    BY <1>5, <1>11, <2>1 DEF DeleteCommentFails
  <2>. QED
    BY <1>2, <1>3, <1>11, <2>2 DEF DeleteCommentFails
<1>. QED
  BY <1>7, <1>8, <1>10, <1>11

\* The typing invariant is inductive.
LEMMA TypeStep == TypeInv /\ [Next]_vars => TypeInv'
<1> SUFFICES ASSUME TypeInv, [Next]_vars PROVE TypeInv'
  OBVIOUS
<1>1. CASE UNCHANGED vars
  <2>1. RowSteps /\ HandlersOK'
    BY <1>1, SameTable, SameHandlers DEF vars
  <2>. QED
    BY <1>1, <2>1, TypeFrame DEF vars, TypeInv, TypeOK
<1>2. CASE UpsertGitHubPullRequest
  <2>1. RowSteps /\ HandlersOK'
    BY <1>2, SameTable, SameHandlers DEF UpsertGitHubPullRequest
  <2>. QED
    BY <1>2, <2>1, TypeFrame DEF UpsertGitHubPullRequest, TypeInv, TypeOK
<1>3. CASE Next /\ ~UpsertGitHubPullRequest
  BY <1>3, EnqueueType, ClaimType, RunType, RewriteType DEF Next
<1>. QED
  BY <1>1, <1>2, <1>3

\* The typing invariant holds in every behaviour.
LEMMA TypeInvariant == Spec => []TypeInv
  BY TypeInit, TypeStep, PTL DEF Spec

\* Every variable of the delivery stays within its domain (TypeOK).
THEOREM TypeCorrectness == Spec => []TypeOK
<1>1. TypeInv => TypeOK
  BY DEF TypeInv
<1>. QED
  BY TypeInvariant, <1>1, PTL

\* No late or repeated finalization rewrites the receipt of a row that runs or is
\* completed (the guards of SetTaskDeliveredCommentIDs and of the requeue).
THEOREM Settled == Spec => ReceiptSettledAtStart
<1>1. ASSUME TypeInv, [Next]_vars
      PROVE  \A t \in Tasks : In(t, {"running", "completed"})
                                 => row'[t].delivered = row[t].delivered
  <2>1. RowSteps
    BY <1>1, RowLemma
  <2>. QED
    BY <2>1 DEF RowSteps, StatusMoves, Created, In
<1>. QED
  BY TypeInvariant, <1>1, PTL DEF Spec, ReceiptSettledAtStart

-----------------------------------------------------------------------------
(* No comment is lost silently                                              *)

\* A receipt names comments of the plan, or comments deleted since.
ReceiptInPlan == \A t \in Tasks : row[t].delivered \subseteq Plan(t) \cup deleted

\* Comments and deletions only grow.
Grows ==
    /\ 1 .. posted \subseteq 1 .. posted'
    /\ deleted \subseteq deleted'

\* No step takes a comment or a deletion back.
LEMMA GrowsStep == TypeInv /\ [Next]_vars => Grows
<1> SUFFICES ASSUME TypeInv, [Next]_vars PROVE Grows
  OBVIOUS
<1>1. posted \in Nat
  BY LimitsAssumption DEF TypeInv, TypeOK
<1>2. /\ posted' = posted \/ posted' = posted + 1
      /\ deleted \subseteq deleted'
  BY DEF Next, Enqueue, Claim, Run, Rewrite, vars, CreateComment, ComputeTriggers,
         MergeCommentIntoPendingTask, HasActiveTaskForIssueAndAgent,
         EnqueueSingleCommentTrigger, ReconcileCommentsOnCompletion,
         MaybeRetryFailedTask, AbortHandler, ClaimAgentTask,
         ReclaimStaleDispatchedTask, TakeClaim, FinalizeTaskClaim,
         RequeueTaskAfterClaimFailure, AbortPoll, RepairStalePlan,
         EnqueueTaskForIssue, StartTask, CancelTask, CompleteTask, FailTask,
         UpdateComment, StartDeleteComment, DeleteComment, DeleteCommentFails,
         UpsertGitHubPullRequest
<1>. QED
  BY <1>1, <1>2 DEF Grows

\* Receipts stay within their plans.
LEMMA ReceiptStep ==
    ASSUME ReceiptInPlan, RowSteps, Grows
    PROVE  ReceiptInPlan'
  BY DEF ReceiptInPlan, Grows, RowSteps, KeepsRow, StatusMoves, Created

\* A comment that exists after the step and that the step does not let go.
Kept(c) == c \in Existing' /\ ~LetGo(c)

\* A row that covers a comment goes on to, or hands it to a request: the completion to
\* the one that lists, the failure to the one that retries, the cancellation to the
\* one that replays. What is left is a comment the cancelled row had not planned.
LEMMA CoversMoves ==
    ASSUME TypeInv, ReceiptInPlan, RowSteps, Grows,
           NEW t \in Tasks, NEW c, Kept(c), Covers(t, c)
    PROVE  \/ AccountedFor(c)'
           \/ Cancels /\ c \notin Plan(t)
<1>1. c \in 1 .. posted' /\ c \notin deleted' /\ c \notin deleted /\ ~LetGo(c)
  BY DEF Kept, Existing, Grows
<1>2. c \in row[t].delivered => c \in Plan(t)
  BY <1>1 DEF ReceiptInPlan
<1>3. KeepsRow(t) /\ StatusMoves(t)
  BY DEF RowSteps, Created, Covers, In, Active, Pending
<1>4. /\ row'[t].born = row[t].born
      /\ c \in Plan(t) => c \in Plan(t)'
  BY <1>1, <1>3 DEF KeepsRow
<1>5. CASE In(t, {"running"}) /\ row'[t].status = "completed"
  <2>1. row'[t].delivered = row[t].delivered
    BY <1>3, <1>5 DEF StatusMoves, In
  <2>2. PICK h \in Handlers : handler'[h].pc = "list" /\ handler'[h].task = t
    BY <1>3, <1>5 DEF StatusMoves, In
  <2>3. CASE c \in row'[t].delivered
    BY <1>5, <2>3 DEF AccountedFor, Covers, In
  <2>4. CASE c \notin row'[t].delivered
    <3>1. row[t].born < c \/ c \in Plan(t)
      BY <1>5, <2>1, <2>4 DEF Covers, In
    <3>2. c \in Undelivered(t)'
      BY <1>1, <1>4, <2>4, <3>1 DEF Undelivered
    <3>3. Undelivered(t)' = Undelivered(handler[h].task)'
      BY <2>2 DEF Undelivered, Plan
    <3>. QED
      BY <2>2, <3>2, <3>3 DEF AccountedFor, Has
  <2>. QED
    BY <2>3, <2>4
<1>6. CASE In(t, Active) /\ row'[t].status = "cancelled"
  <2>1. CASE CancelTask(t)
    BY <1>1, <2>1 DEF LetGo, Withdrawn
  <2>2. CASE Cancels /\ Replayed(Plan(t)) /\ c \in Plan(t)
    <3>1. \E h \in Handlers : c \in Left(handler'[h])
      BY <1>1, <2>2 DEF Replayed
    <3>. QED
      BY <3>1 DEF AccountedFor, Has, Remaining, Left
  <2>. QED
    BY <1>3, <1>6, <2>1, <2>2 DEF StatusMoves, In, Active, Pending
<1>7. CASE In(t, {"dispatched", "running"}) /\ row'[t].status = "failed"
  <2>1. PICK h \in Handlers :
          /\ FailTask(h, t)
          /\ UNCHANGED handler \/ (handler'[h].pc = "retry" /\ handler'[h].task = t)
    BY <1>3, <1>7 DEF StatusMoves, In
  <2>2. c \in Plan(t) /\ ~(UNCHANGED handler)
    BY <1>1, <2>1 DEF LetGo, LeftToFailure
  <2>3. Plan(t)' = Plan(handler[h].task)'
    BY <2>1, <2>2 DEF Plan
  <2>. QED
    BY <1>4, <2>1, <2>2, <2>3 DEF AccountedFor, Has
<1>8. CASE row'[t].status = row[t].status
  BY <1>3, <1>4, <1>8 DEF StatusMoves, AccountedFor, Covers, In
<1>9. CASE \/ In(t, {"dispatched"}) /\ row'[t].status \in {"queued", "running"}
           \/ In(t, {"queued"}) /\ row'[t].status = "dispatched"
  BY <1>4, <1>9 DEF AccountedFor, Covers, In, Active, Pending
<1>. QED
  BY <1>3, <1>5, <1>6, <1>7, <1>8, <1>9 DEF StatusMoves

\* A comment the cancelled row had not planned is let go only when no other row that
\* covers it has planned it.
LEMMA CoversStep ==
    ASSUME TypeInv, ReceiptInPlan, RowSteps, Grows,
           NEW t \in Tasks, NEW c, Kept(c), Covers(t, c)
    PROVE  AccountedFor(c)'
<1>1. CASE Cancels
  <2>1. PICK u \in Tasks : Covers(u, c) /\ c \in Plan(u)
    BY <1>1 DEF Kept, LetGo, LeftToCancelled, Cancels
  <2>. QED
    BY <2>1, CoversMoves
<1>2. CASE ~Cancels
  BY <1>2, CoversMoves
<1>. QED
  BY <1>1, <1>2

\* A request that stays where it is keeps its comments.
LEMMA HasFrame ==
    ASSUME TypeInv, RowSteps, Grows, NEW h \in Handlers, handler'[h] = handler[h],
           NEW c, Kept(c), Has(h, c)
    PROVE  AccountedFor(c)'
<1>1. c \notin deleted'
  BY DEF Kept, Existing
<1>2. CASE c \in Remaining(h)
  <2>1. c \in Remaining(h)'
    BY <1>2 DEF Remaining
  <2>. QED
    BY <2>1 DEF AccountedFor, Has
<1>3. CASE handler[h].pc = "list" /\ c \in Undelivered(handler[h].task)
  <2>1. PICK t \in Tasks : t = handler[h].task
    BY <1>3 DEF TypeInv, HandlerOK
  <2>2. In(t, Final)
    BY <1>3, <2>1 DEF TypeInv, StatusKnown
  <2>3. /\ row'[t].delivered = row[t].delivered
        /\ row'[t].born = row[t].born
        /\ Plan(t) \subseteq Plan(t)' \cup deleted'
    BY <2>2, FinalStays
  <2>4. c \in Undelivered(t)'
    BY <1>1, <1>3, <2>1, <2>3 DEF Undelivered, Grows
  <2>5. Undelivered(t)' = Undelivered(handler[h].task)'
    BY <2>1 DEF Undelivered, Plan
  <2>. QED
    BY <1>3, <2>4, <2>5 DEF AccountedFor, Has
<1>4. CASE handler[h].pc = "retry" /\ c \in Plan(handler[h].task)
  <2>1. PICK t \in Tasks : t = handler[h].task
    BY <1>4 DEF TypeInv, HandlerOK
  <2>2. In(t, Final)
    BY <1>4, <2>1 DEF TypeInv, StatusKnown, In, Final
  <2>3. Plan(t) \subseteq Plan(t)' \cup deleted'
    BY <2>2, FinalStays
  <2>4. Plan(t)' = Plan(handler[h].task)'
    BY <2>1 DEF Plan
  <2>. QED
    BY <1>1, <1>4, <2>1, <2>3, <2>4 DEF AccountedFor, Has
<1>. QED
  BY <1>2, <1>3, <1>4 DEF Has

\* An idle request has no comment.
LEMMA HasNone ==
    ASSUME TypeInv, NEW h \in Handlers, handler[h].pc = "idle", NEW c
    PROVE  ~Has(h, c)
  BY DEF TypeInv, HandlerOK, Has, Remaining

HandsKeep == \A h \in Handlers : \A c : Kept(c) /\ Has(h, c) => AccountedFor(c)'

\* The requests keep their comments when the one that moves does.
LEMMA OneHand ==
    ASSUME TypeInv, RowSteps, Grows, NEW h \in Handlers, NEW st, HandlerTo(h, st),
           \A c : Kept(c) /\ Has(h, c) => AccountedFor(c)'
    PROVE  HandsKeep
<1> SUFFICES ASSUME NEW g \in Handlers, NEW c, Kept(c), Has(g, c) PROVE AccountedFor(c)'
  BY DEF HandsKeep
<1>1. CASE g = h
  BY <1>1
<1>2. CASE g # h
  <2>1. handler'[g] = handler[g]
    BY <1>2 DEF HandlerTo, TypeInv, TypeOK
  <2>. QED
    BY <2>1, HasFrame
<1>. QED
  BY <1>1, <1>2

\* They keep them when none moves.
LEMMA SameHands ==
    ASSUME TypeInv, RowSteps, Grows, UNCHANGED handler
    PROVE  HandsKeep
  BY HasFrame DEF HandsKeep

\* No comment has the number that stands for none.
LEMMA NoCommentIsNone == NoComment \notin Comments
  BY DEF NoComment, Comments

\* The comment a request is at passes to a row or is let go, and so does the plan of a
\* retry.
LEMMA EnqueueHands == TypeInv /\ Enqueue /\ Grows => HandsKeep
<1> SUFFICES ASSUME TypeInv, Grows, NEW h \in Handlers,
                    \/ CreateComment(h)
                    \/ ComputeTriggers(h)
                    \/ MergeCommentIntoPendingTask(h)
                    \/ HasActiveTaskForIssueAndAgent(h)
                    \/ EnqueueSingleCommentTrigger(h)
                    \/ ReconcileCommentsOnCompletion(h)
                    \/ MaybeRetryFailedTask(h)
                    \/ AbortHandler(h)
             PROVE  HandsKeep
  BY DEF Enqueue
<1>1. RowSteps
  BY EnqueueRows DEF Enqueue
<1>2. ASSUME NEW st, HandlerTo(h, st) PROVE handler'[h] = st
  BY <1>2 DEF HandlerTo, TypeInv, TypeOK
<1>3. Remaining(h) = Left(handler[h])
  BY DEF Remaining, Left
<1>4. ASSUME NEW c, c \in Left(handler'[h]) PROVE AccountedFor(c)'
  BY <1>4 DEF AccountedFor, Has, Remaining, Left
<1>5. \A c : Kept(c) => c \in 1 .. posted' /\ c \notin deleted /\ ~LetGo(c)
  BY DEF Kept, Existing, Grows
<1>6. ASSUME NEW pc \in {"merge", "active", "insert"},
             handler[h].pc \in {"compute", "merge", "active", "insert"}, GoTo(h, pc)
      PROVE  HandsKeep
  <2>1. /\ HandlerTo(h, [handler[h] EXCEPT !.pc = pc])
        /\ Left(handler'[h]) = Left(handler[h])
    BY <1>2, <1>6, GoToType DEF GoTo
  <2>2. handler[h].pc \notin {"list", "retry"}
    BY <1>6
  <2>. QED
    BY <1>1, <1>3, <1>4, <2>1, <2>2, OneHand DEF Has
<1>7. ASSUME HandlerTo(h, Rest(h)), handler[h].pc \notin {"list", "retry"},
             NEW cur, cur = Current(h), Kept(cur) => AccountedFor(cur)'
      PROVE  HandsKeep
  <2>1. Left(handler[h]) \subseteq Left(handler'[h]) \cup {cur}
    BY <1>2, <1>7, RestType
  <2>2. ASSUME NEW c, Kept(c), Has(h, c) PROVE AccountedFor(c)'
    <3>1. c \in Left(handler[h])
      BY <1>3, <1>7, <2>2 DEF Has
    <3>2. CASE c = cur
      BY <1>7, <2>2, <3>2
    <3>3. CASE c \in Left(handler'[h])
      BY <1>4, <3>3
    <3>. QED
      BY <2>1, <3>1, <3>2, <3>3
  <2>3. PICK st : st = Rest(h)
    OBVIOUS
  <2>4. HandlerTo(h, st)
    BY <1>7, <2>3 DEF HandlerTo
  <2>. QED
    BY <1>1, <2>2, <2>4, OneHand
<1>8. ASSUME NEW st, HandlerTo(h, st), handler[h].pc = "idle"
      PROVE  HandsKeep
  <2>1. \A c : ~Has(h, c)
    BY <1>8, HasNone
  <2>. QED
    BY <1>1, <1>8, <2>1, OneHand
<1>9. CASE CreateComment(h)
  <2>1. PICK st : st = Replaying({posted + 1}, NoComment)
    OBVIOUS
  <2>. QED
    BY <1>8, <1>9, <2>1 DEF CreateComment, HandlerTo
<1>10. CASE ComputeTriggers(h)
  BY <1>6, <1>10 DEF ComputeTriggers
<1>11. CASE MergeCommentIntoPendingTask(h)
  <2>1. CASE GoTo(h, "active")
    BY <1>6, <1>11, <2>1 DEF MergeCommentIntoPendingTask
  <2>2. CASE ~ GoTo(h, "active")
    <3>1. PICK cur : cur = Current(h)
      OBVIOUS
    <3>2. PICK queued : queued = {t \in Tasks : In(t, {"queued"})}
      OBVIOUS
    <3>3. /\ HandlerTo(h, Rest(h))
          /\ queued # {}
          /\ cur \notin deleted =>
                row' = [t \in Tasks |-> IF t \notin queued THEN row[t] ELSE
                          [row[t] EXCEPT !.trigger = cur, !.coalesced = Plan(t) \ {cur}]]
      BY <1>11, <2>2, <3>1, <3>2 DEF MergeCommentIntoPendingTask
    <3>4. cur \in Comments
      BY <1>11, <3>1, CurrentType DEF MergeCommentIntoPendingTask
    <3>5. ASSUME Kept(cur) PROVE AccountedFor(cur)'
      <4>1. cur \notin deleted
        BY <1>5, <3>5
      <4>2. PICK t \in queued : TRUE
        BY <3>3
      <4>3. t \in Tasks /\ In(t, {"queued"}) /\ row[t] \in Row
        BY <3>2 DEF TypeInv, TypeOK
      <4>4. row'[t].trigger = cur /\ row'[t].status = "queued"
        <5>1. row'[t] = [row[t] EXCEPT !.trigger = cur, !.coalesced = Plan(t) \ {cur}]
          BY <3>3, <4>1, <4>3
        <5>2. row'[t].trigger = cur /\ row'[t].status = row[t].status
          BY <4>3, <5>1 DEF Row
        <5>. QED
          BY <4>3, <5>2 DEF In
      <4>5. cur \in Plan(t)' /\ In(t, Active)'
        BY <3>4, <4>4, NoCommentIsNone DEF Plan, In, Active, Pending
      <4>. QED
        BY <4>3, <4>5 DEF AccountedFor, Covers
    <3>. QED
      BY <1>7, <1>11, <3>1, <3>3, <3>5 DEF MergeCommentIntoPendingTask
  <2>. QED
    BY <2>1, <2>2
<1>12. CASE HasActiveTaskForIssueAndAgent(h)
  <2>1. CASE GoTo(h, "insert")
    BY <1>6, <1>12, <2>1 DEF HasActiveTaskForIssueAndAgent
  <2>2. CASE ~ GoTo(h, "insert")
    <3>1. PICK cur : cur = Current(h)
      OBVIOUS
    <3>2. HandlerTo(h, Rest(h)) /\ UNCHANGED row
      BY <1>12, <2>2 DEF HasActiveTaskForIssueAndAgent
    <3>3. ASSUME Kept(cur) PROVE AccountedFor(cur)'
      <4>1. PICK t \in Tasks : In(t, Active) /\ ~(cur <= row[t].born)
        BY <1>5, <1>12, <3>1, <3>3 DEF LetGo, Misplaced
      <4>2. cur \in Nat /\ row[t].born \in Nat
        <5>1. cur \in Comments
          BY <1>12, <3>1, CurrentType DEF HasActiveTaskForIssueAndAgent
        <5>2. row[t].born \in 0 .. MaxComments
          BY DEF TypeInv, TypeOK, Row
        <5>. QED
          BY <5>1, <5>2, LimitsAssumption DEF Comments
      <4>3. row[t].born < cur
        BY <4>1, <4>2
      <4>4. row'[t] = row[t]
        BY <3>2
      <4>. QED
        BY <4>1, <4>3, <4>4 DEF AccountedFor, Covers, In
    <3>. QED
      BY <1>7, <1>12, <3>1, <3>2, <3>3 DEF HasActiveTaskForIssueAndAgent
  <2>. QED
    BY <2>1, <2>2
<1>13. CASE EnqueueSingleCommentTrigger(h)
  <2>1. PICK cur : cur = Current(h)
    OBVIOUS
  <2>2. cur \in Comments
    BY <1>13, <2>1, CurrentType DEF EnqueueSingleCommentTrigger
  <2>3. ASSUME Kept(cur) PROVE AccountedFor(cur)'
    <3>1. NonePending /\ cur \notin deleted
      BY <1>5, <1>13, <2>1, <2>3 DEF LetGo, Refused
    <3>2. PICK t \in Tasks, sha \in ResolveIssueReviewSHA :
            row' = [row EXCEPT ![t] = NewRow("queued", cur, {}, sha, 1)]
      BY <1>13, <2>1, <3>1 DEF EnqueueSingleCommentTrigger
    <3>3. row'[t].trigger = cur /\ row'[t].status = "queued"
      BY <3>2 DEF TypeInv, TypeOK, NewRow
    <3>4. cur \in Plan(t)' /\ In(t, Active)'
      BY <2>2, <3>3, NoCommentIsNone DEF Plan, In, Active, Pending
    <3>. QED
      BY <3>4 DEF AccountedFor, Covers
  <2>4. HandlerTo(h, Rest(h)) /\ handler[h].pc \notin {"list", "retry"}
    BY <1>13 DEF EnqueueSingleCommentTrigger
  <2>. QED
    BY <1>7, <2>1, <2>3, <2>4
<1>14. CASE ReconcileCommentsOnCompletion(h)
  <2>1. PICK t \in Tasks : t = handler[h].task
    BY <1>14 DEF ReconcileCommentsOnCompletion, TypeInv, HandlerOK
  <2>2. PICK S : S = Undelivered(t)
    OBVIOUS
  <2>3. handler[h].pc = "list" /\ HandlerTo(h, Replaying(S, NoComment))
    BY <1>14, <2>1, <2>2 DEF ReconcileCommentsOnCompletion
  <2>4. S \in SUBSET Comments
    BY <2>1, <2>2, PlanType
  <2>5. Left(handler'[h]) = S
    BY <1>2, <2>3, <2>4, ReplayingType
  <2>6. Remaining(h) = {}
    BY <1>3, <2>3 DEF TypeInv, HandlerOK, Left
  <2>7. ASSUME NEW c, Kept(c), Has(h, c) PROVE AccountedFor(c)'
    BY <1>4, <2>1, <2>2, <2>3, <2>5, <2>6, <2>7 DEF Has
  <2>. QED
    BY <1>1, <2>3, <2>7, OneHand
<1>15. CASE MaybeRetryFailedTask(h)
  <2>1. PICK t \in Tasks : t = handler[h].task
    BY <1>15 DEF MaybeRetryFailedTask, TypeInv, HandlerOK
  <2>2. handler[h].pc = "retry" /\ HandlerTo(h, IdleHandler)
    BY <1>15 DEF MaybeRetryFailedTask
  <2>3. Remaining(h) = {}
    BY <1>3, <2>2 DEF TypeInv, HandlerOK, Left
  <2>4. ASSUME NEW c, Kept(c), Has(h, c) PROVE AccountedFor(c)'
    <3>1. c \in Plan(t)
      BY <2>1, <2>2, <2>3, <2>4 DEF Has
    <3>2. NonePending
      BY <1>5, <1>15, <2>1, <2>2, <2>4, <3>1 DEF LetGo, Refused
    <3>3. PICK u \in Tasks :
            row' = [row EXCEPT ![u] = NewRow("queued", row[t].trigger,
                        row[t].coalesced, row[t].head, row[t].attempt + 1)]
      BY <1>15, <2>1, <3>2 DEF MaybeRetryFailedTask
    <3>4. /\ row'[u].trigger = row[t].trigger
          /\ row'[u].coalesced = row[t].coalesced
          /\ row'[u].status = "queued"
      BY <3>3 DEF TypeInv, TypeOK, NewRow
    <3>5. c \in Plan(u)' /\ In(u, Active)'
      BY <3>1, <3>4 DEF Plan, In, Active, Pending
    <3>. QED
      BY <3>5 DEF AccountedFor, Covers
  <2>. QED
    BY <1>1, <2>2, <2>4, OneHand
<1>16. CASE AbortHandler(h)
  <2>1. \A c : Has(h, c) => LetGo(c)
    BY <1>16 DEF LetGo, CutShort
  <2>2. \A c : Kept(c) /\ Has(h, c) => AccountedFor(c)'
    BY <1>5, <2>1
  <2>. QED
    BY <1>1, <1>16, <2>2, OneHand DEF AbortHandler
<1>. QED
  BY <1>9, <1>10, <1>11, <1>12, <1>13, <1>14, <1>15, <1>16

\* Claims leave the requests alone; the repair of a stale plan takes an idle one.
LEMMA ClaimHands == TypeInv /\ Claim /\ Grows => HandsKeep
<1> SUFFICES ASSUME TypeInv, Claim, Grows PROVE HandsKeep
  OBVIOUS
<1>1. RowSteps
  BY ClaimRows
<1>2. ASSUME NEW p \in Pollers, NEW h \in Handlers, RepairStalePlan(p, h)
      PROVE  HandsKeep
  <2>1. PICK st : st = Replaying(Plan(poll[p].task) \ deleted, NoComment)
    OBVIOUS
  <2>2. HandlerTo(h, st) /\ handler[h].pc = "idle"
    BY <1>2, <2>1 DEF RepairStalePlan, HandlerTo
  <2>3. \A c : ~Has(h, c)
    BY <2>2, HasNone
  <2>. QED
    BY <1>1, <2>2, <2>3, OneHand
<1>3. CASE UNCHANGED handler
  BY <1>1, <1>3, SameHands
<1>. QED
  BY <1>2, <1>3
     DEF Claim, ClaimAgentTask, ReclaimStaleDispatchedTask, TakeClaim,
         FinalizeTaskClaim, RequeueTaskAfterClaimFailure, AbortPoll

\* A report or a failure is served by an idle request.
LEMMA RunHands == TypeInv /\ Run /\ Grows => HandsKeep
<1> SUFFICES ASSUME TypeInv, Run, Grows PROVE HandsKeep
  OBVIOUS
<1>1. RowSteps
  BY RunRows
<1>2. ASSUME NEW h \in Handlers, handler[h].pc = "idle", NEW st, HandlerTo(h, st)
      PROVE  HandsKeep
  <2>1. \A c : ~Has(h, c)
    BY <1>2, HasNone
  <2>. QED
    BY <1>1, <1>2, <2>1, OneHand
<1>3. CASE UNCHANGED handler
  BY <1>1, <1>3, SameHands
<1>4. ASSUME NEW t \in Tasks, NEW h \in Handlers, CompleteTask(h, t) \/ FailTask(h, t)
      PROVE  HandsKeep
  BY <1>2, <1>3, <1>4 DEF CompleteTask, FailTask
<1>. QED
  BY <1>3, <1>4 DEF Run, EnqueueTaskForIssue, StartTask, CancelTask

\* A deletion keeps the batch it has cancelled until it replays it.
LEMMA RewriteHands == TypeInv /\ Rewrite /\ Grows => HandsKeep
<1> SUFFICES ASSUME TypeInv, Grows, NEW h \in Handlers,
                    \/ \E c \in Comments : UpdateComment(h, c) \/ StartDeleteComment(h, c)
                    \/ DeleteComment(h)
                    \/ DeleteCommentFails(h)
             PROVE  HandsKeep
  BY DEF Rewrite
<1>1. RowSteps
  BY RewriteRows DEF Rewrite
<1>2. ASSUME NEW st, HandlerTo(h, st), handler[h].pc = "idle" PROVE HandsKeep
  <2>1. \A c : ~Has(h, c)
    BY <1>2, HasNone
  <2>. QED
    BY <1>1, <1>2, <2>1, OneHand
<1>3. ASSUME NEW c \in Comments, UpdateComment(h, c) PROVE HandsKeep
  <2>1. PICK st : HandlerTo(h, st)
    BY <1>3 DEF UpdateComment
  <2>. QED
    BY <1>2, <1>3, <2>1 DEF UpdateComment
<1>4. ASSUME NEW c \in Comments, StartDeleteComment(h, c) PROVE HandsKeep
  <2>1. PICK st : HandlerTo(h, st)
    BY <1>4 DEF StartDeleteComment
  <2>. QED
    BY <1>2, <1>4, <2>1 DEF StartDeleteComment
<1>5. ASSUME NEW todo \in SUBSET Comments, HandlerTo(h, Replaying(todo, NoComment)),
             handler[h].pc = "deleting",
             \A c \in Remaining(h) : Kept(c) => c \in todo
      PROVE  HandsKeep
  <2>1. PICK st : st = Replaying(todo, NoComment)
    OBVIOUS
  <2>2. HandlerTo(h, st) /\ handler'[h] = st
    BY <1>5, <2>1 DEF HandlerTo, TypeInv, TypeOK
  <2>3. Left(st) = todo \cup ({NoComment} \ {NoComment})
    BY <2>1, ReplayingType
  <2>4. ASSUME NEW c, Kept(c), Has(h, c) PROVE AccountedFor(c)'
    <3>1. c \in Left(handler'[h])
      BY <1>5, <2>2, <2>4, <2>3 DEF Has
    <3>. QED
      BY <3>1 DEF AccountedFor, Has, Remaining, Left
  <2>. QED
    BY <1>1, <2>2, <2>4, OneHand
<1>6. handler[h].todo \in SUBSET Comments /\ handler[h].last \in Comments \cup {NoComment}
  BY DEF TypeInv, HandlerOK, Handler
<1>7. CASE DeleteComment(h)
  <2>1. \A c \in Remaining(h) : Kept(c) => c \in handler[h].todo
    BY <1>7 DEF DeleteComment, Remaining, Kept, Existing
  <2>2. PICK todo \in SUBSET Comments : todo = handler[h].todo
    BY <1>6
  <2>3. HandlerTo(h, Replaying(todo, NoComment)) /\ handler[h].pc = "deleting"
    BY <1>7, <2>2 DEF DeleteComment
  <2>. QED
    BY <1>5, <2>1, <2>2, <2>3
<1>8. CASE DeleteCommentFails(h)
  <2>1. handler[h].last # NoComment
    BY <1>8 DEF DeleteCommentFails, TypeInv, HandlerOK
  <2>2. PICK todo \in SUBSET Comments : todo = handler[h].todo \cup {handler[h].last}
    BY <1>6, <2>1
  <2>3. HandlerTo(h, Replaying(todo, NoComment)) /\ handler[h].pc = "deleting"
    BY <1>8, <2>2 DEF DeleteCommentFails
  <2>4. \A c \in Remaining(h) : Kept(c) => c \in todo
    BY <2>2 DEF Remaining
  <2>. QED
    BY <1>5, <2>3, <2>4
<1>. QED
  BY <1>3, <1>4, <1>7, <1>8

\* A comment that is new is in the hands of the request that posts it.
LEMMA NewComment ==
    ASSUME TypeInv, Next, Grows, NEW c, Kept(c), c \notin Existing
    PROVE  AccountedFor(c)'
<1>1. c \in 1 .. posted' /\ c \notin deleted' /\ c \notin deleted
  BY DEF Kept, Existing, Grows
<1>2. c \notin 1 .. posted
  BY <1>1 DEF Existing
<1>3. posted' # posted
  BY <1>1, <1>2
<1>4. PICK h \in Handlers : CreateComment(h)
  BY <1>3
     DEF Next, Enqueue, Claim, Run, Rewrite, ComputeTriggers,
         MergeCommentIntoPendingTask, HasActiveTaskForIssueAndAgent,
         EnqueueSingleCommentTrigger, ReconcileCommentsOnCompletion,
         MaybeRetryFailedTask, AbortHandler, ClaimAgentTask,
         ReclaimStaleDispatchedTask, TakeClaim, FinalizeTaskClaim,
         RequeueTaskAfterClaimFailure, AbortPoll, RepairStalePlan,
         EnqueueTaskForIssue, StartTask, CancelTask, CompleteTask, FailTask,
         UpdateComment, StartDeleteComment, DeleteComment, DeleteCommentFails,
         UpsertGitHubPullRequest
<1>5. posted \in 0 .. MaxComments /\ posted' = posted + 1 /\ posted < MaxComments
  BY <1>4 DEF CreateComment, TypeInv, TypeOK
<1>6. c = posted + 1 /\ c \in Comments
  BY <1>1, <1>2, <1>5, LimitsAssumption DEF Comments
<1>7. handler'[h] = Replaying({c}, NoComment)
  BY <1>4, <1>6 DEF CreateComment, HandlerTo, TypeInv, TypeOK
<1>8. c \in Left(handler'[h])
  <2>1. PICK todo \in SUBSET Comments : todo = {c}
    BY <1>6
  <2>2. Left(Replaying(todo, NoComment)) = todo \cup ({NoComment} \ {NoComment})
    BY ReplayingType
  <2>. QED
    BY <1>7, <2>1, <2>2
<1>. QED
  BY <1>8 DEF AccountedFor, Has, Remaining, Left

\* No receipt is written at the start.
LEMMA ReceiptInit == Init => ReceiptInPlan
  BY DEF Init, ReceiptInPlan, NewRow

\* A comment is accounted for after every step that does not let it go.
LEMMA LossStep ==
    ASSUME TypeInv, ReceiptInPlan, Next, NEW c, Kept(c),
           AccountedFor(c) \/ c \notin Existing
    PROVE  AccountedFor(c)'
<1>1. RowSteps /\ Grows
  BY RowLemma, GrowsStep
<1>2. HandsKeep
  <2>1. CASE UpsertGitHubPullRequest
    BY <1>1, <2>1, SameHands DEF UpsertGitHubPullRequest
  <2>2. CASE ~UpsertGitHubPullRequest
    BY <1>1, <2>2, EnqueueHands, ClaimHands, RunHands, RewriteHands DEF Next
  <2>. QED
    BY <2>1, <2>2
<1>3. CASE \E h \in Handlers : Has(h, c)
  BY <1>2, <1>3 DEF HandsKeep
<1>4. CASE \E t \in Tasks : Covers(t, c)
  BY <1>1, <1>4, CoversStep
<1>5. CASE c \notin Existing
  BY <1>1, <1>5, NewComment
<1>. QED
  BY <1>3, <1>4, <1>5 DEF AccountedFor

\* However merges, claims, partial receipts, completions, retries, edits and deletions
\* interleave and the head of the pull request moves, a comment that is posted stays
\* accounted for, until it is deleted or one of the six kinds of step that
\* NoSilentLoss names lets it go.
THEOREM Lossless == Spec => NoSilentLoss
<1>1. Init => ReceiptInPlan
  BY ReceiptInit
<1>2. TypeInv /\ ReceiptInPlan /\ [Next]_vars => ReceiptInPlan'
  BY RowLemma, GrowsStep, ReceiptStep
<1>3. TypeInv /\ ReceiptInPlan /\ [Next]_vars =>
        [\A c \in Existing' :
            AccountedFor(c) \/ c \notin Existing => AccountedFor(c)' \/ LetGo(c)]_vars
  <2> SUFFICES ASSUME TypeInv, ReceiptInPlan, Next, NEW c \in Existing',
                      AccountedFor(c) \/ c \notin Existing, ~LetGo(c)
               PROVE  AccountedFor(c)'
    OBVIOUS
  <2>1. Kept(c)
    BY DEF Kept
  <2>. QED
    BY <2>1, LossStep
<1>. QED
  BY <1>1, <1>2, <1>3, TypeInvariant, PTL DEF Spec, NoSilentLoss
=============================================================================
