-------------------------- MODULE TaskQueueProofs --------------------------
(***************************************************************************)
(* Theorems about TaskQueue, for any number of rows, agents, issues,       *)
(* runtimes and concurrent claim requests.                                 *)
(***************************************************************************)
EXTENDS TaskQueue, FiniteSetTheorems, TLAPS

-----------------------------------------------------------------------------
(* The inductive typing invariant                                           *)

\* A claim response names a row, a running poll serves a runtime.
PollShape == \A p \in Pollers :
    /\ poll[p].pc = "respond" => poll[p].task \in Tasks
    /\ poll[p].pc # "idle" => poll[p].runtime \in Runtimes

\* A row waiting for its auto-retry has failed and has budget left.
RetryBudget ==
    \A t \in retrying : row[t].status = "failed" /\ row[t].attempt < MaxAttempts

TypeInv == TypeOK /\ PollShape /\ RetryBudget

\* One step of the queue as the abstract life of its rows sees it.
Implements == Lifecycle!Next \/ UNCHANGED Lifecycle!vars

\* What a step leaves of the rows that already have a place in "retrying".
KeepsFailed ==
    \A t \in Tasks : row[t].status = "failed" =>
        row'[t].status = "failed" /\ row'[t].attempt = row[t].attempt

-----------------------------------------------------------------------------
(* The ways in which a step rewrites the table                              *)

\* A bulk status change of unfinished rows.
LEMMA MovedStep ==
    ASSUME TypeInv, NEW S \in SUBSET Tasks, NEW From, NEW s \in Status,
           \A t \in S : row[t].status \in From, "failed" \notin From,
           row' = Moved(S, s)
    PROVE  /\ row' \in [Tasks -> Row]
           /\ KeepsFailed
           /\ Lifecycle!Move(S, From, s)
           /\ \A t \in Tasks : row'[t].attempt = row[t].attempt
           /\ \A t \in S : row'[t].status = s
<1>. USE DEF TypeInv, TypeOK
<1>1. ASSUME NEW t \in Tasks
      PROVE  /\ Moved(S, s)[t] \in Row
             /\ Moved(S, s)[t].status = IF t \in S THEN s ELSE row[t].status
             /\ Moved(S, s)[t].agent = row[t].agent
             /\ Moved(S, s)[t].issue = row[t].issue
             /\ Moved(S, s)[t].attempt = row[t].attempt
  <2>1. CASE t \in S
    <3>1. Moved(S, s)[t] = [row[t] EXCEPT !.status = s, !.lease = FALSE]
      BY <2>1 DEF Moved
    <3>2. row[t] \in Row
      OBVIOUS
    <3>. QED
      BY <2>1, <3>1, <3>2 DEF Row
  <2>2. CASE t \notin S
    BY <2>2 DEF Moved
  <2>. QED
    BY <2>1, <2>2
<1>2. row' \in [Tasks -> Row]
  BY <1>1 DEF Moved
<1>3. KeepsFailed
  BY <1>1 DEF KeepsFailed
<1>4. Lifecycle!Move(S, From, s)
  BY <1>1 DEF Lifecycle!Move
<1>. QED
  BY <1>1, <1>2, <1>3, <1>4

\* A new row.
LEMMA InsertStep ==
    ASSUME TypeInv, NEW t \in Tasks, NEW s \in {"queued", "deferred"},
           NEW a \in Agents \cup {None}, NEW i \in Issues \cup {None},
           NEW r \in Runtimes \cup {None}, NEW n \in 0 .. MaxAttempts,
           NEW parent \in Tasks \cup {None}, NEW primary \in Tasks \cup {None},
           row[t].status = "absent",
           row' = [row EXCEPT ![t] = NewRow(s, a, i, r, n, parent, primary)]
    PROVE  row' \in [Tasks -> Row] /\ KeepsFailed /\ Lifecycle!Next
<1>. DEFINE new == NewRow(s, a, i, r, n, parent, primary)
<1>. USE DEF TypeInv, TypeOK
<1>1. new \in Row /\ new.status = s /\ new.agent = a /\ new.issue = i
  BY BoundsAssumption DEF NewRow, Row, Status, Open
<1>. HIDE DEF new
<1>2. row' = [row EXCEPT ![t] = new]
  BY DEF new
<1>3. row' \in [Tasks -> Row]
  BY <1>1, <1>2
<1>4. KeepsFailed
  BY <1>2 DEF KeepsFailed
<1>5. Lifecycle!Create(t, s, a, i)
  BY <1>1, <1>2 DEF Lifecycle!Create
<1>6. s \in Lifecycle!Status
  BY DEF Lifecycle!Status, Lifecycle!Open
<1>. QED
  BY <1>3, <1>4, <1>5, <1>6 DEF Lifecycle!Next

\* A change that only the lease, the claim count and the attempt budget see.
LEMMA QuietStep ==
    ASSUME TypeInv, row' \in [Tasks -> Row],
           \A t \in Tasks : /\ row'[t].status = row[t].status
                            /\ row'[t].agent = row[t].agent
                            /\ row'[t].issue = row[t].issue
                            /\ row'[t].attempt = row[t].attempt
    PROVE  KeepsFailed /\ UNCHANGED Lifecycle!vars
  BY DEF KeepsFailed, Lifecycle!vars

\* The lease of one row changes.
LEMMA LeaseStep ==
    ASSUME TypeInv, NEW t \in Tasks, NEW b \in BOOLEAN,
           row' = [row EXCEPT ![t].lease = b]
    PROVE  row' \in [Tasks -> Row] /\ KeepsFailed /\ UNCHANGED Lifecycle!vars
<1>1. row' \in [Tasks -> Row]
  BY DEF TypeInv, TypeOK, Row
<1>2. \A u \in Tasks : /\ row'[u].status = row[u].status
                       /\ row'[u].agent = row[u].agent
                       /\ row'[u].issue = row[u].issue
                       /\ row'[u].attempt = row[u].attempt
  BY DEF TypeInv, TypeOK, Row
<1>. QED
  BY <1>1, <1>2, QuietStep

\* One row changes state and gets a lease, as a claim and a parking do.
LEMMA LeasedStep ==
    ASSUME TypeInv, NEW t \in Tasks, NEW s \in Status, NEW c \in 0 .. MaxClaims,
           row[t].status # "failed",
           row' = [row EXCEPT ![t] = [row[t] EXCEPT !.status = s, !.lease = TRUE,
                                                    !.claim = c]]
    PROVE  /\ row' \in [Tasks -> Row]
           /\ KeepsFailed
           /\ Lifecycle!Move({t}, {row[t].status}, s)
<1>. DEFINE new == [row[t] EXCEPT !.status = s, !.lease = TRUE, !.claim = c]
<1>. USE DEF TypeInv, TypeOK
<1>1. /\ new \in Row
      /\ new.status = s
      /\ new.agent = row[t].agent
      /\ new.issue = row[t].issue
  BY DEF Row
<1>. HIDE DEF new
<1>2. row' = [row EXCEPT ![t] = new]
  BY DEF new
<1>3. row' \in [Tasks -> Row]
  BY <1>1, <1>2
<1>4. KeepsFailed
  BY <1>2 DEF KeepsFailed
<1>5. Lifecycle!Move({t}, {row[t].status}, s)
  BY <1>1, <1>2 DEF Lifecycle!Move
<1>. QED
  BY <1>3, <1>4, <1>5

-----------------------------------------------------------------------------
(* Each group of actions keeps the typing invariant and implements the life *)
(* of the rows                                                              *)

\* The part of TypeInv that speaks of the table, after a step that leaves
\* "retrying" alone.
LEMMA TableFrame ==
    ASSUME TypeInv, row' \in [Tasks -> Row], KeepsFailed, UNCHANGED retrying
    PROVE  RetryBudget' /\ retrying' \subseteq Tasks
  BY DEF TypeInv, TypeOK, RetryBudget, KeepsFailed

\* A poll moves on to a well-typed state and every other one stays.
LEMMA PollStep ==
    ASSUME TypeInv, NEW p \in Pollers, NEW state \in Poll, PollTo(p, state),
           state.pc = "respond" => state.task \in Tasks,
           state.pc # "idle" => state.runtime \in Runtimes
    PROVE  poll' \in [Pollers -> Poll] /\ PollShape'
  BY DEF TypeInv, TypeOK, PollShape, PollTo

\* The initial table is empty.
LEMMA TypeInit == Init => TypeInv
<1> SUFFICES ASSUME Init PROVE TypeInv
  OBVIOUS
<1>1. AbsentRow \in Row
  BY BoundsAssumption DEF AbsentRow, NewRow, Row, Status
<1>2. IdlePoll \in Poll /\ IdlePoll.pc = "idle"
  BY BoundsAssumption DEF IdlePoll, Poll, PollPc
<1>. QED
  BY <1>1, <1>2 DEF Init, TypeInv, TypeOK, PollShape, RetryBudget

\* Steps that create a row.
LEMMA EnqueueStep == TypeInv /\ Enqueue => TypeInv' /\ Implements
<1> SUFFICES ASSUME TypeInv, Enqueue PROVE TypeInv' /\ Implements
  OBVIOUS
<1> USE DEF Implements
<1>1. ASSUME NEW t \in Tasks, NEW a \in Agents, NEW i \in Issues,
             NEW r \in Runtimes,
             EnqueueTask(t, a, i, r) \/ EnqueueRoutedTask(t, a, i, r)
      PROVE  TypeInv' /\ Implements
  <2>1. /\ row[t].status = "absent"
        /\ row' = [row EXCEPT ![t] = NewRow("queued", a, i, r, 1, None, None)]
    BY <1>1 DEF EnqueueTask, EnqueueRoutedTask, Insert, In
  <2>2. 1 \in 0 .. MaxAttempts
    BY BoundsAssumption
  <2>3. row' \in [Tasks -> Row] /\ KeepsFailed /\ Lifecycle!Next
    BY <2>1, <2>2, InsertStep
  <2>. QED
    BY <1>1, <2>3, TableFrame
    DEF EnqueueTask, EnqueueRoutedTask, TypeInv, TypeOK, PollShape
<1>2. ASSUME NEW p \in Tasks, NEW t \in Tasks, NEW a \in Agents,
             NEW r \in Runtimes, EnqueueDeferredAssigneeFallback(p, t, a, r)
      PROVE  TypeInv' /\ Implements
  <2>1. row[p].issue \in Issues \cup {None}
    BY DEF TypeInv, TypeOK, Row
  <2>2. /\ row[t].status = "absent"
        /\ row' = [row EXCEPT ![t] =
                      NewRow("deferred", a, row[p].issue, r, 1, None, p)]
    BY <1>2 DEF EnqueueDeferredAssigneeFallback, In
  <2>3. 1 \in 0 .. MaxAttempts
    BY BoundsAssumption
  <2>4. row' \in [Tasks -> Row] /\ KeepsFailed /\ Lifecycle!Next
    BY <2>1, <2>2, <2>3, InsertStep
  <2>. QED
    BY <1>2, <2>4, TableFrame
    DEF EnqueueDeferredAssigneeFallback, TypeInv, TypeOK, PollShape
<1>3. ASSUME NEW t \in Tasks, FireTimeArrives(t)
      PROVE  TypeInv' /\ Implements
  BY <1>3 DEF FireTimeArrives, TypeInv, TypeOK, PollShape, RetryBudget, Lifecycle!vars
<1>. QED
  BY <1>1, <1>2, <1>3 DEF Enqueue

\* Cancelling unfinished rows.
LEMMA CancelRowsStep ==
    ASSUME TypeInv, NEW S \in SUBSET Tasks, \A t \in S : In(t, Open),
           row' = Moved(S, "cancelled"), UNCHANGED retrying
    PROVE  /\ row' \in [Tasks -> Row] /\ KeepsFailed /\ Implements
           /\ RetryBudget' /\ retrying' \subseteq Tasks
<1>1. "failed" \notin Open /\ "cancelled" \in Status
  BY DEF Open, Active, Status, Terminal
<1>2. Open = Lifecycle!Open
  BY DEF Open, Active, Lifecycle!Open, Lifecycle!Active
<1>3. row' \in [Tasks -> Row] /\ KeepsFailed /\ Lifecycle!Move(S, Open, "cancelled")
  BY <1>1, MovedStep DEF In
<1>. QED
  BY <1>2, <1>3, TableFrame DEF Implements, Lifecycle!Next, Lifecycle!Cancel

\* The ways of cancelling: an issue, an agent, a comment, a row, a primary's fallbacks.
LEMMA CancelStep == TypeInv /\ Cancel => TypeInv' /\ Implements
<1> SUFFICES ASSUME TypeInv, Cancel PROVE TypeInv' /\ Implements
  OBVIOUS
<1>1. ASSUME NEW S \in SUBSET Tasks, \A t \in S : In(t, Open), CancelRows(S)
      PROVE  TypeInv' /\ Implements
  BY <1>1, CancelRowsStep DEF CancelRows, TypeInv, TypeOK, PollShape
<1>2. Active \cup {"queued"} \subseteq Open
  BY DEF Open
<1>3. {"deferred", "queued", "dispatched", "waiting_local_directory"} \subseteq Open
  BY DEF Open, Active
<1>4. \E S \in SUBSET Tasks : (\A t \in S : In(t, Open)) /\ CancelRows(S)
  <2>. USE DEF In
  <2>1. CASE \E t \in Tasks : CancelTask(t)
    BY <2>1 DEF CancelTask
  <2>2. CASE \E i \in Issues : CancelTasksForIssue(i)
    BY <2>2 DEF CancelTasksForIssue
  <2>3. CASE \E i \in Issues, a \in Agents : CancelTasksForIssueAndAgent(i, a)
    BY <2>3 DEF CancelTasksForIssueAndAgent
  <2>4. CASE \E i \in Issues, a \in Agents : CancelEscalationsForIssueAgent(i, a)
    BY <2>4, <1>3 DEF CancelEscalationsForIssueAgent
  <2>5. CASE \E a \in Agents : CancelTasksForAgent(a)
    BY <2>5 DEF CancelTasksForAgent
  <2>6. CASE \E R \in SUBSET Runtimes, A \in SUBSET Agents :
               CancelTasksByRuntimeOrAgent(R, A)
    BY <2>6, <1>2 DEF CancelTasksByRuntimeOrAgent
  <2>. QED
    BY <2>1, <2>2, <2>3, <2>4, <2>5, <2>6 DEF Cancel
<1>. QED
  BY <1>1, <1>4

\* A poll that only moves its own program counter.
LEMMA QuietPoll ==
    ASSUME TypeInv, NEW p \in Pollers, NEW state \in Poll, PollTo(p, state),
           state.pc = "respond" => state.task \in Tasks,
           state.pc # "idle" => state.runtime \in Runtimes,
           UNCHANGED <<row, due, exec, daemonUp, offline, retrying, acking, routing>>
    PROVE  TypeInv' /\ Implements
  BY PollStep DEF TypeInv, TypeOK, RetryBudget, Implements, Lifecycle!vars

\* A poll that rewrites the table, keeping it typed and the failed rows failed.
LEMMA WritingPoll ==
    ASSUME TypeInv, NEW p \in Pollers, NEW state \in Poll, PollTo(p, state),
           state.pc = "respond" => state.task \in Tasks,
           state.pc # "idle" => state.runtime \in Runtimes,
           row' \in [Tasks -> Row], KeepsFailed,
           UNCHANGED <<due, exec, daemonUp, offline, retrying, acking, routing>>
    PROVE  TypeInv'
<1>1. poll' \in [Pollers -> Poll] /\ PollShape'
  BY PollStep
<1>2. RetryBudget' /\ retrying' \subseteq Tasks
  BY TableFrame
<1>. QED
  BY <1>1, <1>2 DEF TypeInv, TypeOK

\* A poll promotes the deferred rows of its runtime that are due.
LEMMA PromoteStep ==
    ASSUME TypeInv, NEW p \in Pollers, NEW r \in Runtimes, PollPromotes(p, r)
    PROVE  TypeInv' /\ Implements
<1>1. CASE PromotionConflict(r)
  BY <1>1 DEF PollPromotes, TypeInv, TypeOK, PollShape, RetryBudget, Implements,
              Lifecycle!vars
<1>2. CASE ~PromotionConflict(r)
  <2>. DEFINE state == [IdlePoll EXCEPT !.pc = "reclaim", !.runtime = r]
  <2>1. state \in Poll /\ state.pc = "reclaim" /\ state.runtime = r
    <3>1. IdlePoll \in Poll
      BY BoundsAssumption DEF IdlePoll, Poll, PollPc
    <3>2. "reclaim" \in PollPc
      BY DEF PollPc
    <3>. QED
      BY <3>1, <3>2 DEF Poll
  <2>2. row' = Moved(DueOn(r), "queued") /\ PollTo(p, state)
    BY <1>2 DEF PollPromotes
  <2>. HIDE DEF state
  <2>3. /\ DueOn(r) \in SUBSET Tasks
        /\ \A t \in DueOn(r) : row[t].status \in {"deferred"}
    BY DEF DueOn, In, TypeInv, TypeOK
  <2>4. "queued" \in Status
    BY DEF Status, Open
  <2>5. /\ row' \in [Tasks -> Row]
        /\ KeepsFailed
        /\ Lifecycle!Move(DueOn(r), {"deferred"}, "queued")
    BY <2>2, <2>3, <2>4, MovedStep
  <2>6. Implements
    BY <2>3, <2>5 DEF Implements, Lifecycle!Next, Lifecycle!Promote
  <2>7. TypeInv'
    BY <1>2, <2>1, <2>2, <2>5, WritingPoll DEF PollPromotes
  <2>. QED
    BY <2>6, <2>7
<1>. QED
  BY <1>1, <1>2

\* The abstract queue sees the same active rows.
LEMMA ActiveOfMapped == \A a : Lifecycle!ActiveOf(a) = ActiveOf(a)
  BY DEF Lifecycle!ActiveOf, ActiveOf, In, Active, Lifecycle!Active

\* Both modules count with the same operator.
LEMMA SameCardinality == \A S : Lifecycle!Cardinality(S) = Cardinality(S)
  BY DEF Lifecycle!Cardinality, Cardinality, Lifecycle!IsFiniteSet, IsFiniteSet

\* A claim that the table allows: a queued row without an active one of its
\* pair, or a dispatched row taken over.
LEMMA TakeClaimStep ==
    ASSUME TypeInv, NEW t \in Tasks, TakeClaim(t), row[t].claim < MaxClaims,
           \/ row[t].status = "dispatched"
           \/ /\ row[t].status = "queued"
              /\ HasRoom(row[t].agent)
              /\ \A u \in Tasks : SamePair(t, u) => ~In(u, Active)
    PROVE  /\ row' \in [Tasks -> Row] /\ KeepsFailed /\ Implements
           /\ row[t].claim + 1 \in 0 .. MaxClaims
<1>1. row[t].claim \in 0 .. MaxClaims
  BY DEF TypeInv, TypeOK, Row
<1>2. row[t].claim + 1 \in 0 .. MaxClaims
  BY <1>1, BoundsAssumption
<1>3. row[t].status # "failed" /\ "dispatched" \in Status
  BY DEF Status, Open, Active
<1>4. /\ row' \in [Tasks -> Row]
      /\ KeepsFailed
      /\ Lifecycle!Move({t}, {row[t].status}, "dispatched")
  BY <1>2, <1>3, LeasedStep DEF TakeClaim, Leased
<1>5. CASE row[t].status = "dispatched"
  <2>1. UNCHANGED Lifecycle!vars
    BY <1>4, <1>5 DEF Lifecycle!Move, Lifecycle!vars
  <2>. QED
    BY <1>2, <1>4, <2>1 DEF Implements
<1>6. CASE /\ row[t].status = "queued"
           /\ HasRoom(row[t].agent)
           /\ \A u \in Tasks : SamePair(t, u) => ~In(u, Active)
  <2>1. Lifecycle!ActiveOf(row[t].agent) = ActiveOf(row[t].agent)
    BY ActiveOfMapped
  <2>2. \A u \in ActiveOf(row[t].agent) : u \in Tasks /\ row[u].issue # row[t].issue
    BY <1>6 DEF ActiveOf, SamePair
  <2>3. [u \in Tasks |-> row[u].agent][t] = row[t].agent
    OBVIOUS
  <2>4. Lifecycle!Claim(t)
    BY <1>4, <1>6, <2>1, <2>2, <2>3, SameCardinality DEF Lifecycle!Claim, HasRoom
  <2>. QED
    BY <1>2, <1>4, <2>4 DEF Implements, Lifecycle!Next
<1>. QED
  BY <1>2, <1>4, <1>5, <1>6

\* Where a poll goes that has claimed t.
LEMMA RespondStep ==
    ASSUME TypeInv, NEW p \in Pollers, poll[p].pc # "idle", NEW t \in Tasks,
           row[t].claim + 1 \in 0 .. MaxClaims, Respond(p, t)
    PROVE  \E state \in Poll : /\ PollTo(p, state)
                              /\ state.task \in Tasks
                              /\ state.runtime \in Runtimes
<1>. DEFINE state == [poll[p] EXCEPT !.pc = "respond", !.task = t,
                                     !.claim = row[t].claim + 1]
<1>1. state \in Poll /\ state.task = t /\ state.runtime = poll[p].runtime
  BY DEF TypeInv, TypeOK, Poll, PollPc
<1>. QED
  BY <1>1 DEF Respond, TypeInv, PollShape

\* A poll takes over a dispatched row whose claim went stale.
LEMMA ReclaimStep ==
    ASSUME TypeInv, NEW p \in Pollers, ReclaimStaleDispatchedTask(p)
    PROVE  TypeInv' /\ Implements
<1>1. CASE StaleDispatched(poll[p].runtime) = {}
  <2>1. /\ [poll[p] EXCEPT !.pc = "claim"] \in Poll
        /\ [poll[p] EXCEPT !.pc = "claim"].pc = "claim"
        /\ [poll[p] EXCEPT !.pc = "claim"].runtime \in Runtimes
    BY DEF ReclaimStaleDispatchedTask, TypeInv, TypeOK, PollShape, Poll, PollPc
  <2>. QED
    BY <1>1, <2>1, QuietPoll DEF ReclaimStaleDispatchedTask
<1>2. ASSUME NEW t \in StaleDispatched(poll[p].runtime), TakeClaim(t), Respond(p, t)
      PROVE  TypeInv' /\ Implements
  <2>1. t \in Tasks /\ row[t].status = "dispatched" /\ row[t].claim < MaxClaims
    BY <1>2 DEF StaleDispatched, In
  <2>2. /\ row' \in [Tasks -> Row] /\ KeepsFailed /\ Implements
        /\ row[t].claim + 1 \in 0 .. MaxClaims
    BY <1>2, <2>1, TakeClaimStep
  <2>3. PICK state \in Poll : /\ PollTo(p, state)
                             /\ state.task \in Tasks
                             /\ state.runtime \in Runtimes
    BY <1>2, <2>1, <2>2, RespondStep DEF ReclaimStaleDispatchedTask
  <2>. QED
    BY <2>2, <2>3, WritingPoll DEF ReclaimStaleDispatchedTask
<1>. QED
  BY <1>1, <1>2 DEF ReclaimStaleDispatchedTask

\* A poll claims a queued row for an agent that has room.
LEMMA ClaimTaskStep ==
    ASSUME TypeInv, NEW p \in Pollers, ClaimTask(p)
    PROVE  TypeInv' /\ Implements
<1>1. PICK a \in Candidates(p) :
        IF HasRoom(a) /\ Claimable(a) # {}
        THEN \E t \in Claimable(a) :
                /\ TakeClaim(t)
                /\ IF row[t].runtime = poll[p].runtime
                   THEN Respond(p, t)
                   ELSE PollTo(p, [poll[p] EXCEPT !.tried = @ \cup {a}])
        ELSE /\ PollTo(p, [poll[p] EXCEPT !.tried = @ \cup {a}])
             /\ UNCHANGED row
  BY DEF ClaimTask
<1>2. poll[p].pc = "claim" /\ poll[p].runtime \in Runtimes /\ poll[p] \in Poll
  BY DEF ClaimTask, TypeInv, TypeOK, PollShape
<1>. DEFINE moved == [poll[p] EXCEPT !.tried = @ \cup {a}]
<1>3. /\ moved \in Poll
      /\ moved.pc = "claim"
      /\ moved.runtime \in Runtimes
  <2>1. a \in Agents
    BY <1>1 DEF Candidates
  <2>. QED
    BY <1>2, <2>1 DEF Poll
<1>4. CASE HasRoom(a) /\ Claimable(a) # {}
  <2>1. PICK t \in Claimable(a) :
           /\ TakeClaim(t)
           /\ Respond(p, t) \/ PollTo(p, moved)
    BY <1>1, <1>4
  <2>2. /\ t \in Tasks /\ row[t].status = "queued" /\ row[t].claim < MaxClaims
        /\ HasRoom(row[t].agent)
        /\ \A u \in Tasks : SamePair(t, u) => ~In(u, Active)
    BY <1>4, <2>1 DEF Claimable, In
  <2>3. /\ row' \in [Tasks -> Row] /\ KeepsFailed /\ Implements
        /\ row[t].claim + 1 \in 0 .. MaxClaims
    BY <2>1, <2>2, TakeClaimStep
  <2>4. CASE Respond(p, t)
    <3>1. PICK state \in Poll : /\ PollTo(p, state)
                               /\ state.task \in Tasks
                               /\ state.runtime \in Runtimes
      BY <1>2, <2>2, <2>3, <2>4, RespondStep
    <3>. QED
      BY <2>3, <3>1, WritingPoll DEF ClaimTask
  <2>5. CASE PollTo(p, moved)
    <3>. HIDE DEF moved
    <3>. QED
      BY <1>3, <2>3, <2>5, WritingPoll DEF ClaimTask
  <2>. QED
    BY <2>1, <2>4, <2>5
<1>5. CASE ~(HasRoom(a) /\ Claimable(a) # {})
  <2>1. PollTo(p, moved) /\ UNCHANGED row
    BY <1>1, <1>5
  <2>. HIDE DEF moved
  <2>. QED
    BY <1>3, <2>1, QuietPoll DEF ClaimTask
<1>. QED
  BY <1>4, <1>5

\* The end of a poll: nothing found, answered, cut off or rolled back.
LEMMA PollEndStep ==
    ASSUME TypeInv, NEW p \in Pollers,
           \/ PollFindsNothing(p)
           \/ FinalizeTaskClaim(p)
           \/ AbortPoll(p)
           \/ RequeueTaskAfterClaimFailure(p)
    PROVE  TypeInv' /\ Implements
<1>1. IdlePoll \in Poll /\ IdlePoll.pc = "idle"
  BY BoundsAssumption DEF IdlePoll, Poll, PollPc
<1>2. CASE PollFindsNothing(p) \/ AbortPoll(p)
  BY <1>1, <1>2, QuietPoll DEF PollFindsNothing, AbortPoll
<1>3. CASE FinalizeTaskClaim(p)
  <2>1. poll[p].task \in Tasks /\ poll[p].claim \in 0 .. MaxClaims
    BY <1>3 DEF FinalizeTaskClaim, TypeInv, TypeOK, PollShape, Poll
  <2>2. exec' \subseteq Exec
    BY <1>3, <2>1 DEF FinalizeTaskClaim, TypeInv, TypeOK, Exec, Phases
  <2>3. poll' \in [Pollers -> Poll] /\ PollShape'
    BY <1>1, <1>3, PollStep DEF FinalizeTaskClaim
  <2>. QED
    BY <1>3, <2>2, <2>3
    DEF FinalizeTaskClaim, TypeInv, TypeOK, RetryBudget, Implements, Lifecycle!vars
<1>4. CASE RequeueTaskAfterClaimFailure(p)
  <2>. DEFINE t == poll[p].task
  <2>1. t \in Tasks
    BY <1>4 DEF RequeueTaskAfterClaimFailure, TypeInv, PollShape
  <2>2. CASE UNCHANGED row
    BY <1>1, <1>4, <2>2, QuietPoll DEF RequeueTaskAfterClaimFailure
  <2>3. CASE In(t, {"dispatched"}) /\ row' = Moved({t}, "queued")
    <3>1. "queued" \in Status
      BY DEF Status, Open
    <3>2. /\ {t} \in SUBSET Tasks
          /\ \A u \in {t} : row[u].status \in {"dispatched"}
          /\ row' = Moved({t}, "queued")
      BY <2>1, <2>3 DEF In
    <3>. HIDE DEF t
    <3>3. /\ row' \in [Tasks -> Row]
          /\ KeepsFailed
          /\ Lifecycle!Move({t}, {"dispatched"}, "queued")
      BY <3>1, <3>2, MovedStep
    <3>4. Implements
      BY <2>1, <3>3 DEF Implements, Lifecycle!Next, Lifecycle!Release
    <3>. QED
      BY <1>1, <1>4, <3>3, <3>4, WritingPoll DEF RequeueTaskAfterClaimFailure
  <2>. QED
    BY <1>4, <2>2, <2>3 DEF RequeueTaskAfterClaimFailure, HoldsClaim
<1>. QED
  BY <1>2, <1>3, <1>4

\* Every step of a poll.
LEMMA ClaimStep == TypeInv /\ Claim => TypeInv' /\ Implements
<1> SUFFICES ASSUME TypeInv, Claim PROVE TypeInv' /\ Implements
  OBVIOUS
<1>1. ASSUME NEW t \in Tasks, LeaseExpires(t) PROVE TypeInv' /\ Implements
  <2>1. row' \in [Tasks -> Row] /\ KeepsFailed /\ UNCHANGED Lifecycle!vars
    BY <1>1, LeaseStep DEF LeaseExpires
  <2>. QED
    BY <1>1, <2>1, TableFrame
    DEF LeaseExpires, TypeInv, TypeOK, PollShape, Implements
<1>. QED
  BY <1>1, PromoteStep, ReclaimStep, ClaimTaskStep, PollEndStep DEF Claim

\* A step of an execution that leaves the table alone.
LEMMA QuietExec ==
    ASSUME TypeInv, exec' \subseteq Exec, acking' \subseteq Tasks,
           UNCHANGED <<row, due, poll, daemonUp, offline, retrying, routing>>
    PROVE  TypeInv' /\ Implements
  BY DEF TypeInv, TypeOK, PollShape, RetryBudget, Implements, Lifecycle!vars

\* A step of an execution that rewrites the table.
LEMMA WritingExec ==
    ASSUME TypeInv, exec' \subseteq Exec, acking' \subseteq Tasks,
           row' \in [Tasks -> Row], KeepsFailed,
           UNCHANGED <<due, poll, daemonUp, offline, retrying, routing>>
    PROVE  TypeInv'
<1>1. RetryBudget' /\ retrying' \subseteq Tasks
  BY TableFrame
<1>. QED
  BY <1>1 DEF TypeInv, TypeOK, PollShape

\* Rows that fail, with or without an auto-retry to come.
LEMMA FailRowsStep ==
    ASSUME TypeInv, NEW S \in SUBSET Tasks,
           \A t \in S : row[t].status \in Active \cup {"queued"},
           row' = Moved(S, "failed"),
           retrying' \subseteq retrying \cup WithinBudget(S)
    PROVE  /\ row' \in [Tasks -> Row]
           /\ RetryBudget' /\ retrying' \subseteq Tasks
           /\ Implements
<1>1. "failed" \in Status /\ "failed" \notin Active \cup {"queued"}
  BY DEF Status, Terminal, Active
<1>2. /\ row' \in [Tasks -> Row]
      /\ KeepsFailed
      /\ Lifecycle!Move(S, Active \cup {"queued"}, "failed")
      /\ \A t \in Tasks : row'[t].attempt = row[t].attempt
      /\ \A t \in S : row'[t].status = "failed"
  BY <1>1, MovedStep
<1>3. Implements
  BY <1>2 DEF Implements, Lifecycle!Next, Lifecycle!Fail, Active, Lifecycle!Active
<1>4. RetryBudget' /\ retrying' \subseteq Tasks
  BY <1>2 DEF RetryBudget, WithinBudget, KeepsFailed, TypeInv, TypeOK
<1>. QED
  BY <1>2, <1>3, <1>4

\* Every step of an execution: start, park, extend, complete, fail.
LEMMA ExecuteStep == TypeInv /\ Execute => TypeInv' /\ Implements
<1> SUFFICES ASSUME TypeInv, Execute PROVE TypeInv' /\ Implements
  OBVIOUS
<1>1. ASSUME NEW e \in exec, NEW ph \in Phases, MoveExec(e, ph)
      PROVE  exec' \subseteq Exec
  BY <1>1 DEF MoveExec, TypeInv, TypeOK, Exec
<1>2. \A e \in exec : e \in Exec /\ e.task \in Tasks
  BY DEF TypeInv, TypeOK, Exec
<1>3. ASSUME NEW e \in exec, ExtendTaskPrepareLease(e)
      PROVE  TypeInv' /\ Implements
  <2>1. row' \in [Tasks -> Row] /\ KeepsFailed /\ UNCHANGED Lifecycle!vars
    BY <1>2, <1>3, LeaseStep DEF ExtendTaskPrepareLease
  <2>. QED
    BY <1>3, <2>1, WritingExec
    DEF ExtendTaskPrepareLease, TypeInv, TypeOK, Implements
<1>4. ASSUME NEW e \in exec, MarkTaskWaitingLocalDirectory(e)
      PROVE  TypeInv' /\ Implements
  <2>1. exec' \subseteq Exec
    BY <1>1, <1>4 DEF MarkTaskWaitingLocalDirectory, Phases
  <2>2. CASE UNCHANGED row
    BY <1>4, <2>1, <2>2, QuietExec DEF MarkTaskWaitingLocalDirectory, TypeInv, TypeOK
  <2>3. CASE /\ In(e.task, {"dispatched"})
             /\ row' = Leased(e.task, "waiting_local_directory", row[e.task].claim)
    <3>1. /\ "waiting_local_directory" \in Status
          /\ row[e.task].status = "dispatched"
          /\ row[e.task].claim \in 0 .. MaxClaims
      BY <1>2, <2>3 DEF Status, Open, Active, In, TypeInv, TypeOK, Row
    <3>2. /\ row' \in [Tasks -> Row]
          /\ KeepsFailed
          /\ Lifecycle!Move({e.task}, {"dispatched"}, "waiting_local_directory")
      BY <1>2, <2>3, <3>1, LeasedStep DEF Leased
    <3>. QED
      BY <1>2, <1>4, <2>1, <3>2, WritingExec
      DEF MarkTaskWaitingLocalDirectory, TypeInv, TypeOK, Implements,
          Lifecycle!Next, Lifecycle!Park
  <2>. QED
    BY <1>4, <2>2, <2>3 DEF MarkTaskWaitingLocalDirectory
<1>5. ASSUME NEW e \in exec, StartTask(e)
      PROVE  TypeInv' /\ Implements
  <2>1. exec' \subseteq Exec
    BY <1>1, <1>5 DEF StartTask, Phases
  <2>2. CASE UNCHANGED <<row, acking>>
    BY <1>5, <2>1, <2>2, QuietExec DEF StartTask, TypeInv, TypeOK
  <2>3. CASE /\ In(e.task, {"dispatched", "waiting_local_directory"})
             /\ row' = Moved({e.task}, "running")
             /\ acking' = acking \cup {e.task}
    <3>1. /\ "running" \in Status
          /\ {e.task} \in SUBSET Tasks
          /\ \A t \in {e.task} :
                row[t].status \in {"dispatched", "waiting_local_directory"}
      BY <1>2, <2>3 DEF Status, Open, Active, In
    <3>2. /\ row' \in [Tasks -> Row]
          /\ KeepsFailed
          /\ Lifecycle!Move({e.task}, {"dispatched", "waiting_local_directory"},
                            "running")
      BY <2>3, <3>1, MovedStep
    <3>. QED
      BY <1>2, <1>5, <2>1, <2>3, <3>2, WritingExec
      DEF StartTask, TypeInv, TypeOK, Implements, Lifecycle!Next, Lifecycle!Start
  <2>. QED
    BY <1>5, <2>2, <2>3 DEF StartTask, Startable
<1>6. ASSUME NEW e \in exec,
             \/ StartAcknowledged(e)
             \/ LoseStartResponse(e)
             \/ AbandonStart(e)
             \/ AgentFinishes(e)
             \/ InterruptAgent(e)
             \/ GiveUpReport(e)
      PROVE  TypeInv' /\ Implements
  <2>1. exec' \subseteq Exec
    BY <1>1, <1>2, <1>6
    DEF StartAcknowledged, LoseStartResponse, AbandonStart, AgentFinishes,
        InterruptAgent, GiveUpReport, Phases
  <2>. QED
    BY <1>6, <2>1, QuietExec
    DEF StartAcknowledged, LoseStartResponse, AbandonStart, AgentFinishes,
        InterruptAgent, GiveUpReport, TypeInv, TypeOK
<1>7. ASSUME NEW e \in exec, CompleteTask(e)
      PROVE  TypeInv' /\ Implements
  <2>1. exec' \subseteq Exec
    BY <1>7 DEF CompleteTask, TypeInv, TypeOK
  <2>2. CASE UNCHANGED row
    BY <1>7, <2>1, <2>2, QuietExec DEF CompleteTask, TypeInv, TypeOK
  <2>3. CASE In(e.task, {"running"}) /\ row' = Moved({e.task}, "completed")
    <3>1. /\ "completed" \in Status
          /\ {e.task} \in SUBSET Tasks
          /\ \A t \in {e.task} : row[t].status \in {"running"}
      BY <1>2, <2>3 DEF Status, Terminal, In
    <3>2. /\ row' \in [Tasks -> Row]
          /\ KeepsFailed
          /\ Lifecycle!Move({e.task}, {"running"}, "completed")
      BY <2>3, <3>1, MovedStep
    <3>. QED
      BY <1>2, <1>7, <2>1, <3>2, WritingExec
      DEF CompleteTask, TypeInv, TypeOK, Implements, Lifecycle!Next,
          Lifecycle!Complete
  <2>. QED
    BY <1>7, <2>2, <2>3 DEF CompleteTask
<1>8. ASSUME NEW e \in exec, FailTask(e)
      PROVE  TypeInv' /\ Implements
  <2>1. exec' \subseteq Exec
    BY <1>8 DEF FailTask, TypeInv, TypeOK
  <2>2. CASE UNCHANGED <<row, retrying>>
    BY <1>8, <2>1, <2>2, QuietExec DEF FailTask, TypeInv, TypeOK
  <2>3. CASE /\ In(e.task, Active)
             /\ row' = Moved({e.task}, "failed")
             /\ retrying' \subseteq retrying \cup WithinBudget({e.task})
    <3>1. /\ {e.task} \in SUBSET Tasks
          /\ \A t \in {e.task} : row[t].status \in Active \cup {"queued"}
      BY <1>2, <2>3 DEF In
    <3>2. /\ row' \in [Tasks -> Row]
          /\ RetryBudget' /\ retrying' \subseteq Tasks
          /\ Implements
      BY <2>3, <3>1, FailRowsStep
    <3>. QED
      BY <1>8, <2>1, <3>2 DEF FailTask, TypeInv, TypeOK, PollShape
  <2>. QED
    BY <1>8, <2>2, <2>3 DEF FailTask, Failable
<1>9. ASSUME NEW t \in Tasks, CancelDeferredEscalationsForTask(t)
      PROVE  TypeInv' /\ Implements
  <2>. DEFINE S == {u \in Tasks :
                     /\ row[u].primary = t
                     /\ In(u, {"deferred", "queued", "dispatched",
                               "waiting_local_directory"})}
  <2>1. S \in SUBSET Tasks /\ \A u \in S : In(u, Open)
    BY DEF In, Open, Active
  <2>2. row' = Moved(S, "cancelled") /\ UNCHANGED retrying
    BY <1>9 DEF CancelDeferredEscalationsForTask
  <2>. HIDE DEF S
  <2>3. /\ row' \in [Tasks -> Row] /\ KeepsFailed /\ Implements
        /\ RetryBudget' /\ retrying' \subseteq Tasks
    BY <2>1, <2>2, CancelRowsStep
  <2>. QED
    BY <1>9, <2>3
    DEF CancelDeferredEscalationsForTask, TypeInv, TypeOK, PollShape
<1>. QED
  BY <1>3, <1>4, <1>5, <1>6, <1>7, <1>8, <1>9 DEF Execute

\* A bulk failure inside a larger step.
LEMMA FailRowsType ==
    ASSUME TypeInv, NEW S \in SUBSET Tasks,
           \A t \in S : row[t].status \in Active \cup {"queued"}, FailRows(S),
           daemonUp' \subseteq Runtimes,
           UNCHANGED <<due, poll, exec, offline, acking, routing>>
    PROVE  TypeInv' /\ Implements
<1>1. row' = Moved(S, "failed") /\ retrying' \subseteq retrying \cup WithinBudget(S)
  BY DEF FailRows
<1>2. /\ row' \in [Tasks -> Row]
      /\ RetryBudget' /\ retrying' \subseteq Tasks
      /\ Implements
  BY <1>1, FailRowsStep
<1>. QED
  BY <1>2 DEF TypeInv, TypeOK, PollShape

\* The auto-retry of a failed row.
LEMMA RetryStep ==
    ASSUME TypeInv, NEW t \in Tasks, MaybeRetryFailedTask(t)
    PROVE  TypeInv' /\ Implements
<1>. USE DEF MaybeRetryFailedTask
<1>1. CASE UNCHANGED row
  BY <1>1 DEF TypeInv, TypeOK, PollShape, RetryBudget, Implements, Lifecycle!vars
<1>2. ASSUME NEW c \in Tasks, In(c, {"absent"}),
             row' = [row EXCEPT ![c] =
                       NewRow("queued", row[t].agent, row[t].issue,
                              row[t].runtime, row[t].attempt + 1, t, None)]
      PROVE  TypeInv' /\ Implements
  <2>1. /\ row[t].agent \in Agents \cup {None}
        /\ row[t].issue \in Issues \cup {None}
        /\ row[t].runtime \in Runtimes \cup {None}
        /\ row[t].attempt \in 0 .. MaxAttempts
    BY DEF TypeInv, TypeOK, Row
  <2>2. row[t].attempt + 1 \in 0 .. MaxAttempts
    BY <2>1, BoundsAssumption DEF TypeInv, RetryBudget
  <2>3. row' \in [Tasks -> Row] /\ KeepsFailed /\ Lifecycle!Next
    BY <1>2, <2>1, <2>2, InsertStep DEF In
  <2>. QED
    BY <2>3 DEF TypeInv, TypeOK, PollShape, RetryBudget, KeepsFailed, Implements
<1>. QED
  BY <1>1, <1>2

\* The sweepers, the recovery of orphans and the crashes.
LEMMA RecoverStep == TypeInv /\ Recover => TypeInv' /\ Implements
<1> SUFFICES ASSUME TypeInv, Recover PROVE TypeInv' /\ Implements
  OBVIOUS
<1>1. ASSUME NEW t \in Tasks, ExpireStaleQueuedTask(t)
      PROVE  TypeInv' /\ Implements
  <2>1. /\ {t} \in SUBSET Tasks
        /\ \A u \in {t} : row[u].status \in Active \cup {"queued"}
        /\ row' = Moved({t}, "failed")
        /\ retrying' \subseteq retrying \cup WithinBudget({t})
    BY <1>1 DEF ExpireStaleQueuedTask, In
  <2>2. /\ row' \in [Tasks -> Row]
        /\ RetryBudget' /\ retrying' \subseteq Tasks
        /\ Implements
    BY <2>1, FailRowsStep
  <2>. QED
    BY <1>1, <2>2 DEF ExpireStaleQueuedTask, TypeInv, TypeOK, PollShape
<1>2. CASE AbortHandler
  BY <1>2
  DEF AbortHandler, TypeInv, TypeOK, PollShape, RetryBudget, Implements, Lifecycle!vars
<1>3. ASSUME NEW S \in SUBSET Unattended, FailStaleTasks(S)
      PROVE  TypeInv' /\ Implements
  <2>1. S \in SUBSET Tasks /\ \A t \in S : row[t].status \in Active \cup {"queued"}
    BY DEF Unattended, In, Active
  <2>. QED
    BY <1>3, <2>1, FailRowsType DEF FailStaleTasks, TypeInv, TypeOK
<1>4. CASE FailTasksForOfflineRuntimes
  <2>. DEFINE S == {t \in Tasks : In(t, Active) /\ row[t].runtime \in offline}
  <2>1. S \in SUBSET Tasks /\ \A t \in S : row[t].status \in Active \cup {"queued"}
    BY DEF In
  <2>2. FailRows(S)
    BY <1>4 DEF FailTasksForOfflineRuntimes
  <2>. HIDE DEF S
  <2>. QED
    BY <1>4, <2>1, <2>2, FailRowsType DEF FailTasksForOfflineRuntimes, TypeInv, TypeOK
<1>5. ASSUME NEW r \in Runtimes, RecoverOrphans(r)
      PROVE  TypeInv' /\ Implements
  <2>. DEFINE S == {t \in Tasks : row[t].runtime = r /\ In(t, Active)}
  <2>1. S \in SUBSET Tasks /\ \A t \in S : row[t].status \in Active \cup {"queued"}
    BY DEF In
  <2>2. FailRows(S) /\ daemonUp' \subseteq Runtimes
    BY <1>5 DEF RecoverOrphans, TypeInv, TypeOK
  <2>. HIDE DEF S
  <2>. QED
    BY <1>5, <2>1, <2>2, FailRowsType DEF RecoverOrphans
<1>6. ASSUME NEW r \in Runtimes,
             \/ MarkRuntimeOffline(r)
             \/ Heartbeat(r)
             \/ DaemonCrash(r)
             \/ RegisterDaemon(r)
             \/ SkipRecovery(r)
      PROVE  TypeInv' /\ Implements
  BY <1>6
  DEF MarkRuntimeOffline, Heartbeat, DaemonCrash, RegisterDaemon, SkipRecovery,
      TypeInv, TypeOK, PollShape, RetryBudget, Implements, Lifecycle!vars
<1>. QED
  BY <1>1, <1>2, <1>3, <1>4, <1>5, <1>6, RetryStep DEF Recover

\* Every step keeps the typing invariant and implements the abstract queue.
LEMMA StepLemma == TypeInv /\ [Next]_vars => TypeInv' /\ Implements
<1> SUFFICES ASSUME TypeInv, [Next]_vars PROVE TypeInv' /\ Implements
  OBVIOUS
<1>1. CASE UNCHANGED vars
  BY <1>1 DEF vars, TypeInv, TypeOK, PollShape, RetryBudget, Implements, Lifecycle!vars
<1>2. CASE Next
  BY <1>2, EnqueueStep, CancelStep, ClaimStep, ExecuteStep, RecoverStep DEF Next
<1>. QED
  BY <1>1, <1>2

-----------------------------------------------------------------------------
(* Theorems                                                                 *)

\* The inductive typing invariant holds in every behaviour.
THEOREM TypeInvariant == Spec => []TypeInv
<1>1. TypeInv /\ [Next]_vars => TypeInv'
  BY StepLemma
<1>. QED
  BY TypeInit, <1>1, PTL DEF Spec

\* Every variable of the queue stays in its domain (TypeOK).
THEOREM TypeCorrectness == Spec => []TypeOK
<1>1. TypeInv => TypeOK
  BY DEF TypeInv
<1>. QED
  BY TypeInvariant, <1>1, PTL

\* Whatever handlers, daemons and sweepers interleave, the table moves only as
\* the abstract life of its rows allows: the queue implements TaskLifecycle.
THEOREM Refinement == Spec => FollowsLifecycle
<1>1. Init => Lifecycle!Init
  <2>1. ASSUME Init
        PROVE  \A t \in Tasks : /\ row[t].status = "absent"
                                 /\ row[t].agent = None
                                 /\ row[t].issue = None
    BY <2>1 DEF Init, AbsentRow, NewRow
  <2>. QED
    BY <2>1 DEF Lifecycle!Init
<1>2. TypeInv /\ [Next]_vars => [Lifecycle!Next]_(Lifecycle!vars)
  BY StepLemma DEF Implements
<1>. QED
  BY TypeInvariant, <1>1, <1>2, PTL DEF Spec, FollowsLifecycle, Lifecycle!Spec

-----------------------------------------------------------------------------
(* Safety of the claims                                                     *)

\* What an abstract move says of the rows of the table.
LEMMA MovedRows ==
    ASSUME NEW S, NEW From, NEW s, Lifecycle!Move(S, From, s)
    PROVE  /\ \A t \in Tasks :
                /\ row'[t].status = IF t \in S THEN s ELSE row[t].status
                /\ row'[t].agent = row[t].agent
                /\ row'[t].issue = row[t].issue
           /\ \A t \in S \cap Tasks : row[t].status \in From
<1>1. /\ [t \in Tasks |-> row'[t].status] =
            [t \in Tasks |-> IF t \in S THEN s ELSE [u \in Tasks |-> row[u].status][t]]
      /\ [t \in Tasks |-> row'[t].agent] = [t \in Tasks |-> row[t].agent]
      /\ [t \in Tasks |-> row'[t].issue] = [t \in Tasks |-> row[t].issue]
      /\ \A t \in S : [u \in Tasks |-> row[u].status][t] \in From
  BY DEF Lifecycle!Move
<1>. QED
  BY <1>1

\* A move that activates nothing new.
LEMMA MoveShrinks ==
    ASSUME NEW S, NEW From, NEW s, Lifecycle!Move(S, From, s),
           From \subseteq Active \/ s \notin Active
    PROVE  \A a : ActiveOf(a)' \subseteq ActiveOf(a)
  BY MovedRows DEF ActiveOf, In

\* A claim finds room and no active row of its pair, and adds itself.
Claims(t) ==
    /\ HasRoom(row[t].agent)
    /\ \A u \in ActiveOf(row[t].agent) : row[u].issue # row[t].issue
    /\ t \notin ActiveOf(row[t].agent)
    /\ \A u \in Tasks :
         /\ row'[u].status = IF u = t THEN "dispatched" ELSE row[u].status
         /\ row'[u].agent = row[u].agent
         /\ row'[u].issue = row[u].issue

\* Only a claim makes rows active.
LEMMA ActiveRows ==
    ASSUME TypeInv, Implements
    PROVE  \/ /\ \A a : ActiveOf(a)' \subseteq ActiveOf(a)
              /\ \A t \in Tasks : row[t].status \in Active =>
                    row'[t].agent = row[t].agent /\ row'[t].issue = row[t].issue
           \/ \E t \in Tasks : Claims(t)
<1>1. CASE UNCHANGED Lifecycle!vars
  <2>1. \A t \in Tasks : /\ row'[t].status = row[t].status
                         /\ row'[t].agent = row[t].agent
                         /\ row'[t].issue = row[t].issue
    <3>1. /\ [t \in Tasks |-> row'[t].status] = [t \in Tasks |-> row[t].status]
          /\ [t \in Tasks |-> row'[t].agent] = [t \in Tasks |-> row[t].agent]
          /\ [t \in Tasks |-> row'[t].issue] = [t \in Tasks |-> row[t].issue]
      BY <1>1 DEF Lifecycle!vars
    <3>. QED
      BY <3>1
  <2>. QED
    BY <2>1 DEF ActiveOf, In
<1>2. ASSUME NEW t \in Tasks, NEW s, NEW a, NEW i, Lifecycle!Create(t, s, a, i)
      PROVE  /\ \A b : ActiveOf(b)' \subseteq ActiveOf(b)
             /\ \A u \in Tasks : row[u].status \in Active =>
                   row'[u].agent = row[u].agent /\ row'[u].issue = row[u].issue
  <2>1. /\ row[t].status = "absent"
        /\ s \in {"queued", "deferred"}
        /\ [u \in Tasks |-> row'[u].status] =
              [[u \in Tasks |-> row[u].status] EXCEPT ![t] = s]
        /\ [u \in Tasks |-> row'[u].agent] =
              [[u \in Tasks |-> row[u].agent] EXCEPT ![t] = a]
        /\ [u \in Tasks |-> row'[u].issue] =
              [[u \in Tasks |-> row[u].issue] EXCEPT ![t] = i]
    BY <1>2 DEF Lifecycle!Create
  <2>2. \A u \in Tasks : u # t => /\ row'[u].status = row[u].status
                                  /\ row'[u].agent = row[u].agent
                                  /\ row'[u].issue = row[u].issue
    BY <2>1
  <2>3. row'[t].status = s
    BY <2>1
  <2>. QED
    BY <2>1, <2>2, <2>3 DEF ActiveOf, In, Active
<1>3. ASSUME NEW t \in Tasks, Lifecycle!Claim(t) PROVE Claims(t)
  <2>1. Lifecycle!ActiveOf(row[t].agent) = ActiveOf(row[t].agent)
    BY ActiveOfMapped
  <2>2. Lifecycle!Move({t}, {"queued"}, "dispatched")
    BY <1>3 DEF Lifecycle!Claim
  <2>3. row[t].status = "queued"
    BY <2>2, MovedRows
  <2>4. [u \in Tasks |-> row[u].agent][t] = row[t].agent
    OBVIOUS
  <2>5. /\ HasRoom(row[t].agent)
        /\ \A u \in ActiveOf(row[t].agent) :
             [v \in Tasks |-> row[v].issue][u] # [v \in Tasks |-> row[v].issue][t]
    BY <1>3, <2>1, <2>4, SameCardinality DEF Lifecycle!Claim, HasRoom
  <2>6. \A u \in ActiveOf(row[t].agent) : row[u].issue # row[t].issue
    BY <2>5 DEF ActiveOf
  <2>7. t \notin ActiveOf(row[t].agent)
    BY <2>3 DEF ActiveOf, In, Active
  <2>. QED
    BY <2>2, <2>5, <2>6, <2>7, MovedRows DEF Claims
<1>4. ASSUME NEW S, NEW From, NEW s, Lifecycle!Move(S, From, s),
             From \subseteq Active \/ s \notin Active
      PROVE  /\ \A b : ActiveOf(b)' \subseteq ActiveOf(b)
             /\ \A u \in Tasks : row[u].status \in Active =>
                   row'[u].agent = row[u].agent /\ row'[u].issue = row[u].issue
  BY <1>4, MovedRows, MoveShrinks
<1>5. CASE Lifecycle!Next
  <2>1. ASSUME NEW t \in Tasks,
               \/ Lifecycle!Release(t)
               \/ Lifecycle!Park(t)
               \/ Lifecycle!Start(t)
               \/ Lifecycle!Complete(t)
        PROVE  \E S, From, s : /\ Lifecycle!Move(S, From, s)
                               /\ From \subseteq Active \/ s \notin Active
    <3>1. /\ "queued" \notin Active /\ "completed" \notin Active
          /\ {"dispatched"} \subseteq Active
          /\ {"dispatched", "waiting_local_directory"} \subseteq Active
      BY DEF Active
    <3>. QED
      BY <2>1, <3>1
      DEF Lifecycle!Release, Lifecycle!Park, Lifecycle!Start, Lifecycle!Complete
  <2>2. ASSUME NEW S \in SUBSET Tasks,
               Lifecycle!Promote(S) \/ Lifecycle!Fail(S) \/ Lifecycle!Cancel(S)
        PROVE  \E From, s : /\ Lifecycle!Move(S, From, s)
                            /\ From \subseteq Active \/ s \notin Active
    <3>1. "queued" \notin Active /\ "failed" \notin Active /\ "cancelled" \notin Active
      BY DEF Active
    <3>. QED
      BY <2>2, <3>1 DEF Lifecycle!Promote, Lifecycle!Fail, Lifecycle!Cancel
  <2>. QED
    BY <1>2, <1>3, <1>4, <1>5, <2>1, <2>2 DEF Lifecycle!Next
<1>. QED
  BY <1>1, <1>5 DEF Implements

\* The inductive step of OneActivePerPair: the only row that becomes active is
\* claimed, and its agent has no active row of the same issue then.
LEMMA OneActiveStep ==
    TypeInv /\ OneActivePerPair /\ [Next]_vars => OneActivePerPair'
<1> SUFFICES ASSUME TypeInv, OneActivePerPair, [Next]_vars
             PROVE  OneActivePerPair'
  OBVIOUS
<1>1. Implements
  BY StepLemma
<1>2. CASE /\ \A a : ActiveOf(a)' \subseteq ActiveOf(a)
           /\ \A t \in Tasks : row[t].status \in Active =>
                 row'[t].agent = row[t].agent /\ row'[t].issue = row[t].issue
  <2>1. \A t \in Tasks : row'[t].status \in Active => row[t].status \in Active
    BY <1>2 DEF ActiveOf, In
  <2>. QED
    BY <1>2, <2>1 DEF OneActivePerPair, SamePair, In
<1>3. ASSUME NEW t \in Tasks, Claims(t) PROVE OneActivePerPair'
  <2>1. \A u \in Tasks :
          row[u].status \in Active =>
            ~(row[u].agent = row[t].agent /\ row[u].issue = row[t].issue)
    BY <1>3 DEF Claims, ActiveOf, In
  <2>. QED
    BY <1>3, <2>1 DEF Claims, OneActivePerPair, SamePair, In
<1>. QED
  BY <1>1, <1>2, <1>3, ActiveRows

\* An agent never has two active rows for one issue, whatever polls, reclaims,
\* requeues, retries and promotions are under way (ClaimAgentTask's guard, which
\* no other statement of the queue circumvents).
THEOREM OneActive == Spec => []OneActivePerPair
<1>1. Init => OneActivePerPair
  BY DEF Init, OneActivePerPair, In, AbsentRow, NewRow, Active
<1>. QED
  BY TypeInvariant, <1>1, OneActiveStep, PTL DEF Spec

\* A final row keeps its status in every step.
THEOREM Finality == Spec => TerminalIsFinal
<1>1. ASSUME TypeInv, [Next]_vars
      PROVE  \A t \in Tasks : In(t, Terminal) => row'[t].status = row[t].status
  <2>1. Implements
    BY <1>1, StepLemma
  <2>2. CASE UNCHANGED Lifecycle!vars
    <3>1. [t \in Tasks |-> row'[t].status] = [t \in Tasks |-> row[t].status]
      BY <2>2 DEF Lifecycle!vars
    <3>. QED
      BY <3>1
  <2>3. ASSUME NEW u \in Tasks, NEW s, NEW a, NEW i, Lifecycle!Create(u, s, a, i)
        PROVE  \A t \in Tasks : In(t, Terminal) => row'[t].status = row[t].status
    <3>1. /\ row[u].status = "absent"
          /\ [t \in Tasks |-> row'[t].status] =
                [[t \in Tasks |-> row[t].status] EXCEPT ![u] = s]
      BY <2>3 DEF Lifecycle!Create
    <3>2. \A t \in Tasks : t # u => row'[t].status = row[t].status
      BY <3>1
    <3>. QED
      BY <3>1, <3>2 DEF In, Terminal
  <2>4. ASSUME NEW S, NEW From, NEW s, Lifecycle!Move(S, From, s),
               From \cap Terminal = {}
        PROVE  \A t \in Tasks : In(t, Terminal) => row'[t].status = row[t].status
    BY <2>4, MovedRows DEF In
  <2>5. CASE Lifecycle!Next
    <3>1. \A From \in {{"deferred"}, {"queued"}, {"dispatched"}, {"running"},
                       {"dispatched", "waiting_local_directory"},
                       Lifecycle!Active \cup {"queued"}, Lifecycle!Open} :
             From \cap Terminal = {}
      BY DEF Terminal, Lifecycle!Active, Lifecycle!Open
    <3>. QED
      BY <2>3, <2>4, <2>5, <3>1
      DEF Lifecycle!Next, Lifecycle!Claim, Lifecycle!Release, Lifecycle!Park,
          Lifecycle!Start, Lifecycle!Complete, Lifecycle!Promote, Lifecycle!Fail,
          Lifecycle!Cancel
  <2>. QED
    BY <2>1, <2>2, <2>5 DEF Implements
<1>. QED
  BY TypeInvariant, <1>1, PTL DEF Spec, TerminalIsFinal

\* WithinCapacity made inductive: the active rows of an agent are finitely many.
CapacityInv ==
    \A a \in Agents : /\ IsFiniteSet(ActiveOf(a))
                      /\ Cardinality(ActiveOf(a)) <= Capacity[a]

\* The inductive step of WithinCapacity: a claim adds one row to an agent with
\* room, nothing else adds any.
LEMMA CapacityStep == TypeInv /\ CapacityInv /\ [Next]_vars => CapacityInv'
<1> SUFFICES ASSUME TypeInv, CapacityInv, [Next]_vars, NEW a \in Agents
             PROVE  /\ IsFiniteSet(ActiveOf(a)')
                    /\ Cardinality(ActiveOf(a)') <= Capacity[a]
  BY DEF CapacityInv
<1>1. Implements
  BY StepLemma
<1>2. Capacity[a] \in Nat
  BY BoundsAssumption
<1>3. IsFiniteSet(ActiveOf(a)) /\ Cardinality(ActiveOf(a)) <= Capacity[a]
  BY DEF CapacityInv
<1>4. Cardinality(ActiveOf(a)) \in Nat
  BY <1>3, FS_CardinalityType
<1>5. CASE ActiveOf(a)' \subseteq ActiveOf(a)
  <2>1. /\ IsFiniteSet(ActiveOf(a)')
        /\ Cardinality(ActiveOf(a)') <= Cardinality(ActiveOf(a))
    BY <1>3, <1>5, FS_Subset
  <2>2. Cardinality(ActiveOf(a)') \in Nat
    BY <2>1, FS_CardinalityType
  <2>. QED
    BY <1>2, <1>3, <1>4, <2>1, <2>2
<1>6. ASSUME NEW t \in Tasks, Claims(t)
      PROVE  /\ IsFiniteSet(ActiveOf(a)')
             /\ Cardinality(ActiveOf(a)') <= Capacity[a]
  <2>1. CASE a = row[t].agent
    <3>1. ActiveOf(a)' = ActiveOf(a) \cup {t} /\ t \notin ActiveOf(a)
      BY <1>6, <2>1 DEF Claims, ActiveOf, In, Active
    <3>2. Cardinality(ActiveOf(a)) < Capacity[a]
      BY <1>6, <2>1 DEF Claims, HasRoom
    <3>3. /\ IsFiniteSet(ActiveOf(a) \cup {t})
          /\ Cardinality(ActiveOf(a) \cup {t}) = Cardinality(ActiveOf(a)) + 1
      BY <1>3, <3>1, FS_AddElement
    <3>. QED
      BY <1>2, <1>4, <3>1, <3>2, <3>3
  <2>2. CASE a # row[t].agent
    <3>1. ActiveOf(a)' \subseteq ActiveOf(a)
      BY <1>6, <2>2 DEF Claims, ActiveOf, In
    <3>. QED
      BY <3>1, <1>5
  <2>. QED
    BY <2>1, <2>2
<1>. QED
  BY <1>1, <1>5, <1>6, ActiveRows

\* Claims racing from any number of polls and runtimes never push an agent above
\* its max_concurrent_tasks (ClaimTask under the lock on the agent).
THEOREM CapacityRespected == Spec => []WithinCapacity
<1>1. Init => CapacityInv
  <2> SUFFICES ASSUME Init, NEW a \in Agents
               PROVE  /\ IsFiniteSet(ActiveOf(a))
                      /\ Cardinality(ActiveOf(a)) <= Capacity[a]
    BY DEF CapacityInv
  <2>1. ActiveOf(a) = {}
    BY DEF Init, ActiveOf, In, AbsentRow, NewRow, Active
  <2>. QED
    BY <2>1, FS_EmptySet, BoundsAssumption
<1>2. CapacityInv => WithinCapacity
  BY DEF CapacityInv, WithinCapacity
<1>. QED
  BY TypeInvariant, <1>1, <1>2, CapacityStep, PTL DEF Spec
=============================================================================
