------------------------- MODULE ResultOutboxProofs -------------------------
(***************************************************************************)
(* Theorems about ResultOutbox, for any number of tasks, workers, retries  *)
(* and delivery attempts.                                                  *)
(***************************************************************************)
EXTENDS ResultOutbox, TLAPS

\* A worker at work has a token the row has issued, and while it delivers, its
\* lease is the row's present one and has not expired.
TokensIssued ==
    \A w \in Workers : worker[w].task # None =>
        /\ worker[w].token \in 1 .. outbox[worker[w].task].attempt_count
        /\ Delivering(w) =>
              /\ outbox[worker[w].task].status = "leased"
              /\ outbox[worker[w].task].attempt_count = worker[w].token
              /\ ~outbox[worker[w].task].due

\* No token is held twice.
TokensDistinct ==
    \A v, w \in Workers :
        v # w /\ worker[v].task # None /\ worker[v].task = worker[w].task
            => worker[v].token # worker[w].token

\* An answer is there for a task, and a worker that says "accepted" saw the
\* receiver accept.
AnswersTrue ==
    \A w \in Workers :
        /\ worker[w].answer # None => worker[w].task # None
        /\ worker[w].answer = "accepted" => worker[w].token \in accepted[worker[w].task]

\* A task waiting for its retry has failed and has budget left.
RetriesAffordable == \A t \in retrying : task[t].status = "failed" /\ HasBudget(t)

IInv == /\ TypeOK
        /\ TokensIssued
        /\ TokensDistinct
        /\ AnswersTrue
        /\ RetriesAffordable
        /\ VerdictIsNewest

\* The initial state satisfies the inductive invariant.
LEMMA InitIInv == Init => IInv
<1>. SUFFICES ASSUME Init PROVE IInv
  OBVIOUS
<1>1. task \in [Tasks -> Task]
  BY BoundAssumption DEF Init, Task
<1>2. outbox \in [Tasks -> Row] /\ worker \in [Workers -> Worker]
  BY BoundAssumption DEF Init, Row, Worker, IdleWorker
<1>3. retrying = {} /\ accepted \in [Tasks -> SUBSET (1 .. MaxDeliveries)]
  BY DEF Init
<1>4. \A w \in Workers : worker[w].task = None /\ worker[w].answer = None
  BY DEF Init, IdleWorker
<1>5. AnswersTrue
  BY <1>4, NoneAssumption DEF AnswersTrue, Answers
<1>. QED
  BY <1>1, <1>2, <1>3, <1>4, <1>5
     DEF Init, IInv, TypeOK, TokensIssued, TokensDistinct, RetriesAffordable,
         VerdictIsNewest

\* A row of the outbox that is not leased may change while nobody works on it,
\* as long as it stays undelivered and its attempts are kept.
LEMMA UnleasedStep ==
    ASSUME IInv, NEW t \in Tasks, NEW s \in {"none", "pending"}, NEW d \in BOOLEAN,
           outbox[t].status \in {"none", "pending"},
           outbox' = [outbox EXCEPT ![t] = [outbox[t] EXCEPT !.status = s, !.due = d]],
           UNCHANGED <<worker, accepted>>
    PROVE  /\ outbox' \in [Tasks -> Row]
           /\ TokensIssued' /\ TokensDistinct' /\ AnswersTrue' /\ VerdictIsNewest'
<1>. USE DEF IInv, TypeOK
<1>1. outbox' \in [Tasks -> Row]
  BY DEF Row
<1>2. /\ outbox'[t].status = s
      /\ \A u \in Tasks : outbox'[u].attempt_count = outbox[u].attempt_count
      /\ \A u \in Tasks : u # t => outbox'[u] = outbox[u]
  BY DEF Row
<1>3. \A w \in Workers : worker[w].task \in Tasks \cup {None}
  BY DEF Worker
<1>4. TokensIssued'
  BY <1>2, <1>3, NoneAssumption DEF TokensIssued, Delivering
<1>5. TokensDistinct' /\ AnswersTrue'
  BY DEF TokensDistinct, AnswersTrue
<1>6. VerdictIsNewest'
  BY <1>2 DEF VerdictIsNewest
<1>. QED
  BY <1>1, <1>4, <1>5, <1>6

\* A step of the producers preserves the inductive invariant.
LEMMA ProducerIInv ==
    ASSUME IInv, Producer
    PROVE  IInv'
<1>. USE DEF IInv
<1>. DEFINE Kept == TokensIssued' /\ TokensDistinct' /\ AnswersTrue' /\ VerdictIsNewest'
<1>0. ASSUME UNCHANGED <<outbox, worker, accepted>>
      PROVE  Kept /\ outbox' \in [Tasks -> Row]
  BY <1>0 DEF TypeOK, TokensIssued, TokensDistinct, AnswersTrue, VerdictIsNewest, Delivering
<1>1. ASSUME NEW t \in Tasks, EnqueueWorkbenchResult(t), UNCHANGED <<worker, accepted>>
      PROVE  Kept /\ outbox' \in [Tasks -> Row]
  <2>1. CASE outbox[t].status = "none"
    <3>1. outbox' = [outbox EXCEPT ![t] = [outbox[t] EXCEPT !.status = "pending", !.due = TRUE]]
      BY <1>1, <2>1 DEF EnqueueWorkbenchResult
    <3>. QED
      BY <1>1, <2>1, <3>1, UnleasedStep
  <2>2. CASE outbox[t].status # "none"
    <3>1. outbox' = outbox
      BY <1>1, <2>2 DEF EnqueueWorkbenchResult, TypeOK
    <3>. QED
      BY <1>0, <1>1, <3>1
  <2>. QED
    BY <2>1, <2>2
<1>2. ASSUME NEW t \in Tasks, EnqueueTask(t)
      PROVE  IInv'
  <2>. DEFINE new == [status |-> "running", root |-> t, attempt |-> 1]
  <2>0. new \in Task /\ task' = [task EXCEPT ![t] = new]
    BY <1>2, BoundAssumption DEF EnqueueTask, TypeOK, Task
  <2>. HIDE DEF new
  <2>1. task' \in [Tasks -> Task]
    BY <2>0 DEF TypeOK
  <2>2. RetriesAffordable'
    BY <1>2, <2>0 DEF EnqueueTask, TypeOK, RetriesAffordable, HasBudget
  <2>. QED
    BY <1>0, <1>2, <2>1, <2>2 DEF EnqueueTask, TypeOK
<1>3. ASSUME NEW t \in Tasks, CompleteTask(t)
      PROVE  IInv'
  <2>1. task' \in [Tasks -> Task]
    BY <1>3 DEF CompleteTask, TypeOK, Task
  <2>2. RetriesAffordable'
    BY <1>3 DEF CompleteTask, TypeOK, Task, RetriesAffordable, HasBudget
  <2>. QED
    BY <1>1, <1>3, <2>1, <2>2 DEF CompleteTask, TypeOK
<1>4. ASSUME NEW t \in Tasks, NEW retryable \in BOOLEAN, Fail(t, retryable)
      PROVE  task' \in [Tasks -> Task] /\ retrying' \subseteq Tasks /\ RetriesAffordable'
  <2>1. task' \in [Tasks -> Task]
    BY <1>4 DEF Fail, TypeOK, Task
  <2>2. \A u \in Tasks : /\ task'[u].attempt = task[u].attempt
                         /\ task[u].status = "failed" \/ u = t => task'[u].status = "failed"
    BY <1>4 DEF Fail, TypeOK, Task
  <2>3. /\ retrying' \subseteq Tasks
        /\ \A u \in retrying' : HasBudget(u) /\ (task[u].status = "failed" \/ u = t)
    BY <1>4 DEF Fail, TypeOK, RetriesAffordable
  <2>. QED
    BY <2>1, <2>2, <2>3 DEF RetriesAffordable, HasBudget
<1>5. ASSUME NEW t \in Tasks, FailTask(t)
      PROVE  IInv'
  <2>1. PICK retryable \in BOOLEAN :
          /\ Fail(t, retryable)
          /\ EnqueueWorkbenchResult(t) \/ UNCHANGED outbox
    BY <1>5 DEF FailTask
  <2>2. UNCHANGED <<worker, accepted>>
    BY <2>1 DEF Fail
  <2>3. Kept /\ outbox' \in [Tasks -> Row]
    BY <1>0, <1>1, <2>1, <2>2
  <2>. QED
    BY <1>4, <2>1, <2>2, <2>3 DEF TypeOK
<1>6. ASSUME NEW t \in Tasks, HandleFailedTasks(t)
      PROVE  IInv'
  <2>1. Fail(t, TRUE) /\ UNCHANGED <<outbox, worker, accepted>>
    BY <1>6 DEF HandleFailedTasks, Fail
  <2>. QED
    BY <1>0, <1>4, <2>1 DEF TypeOK
<1>7. ASSUME NEW t \in Tasks, MaybeRetryFailedTask(t)
      PROVE  IInv'
  <2>1. /\ retrying' = retrying \ {t}
        /\ UNCHANGED <<outbox, worker, accepted>>
    BY <1>7 DEF MaybeRetryFailedTask
  <2>2. CASE UNCHANGED task
    BY <1>0, <2>1, <2>2 DEF TypeOK, RetriesAffordable, HasBudget
  <2>3. CASE \E c \in Tasks :
               /\ task[c].status = "absent"
               /\ task' = [task EXCEPT ![c] = [status |-> "running", root |-> task[t].root,
                                               attempt |-> task[t].attempt + 1]]
    <3>1. PICK c \in Tasks :
            /\ task[c].status = "absent"
            /\ task' = [task EXCEPT ![c] = [status |-> "running", root |-> task[t].root,
                                            attempt |-> task[t].attempt + 1]]
      BY <2>3
    <3>2. task[t].attempt + 1 \in 0 .. MaxAttempts
      BY <1>7, BoundAssumption
         DEF MaybeRetryFailedTask, RetriesAffordable, HasBudget, TypeOK, Task
    <3>3. task' \in [Tasks -> Task]
      BY <3>1, <3>2 DEF TypeOK, Task
    <3>. QED
      BY <1>0, <2>1, <3>1, <3>3 DEF TypeOK, RetriesAffordable, HasBudget
  <2>. QED
    BY <1>7, <2>2, <2>3 DEF MaybeRetryFailedTask
<1>. QED
  BY <1>2, <1>3, <1>5, <1>6, <1>7 DEF Producer

\* A worker that gets nothing out of its turn: it lost its lease, it crashed, or
\* its statement failed.
LEMMA IdleStep ==
    ASSUME IInv, NEW w \in Workers, worker' = [worker EXCEPT ![w] = IdleWorker],
           UNCHANGED <<outbox, accepted>>
    PROVE  /\ worker' \in [Workers -> Worker]
           /\ TokensIssued' /\ TokensDistinct' /\ AnswersTrue' /\ VerdictIsNewest'
<1>. USE DEF IInv, TypeOK
<1>1. IdleWorker \in Worker /\ IdleWorker.task = None /\ IdleWorker.answer = None
  BY BoundAssumption DEF IdleWorker, Worker
<1>2. worker'[w] = IdleWorker /\ \A v \in Workers : v # w => worker'[v] = worker[v]
  OBVIOUS
<1>3. worker' \in [Workers -> Worker]
  BY <1>1
<1>4. TokensIssued'
  BY <1>1, <1>2 DEF TokensIssued, Delivering
<1>5. TokensDistinct'
  BY <1>1, <1>2 DEF TokensDistinct
<1>6. AnswersTrue'
  BY <1>1, <1>2, NoneAssumption DEF AnswersTrue, Answers
<1>7. VerdictIsNewest'
  BY DEF VerdictIsNewest
<1>. QED
  BY <1>3, <1>4, <1>5, <1>6, <1>7

\* A claim preserves the inductive invariant: its token is larger than every
\* token issued before.
LEMMA ClaimIInv ==
    ASSUME IInv, NEW w \in Workers, ClaimWorkbenchResults(w)
    PROVE  IInv'
<1>. USE DEF IInv, TypeOK
<1>1. PICK t \in Tasks :
        /\ Claimable(t)
        /\ outbox[t].attempt_count < MaxDeliveries
        /\ outbox' = [outbox EXCEPT ![t] =
                        [status |-> "leased", attempt_count |-> outbox[t].attempt_count + 1,
                         due |-> FALSE]]
        /\ worker' = [worker EXCEPT ![w] = [task |-> t, answer |-> None,
                                              token |-> outbox[t].attempt_count + 1]]
  BY DEF ClaimWorkbenchResults
<1>. DEFINE n == outbox[t].attempt_count + 1
            row == [status |-> "leased", attempt_count |-> n, due |-> FALSE]
            claim == [task |-> t, token |-> n, answer |-> None]
<1>2. n \in 0 .. MaxDeliveries /\ \A u \in Tasks : outbox[u].attempt_count \in Nat
  BY <1>1, BoundAssumption DEF Row
<1>3. outbox' = [outbox EXCEPT ![t] = row] /\ worker' = [worker EXCEPT ![w] = claim]
  BY <1>1
<1>4. row \in Row /\ claim \in Worker
  BY <1>2 DEF Row, Worker
<1>5. /\ row.status = "leased" /\ row.attempt_count = n /\ ~row.due
      /\ claim.task = t /\ claim.token = n /\ claim.answer = None
  OBVIOUS
<1>6. worker[w].task = None /\ UNCHANGED <<task, retrying, accepted>>
  BY DEF ClaimWorkbenchResults
<1>7. \A v \in Workers : /\ worker[v].task \in Tasks \cup {None}
                         /\ worker[v].token \in Nat
  BY BoundAssumption DEF Worker
<1>. HIDE DEF n, row, claim
<1>8. /\ outbox'[t] = row /\ \A u \in Tasks : u # t => outbox'[u] = outbox[u]
      /\ worker'[w] = claim /\ \A v \in Workers : v # w => worker'[v] = worker[v]
  BY <1>3
<1>9. \A v \in Workers : worker[v].task = t => worker[v].token < n
  BY <1>2, <1>7, NoneAssumption DEF TokensIssued, n
<1>10. \A v \in Workers : v # w /\ worker[v].task = t => worker[v].answer # None
  <2>. SUFFICES ASSUME NEW v \in Workers, worker[v].task = t, Delivering(v)
                PROVE  FALSE
    BY NoneAssumption DEF Delivering
  <2>1. outbox[t].status = "leased" /\ ~outbox[t].due
    BY NoneAssumption DEF TokensIssued
  <2>. QED
    BY <1>1, <2>1 DEF Claimable
<1>11. TokensIssued'
  BY <1>2, <1>5, <1>7, <1>8, <1>9, <1>10, NoneAssumption DEF TokensIssued, Delivering, n
<1>12. TokensDistinct'
  BY <1>5, <1>7, <1>8, <1>9 DEF TokensDistinct
<1>13. AnswersTrue'
  BY <1>5, <1>6, <1>8, NoneAssumption DEF AnswersTrue, Answers
<1>14. VerdictIsNewest'
  BY <1>5, <1>6, <1>8 DEF VerdictIsNewest
<1>. QED
  BY <1>3, <1>4, <1>6, <1>11, <1>12, <1>13, <1>14 DEF RetriesAffordable, HasBudget

\* The end of a delivery preserves the inductive invariant.
LEMMA DeliverIInv ==
    ASSUME IInv, NEW w \in Workers, DeliverResult(w)
    PROVE  IInv'
<1>. USE DEF IInv, TypeOK
<1>. DEFINE t == worker[w].task
            n == worker[w].token
            received == [accepted EXCEPT ![t] = @ \cup {n}]
<1>1. t \in Tasks /\ n \in 1 .. outbox[t].attempt_count /\ n \in 1 .. MaxDeliveries
  BY NoneAssumption, BoundAssumption
     DEF DeliverResult, Delivering, Worker, TokensIssued
<1>2. PICK a \in Answers :
        /\ worker' = [worker EXCEPT ![w].answer = a]
        /\ accepted' \in {received, accepted}
        /\ a = "accepted" => accepted' = received
  BY DEF DeliverResult, Answers
<1>3. UNCHANGED <<task, retrying, outbox>>
  BY DEF DeliverResult
<1>4. received \in [Tasks -> SUBSET (1 .. MaxDeliveries)] /\ n \in received[t]
  BY <1>1
<1>5. \A u \in Tasks : accepted[u] \subseteq accepted'[u]
  BY <1>2
<1>6. worker' \in [Workers -> Worker]
  BY <1>2 DEF Worker
<1>7. \A v \in Workers : /\ worker'[v].task = worker[v].task
                         /\ worker'[v].token = worker[v].token
                         /\ worker'[v].answer = IF v = w THEN a ELSE worker[v].answer
  BY <1>2 DEF Worker
<1>. HIDE DEF received
<1>8. TokensIssued'
  BY <1>3, <1>7, <1>2, NoneAssumption DEF TokensIssued, Delivering
<1>9. TokensDistinct'
  <2>. SUFFICES ASSUME NEW u \in Workers, NEW v \in Workers, u # v,
                       worker'[u].task # None, worker'[u].task = worker'[v].task
                PROVE  worker'[u].token # worker'[v].token
    BY DEF TokensDistinct
  <2>1. worker[u].task # None /\ worker[u].task = worker[v].task
    BY <1>7
  <2>2. worker[u].token # worker[v].token
    BY <2>1 DEF TokensDistinct
  <2>. QED
    BY <1>7, <2>2
<1>10. AnswersTrue'
  <2>. SUFFICES ASSUME NEW v \in Workers
                PROVE  /\ worker'[v].answer # None => worker'[v].task # None
                       /\ worker'[v].answer = "accepted"
                              => worker'[v].token \in accepted'[worker'[v].task]
    BY DEF AnswersTrue
  <2>1. CASE v = w
    <3>1. worker'[w].task = t /\ worker'[w].token = n /\ t # None
      BY <1>1, <1>7, NoneAssumption
    <3>2. a = "accepted" => n \in accepted'[t]
      BY <1>2, <1>4
    <3>. QED
      BY <2>1, <3>1, <3>2, <1>7
  <2>2. CASE v # w
    <3>1. worker[v].task \in Tasks \cup {None} /\ "accepted" # None
      BY NoneAssumption DEF Worker, Answers
    <3>. QED
      BY <2>2, <3>1, <1>5, <1>7 DEF AnswersTrue
  <2>. QED
    BY <2>1, <2>2
<1>11. VerdictIsNewest'
  BY <1>3, <1>5 DEF VerdictIsNewest
<1>. QED
  BY <1>2, <1>3, <1>4, <1>6, <1>8, <1>9, <1>10, <1>11 DEF RetriesAffordable, HasBudget

\* Recording the answer of a delivery preserves the inductive invariant.
LEMMA FinalizeIInv ==
    ASSUME IInv, NEW w \in Workers, FinalizeResult(w)
    PROVE  IInv'
<1>. USE DEF IInv, TypeOK
<1>1. /\ worker' = [worker EXCEPT ![w] = IdleWorker]
      /\ UNCHANGED <<task, retrying, accepted>>
  BY DEF FinalizeResult
<1>2. CASE ~HoldsLease(w)
  <2>1. UNCHANGED outbox
    BY <1>2 DEF FinalizeResult
  <2>. QED
    BY <1>1, <2>1, IdleStep DEF RetriesAffordable, HasBudget
<1>3. CASE HoldsLease(w)
  <2>. DEFINE t == worker[w].task
              new == [outbox[t] EXCEPT !.status = Verdict(worker[w].answer), !.due = FALSE]
  <2>1. t \in Tasks /\ outbox[t].status = "leased" /\ outbox[t].attempt_count = worker[w].token
    BY <1>3 DEF FinalizeResult, HoldsLease, AnswersTrue, Worker
  <2>2. /\ Verdict(worker[w].answer) \in {"delivered", "pending", "terminal_failed"}
        /\ Verdict(worker[w].answer) = "delivered" => worker[w].answer = "accepted"
    BY DEF FinalizeResult, Worker, Answers, Verdict
  <2>3. outbox' = [outbox EXCEPT ![t] = new]
    BY <1>3, <2>1 DEF FinalizeResult
  <2>4. /\ new \in Row
        /\ new.status = Verdict(worker[w].answer)
        /\ new.attempt_count = outbox[t].attempt_count
    BY <2>1, <2>2 DEF Row, Final
  <2>. HIDE DEF new
  <2>5. outbox'[t] = new /\ \A u \in Tasks : u # t => outbox'[u] = outbox[u]
    BY <2>1, <2>3
  <2>6. IdleWorker \in Worker /\ IdleWorker.task = None /\ IdleWorker.answer = None
    BY BoundAssumption DEF IdleWorker, Worker
  <2>7. worker'[w] = IdleWorker /\ \A v \in Workers : v # w => worker'[v] = worker[v]
    BY <1>1
  <2>8. \A v \in Workers : v # w /\ worker[v].task = t => ~Delivering(v)
    BY <2>1, NoneAssumption DEF TokensIssued, TokensDistinct
  <2>9. \A v \in Workers : worker[v].task \in Tasks \cup {None}
    BY DEF Worker
  <2>10. TokensIssued'
    BY <2>4, <2>5, <2>6, <2>7, <2>8, <2>9, NoneAssumption DEF TokensIssued, Delivering
  <2>11. TokensDistinct'
    BY <2>6, <2>7 DEF TokensDistinct
  <2>12. AnswersTrue'
    BY <1>1, <2>6, <2>7, NoneAssumption DEF AnswersTrue, Answers
  <2>13. VerdictIsNewest'
    BY <1>1, <2>1, <2>2, <2>4, <2>5 DEF VerdictIsNewest, AnswersTrue
  <2>. QED
    BY <1>1, <2>3, <2>4, <2>6, <2>10, <2>11, <2>12, <2>13 DEF RetriesAffordable, HasBudget
<1>. QED
  BY <1>2, <1>3

\* The passing of time preserves the inductive invariant: it does not end a lease
\* whose delivery is under way.
LEMMA TimeIInv ==
    ASSUME IInv, NEW t \in Tasks, TimePasses(t)
    PROVE  IInv'
<1>. USE DEF IInv, TypeOK
<1>1. outbox' = [outbox EXCEPT ![t].due = TRUE] /\ UNCHANGED <<task, retrying, worker, accepted>>
  BY DEF TimePasses
<1>2. outbox' \in [Tasks -> Row]
  BY <1>1 DEF Row
<1>3. \A u \in Tasks : /\ outbox'[u].status = outbox[u].status
                       /\ outbox'[u].attempt_count = outbox[u].attempt_count
                       /\ u # t => outbox'[u].due = outbox[u].due
  BY <1>1 DEF Row
<1>4. \A w \in Workers : worker[w].task = t => ~Delivering(w)
  BY NoneAssumption DEF TimePasses, TokensIssued
<1>5. \A w \in Workers : worker[w].task \in Tasks \cup {None}
  BY DEF Worker
<1>6. TokensIssued'
  BY <1>1, <1>3, <1>4, <1>5, NoneAssumption DEF TokensIssued, Delivering
<1>7. TokensDistinct' /\ AnswersTrue'
  BY <1>1 DEF TokensDistinct, AnswersTrue
<1>8. VerdictIsNewest'
  BY <1>1, <1>3 DEF VerdictIsNewest
<1>. QED
  BY <1>1, <1>2, <1>6, <1>7, <1>8 DEF RetriesAffordable, HasBudget

\* Every step preserves the inductive invariant.
LEMMA NextIInv == IInv /\ [Next]_vars => IInv'
<1>. SUFFICES ASSUME IInv, [Next]_vars PROVE IInv'
  OBVIOUS
<1>1. CASE Producer
  BY <1>1, ProducerIInv
<1>2. ASSUME NEW w \in Workers, AbandonResult(w)
      PROVE  IInv'
  BY <1>2, IdleStep DEF AbandonResult, IInv, TypeOK, RetriesAffordable, HasBudget
<1>3. CASE UNCHANGED vars
  BY <1>3 DEF vars, IInv, TypeOK, TokensIssued, Delivering, TokensDistinct, AnswersTrue,
              RetriesAffordable, HasBudget, VerdictIsNewest
<1>. QED
  BY <1>1, <1>2, <1>3, ClaimIInv, DeliverIInv, FinalizeIInv, TimeIInv DEF Next

-----------------------------------------------------------------------------
(* Chains of retries                                                        *)

\* A task that may still report an outcome, or has reported one.
Open(t) == task[t].status = "running" \/ t \in retrying \/ outbox[t].status # "none"

\* The root of a chain was created, and a task that was not is a chain of its own.
Rooted ==
    \A t \in Tasks : IF task[t].status = "absent"
                     THEN task[t].root = t /\ ~Open(t)
                     ELSE task[task[t].root].status # "absent"

\* A task reports when it ends, and not while its retry is to come.
ReportsAtEnd ==
    \A t \in Tasks : task[t].status = "running" \/ t \in retrying => outbox[t].status = "none"

\* A retry takes over from the task it retries.
OneOpen ==
    \A t, u \in Tasks : t # u /\ task[t].root = task[u].root => ~Open(t) \/ ~Open(u)

ChainInv == Rooted /\ ReportsAtEnd /\ OneOpen

\* The initial state satisfies the invariant on chains.
LEMMA InitChains == Init => ChainInv
<1>. SUFFICES ASSUME Init PROVE ChainInv
  OBVIOUS
<1>1. \A t \in Tasks : /\ task[t].status = "absent" /\ task[t].root = t
                      /\ outbox[t].status = "none" /\ t \notin retrying
  BY DEF Init
<1>. QED
  BY <1>1 DEF ChainInv, Rooted, ReportsAtEnd, OneOpen, Open

\* Rows of the outbox that change without being inserted do not concern the chains.
LEMMA RowsMove ==
    ASSUME ChainInv, UNCHANGED <<task, retrying>>,
           \A t \in Tasks : outbox'[t].status = "none" <=> outbox[t].status = "none"
    PROVE  ChainInv'
  BY DEF ChainInv, Rooted, ReportsAtEnd, OneOpen, Open

\* A running task that ends, with or without a report, with or without a retry to come.
LEMMA TaskEnds ==
    ASSUME IInv, ChainInv, NEW t \in Tasks, task[t].status = "running",
           NEW s \in {"completed", "failed"},
           task' = [task EXCEPT ![t].status = s],
           retrying' = retrying \/ (retrying' = retrying \cup {t} /\ outbox' = outbox),
           outbox' = outbox \/ EnqueueWorkbenchResult(t)
    PROVE  ChainInv'
<1>. USE DEF IInv, TypeOK
<1>1. /\ \A u \in Tasks : task'[u].root = task[u].root
      /\ \A u \in Tasks : u # t => task'[u] = task[u] /\ outbox'[u] = outbox[u]
      /\ task'[t].status = s /\ task[t].root \in Tasks
  BY DEF Task, EnqueueWorkbenchResult
<1>2. \A u \in Tasks : Open(u)' => Open(u)
  BY <1>1 DEF Open
<1>3. Rooted'
  BY <1>1, <1>2 DEF ChainInv, Rooted, Task
<1>4. t \notin retrying /\ outbox[t].status = "none"
  BY DEF RetriesAffordable, ChainInv, ReportsAtEnd
<1>5. ReportsAtEnd'
  BY <1>1, <1>4 DEF ChainInv, ReportsAtEnd
<1>6. OneOpen'
  BY <1>1, <1>2 DEF ChainInv, OneOpen
<1>. QED
  BY <1>3, <1>5, <1>6 DEF ChainInv

\* A task that is created, on its own or as the retry of the one task of its chain
\* that is open.
LEMMA TaskBegins ==
    ASSUME IInv, ChainInv, NEW c \in Tasks, task[c].status = "absent",
           NEW t \in Tasks, NEW n,
           t = c \/ (t \in retrying /\ task[t].root # c),
           task' = [task EXCEPT ![c] = [status |-> "running", root |-> task[t].root, attempt |-> n]],
           retrying' = retrying \ {t}, outbox' = outbox
    PROVE  ChainInv'
<1>. USE DEF IInv, TypeOK
<1>1. /\ task'[c].status = "running" /\ task'[c].root = task[t].root
      /\ \A u \in Tasks : u # c => task'[u] = task[u]
  OBVIOUS
<1>2. /\ ~Open(c) /\ task[c].root = c
      /\ \A u \in Tasks : u # c /\ task[u].root = c => FALSE
  BY DEF ChainInv, Rooted
<1>3. /\ t # c => task[t].status = "failed" /\ outbox[t].status = "none"
      /\ task[t].root \in Tasks
  BY DEF RetriesAffordable, ChainInv, ReportsAtEnd, Task
<1>4. \A u \in Tasks : u # c /\ Open(u)' => Open(u) /\ u # t
  BY <1>1, <1>3 DEF Open
<1>5. Rooted'
  BY <1>1, <1>2, <1>3, <1>4 DEF ChainInv, Rooted, Task
<1>6. ReportsAtEnd'
  BY <1>1, <1>2 DEF ChainInv, ReportsAtEnd, Open
<1>7. \A u \in Tasks : u # c /\ task[u].root = task[t].root => ~Open(u)'
  BY <1>2, <1>4 DEF ChainInv, OneOpen, Open
<1>8. OneOpen'
  BY <1>1, <1>4, <1>7 DEF ChainInv, OneOpen
<1>. QED
  BY <1>5, <1>6, <1>8 DEF ChainInv

\* Every step preserves the invariant on chains.
LEMMA NextChains == IInv /\ ChainInv /\ [Next]_vars => ChainInv'
<1>. SUFFICES ASSUME IInv, ChainInv, [Next]_vars PROVE ChainInv'
  OBVIOUS
<1>. USE DEF IInv, TypeOK
<1>1. ASSUME NEW t \in Tasks, EnqueueTask(t) PROVE ChainInv'
  <2>1. task[t].root = t /\ t \notin retrying /\ task[t].status = "absent"
    BY <1>1 DEF EnqueueTask, ChainInv, Rooted, Open
  <2>2. retrying' = retrying \ {t}
    BY <1>1, <2>1 DEF EnqueueTask
  <2>3. task' = [task EXCEPT ![t] = [status |-> "running", root |-> task[t].root, attempt |-> 1]]
    BY <1>1, <2>1 DEF EnqueueTask
  <2>4. outbox' = outbox
    BY <1>1 DEF EnqueueTask
  <2>. QED
    BY <2>1, <2>2, <2>3, <2>4, TaskBegins
<1>2. ASSUME NEW t \in Tasks, CompleteTask(t) PROVE ChainInv'
  BY <1>2, TaskEnds DEF CompleteTask
<1>3. ASSUME NEW t \in Tasks, FailTask(t) PROVE ChainInv'
  BY <1>3, TaskEnds DEF FailTask, Fail, ReportsFailure
<1>4. ASSUME NEW t \in Tasks, HandleFailedTasks(t) PROVE ChainInv'
  BY <1>4, TaskEnds DEF HandleFailedTasks, Fail
<1>5. ASSUME NEW t \in Tasks, MaybeRetryFailedTask(t) PROVE ChainInv'
  <2>1. CASE UNCHANGED task
    BY <1>5, <2>1 DEF MaybeRetryFailedTask, ChainInv, Rooted, ReportsAtEnd, OneOpen, Open
  <2>2. ASSUME NEW c \in Tasks, task[c].status = "absent",
               task' = [task EXCEPT ![c] = [status |-> "running", root |-> task[t].root,
                                            attempt |-> task[t].attempt + 1]]
        PROVE  ChainInv'
    <3>1. task[t].root # c
      BY <1>5, <2>2 DEF MaybeRetryFailedTask, RetriesAffordable, ChainInv, Rooted
    <3>. QED
      BY <1>5, <2>2, <3>1, TaskBegins DEF MaybeRetryFailedTask
  <2>. QED
    BY <1>5, <2>1, <2>2 DEF MaybeRetryFailedTask
<1>6. ASSUME NEW w \in Workers, ClaimWorkbenchResults(w) PROVE ChainInv'
  <2>1. \A t \in Tasks : outbox'[t].status = "none" <=> outbox[t].status = "none"
    BY <1>6 DEF ClaimWorkbenchResults, Claimable
  <2>. QED
    BY <1>6, <2>1, RowsMove DEF ClaimWorkbenchResults
<1>7. ASSUME NEW w \in Workers, FinalizeResult(w) PROVE ChainInv'
  <2>1. CASE HoldsLease(w)
    <3>1. Verdict(worker[w].answer) # "none"
      BY <1>7 DEF FinalizeResult, Worker, Answers, Verdict
    <3>2. \A t \in Tasks : outbox'[t].status = "none" <=> outbox[t].status = "none"
      BY <1>7, <2>1, <3>1 DEF FinalizeResult, HoldsLease, Row
    <3>. QED
      BY <1>7, <3>2, RowsMove DEF FinalizeResult
  <2>. QED
    BY <1>7, <2>1, RowsMove DEF FinalizeResult
<1>8. ASSUME NEW t \in Tasks, TimePasses(t) PROVE ChainInv'
  <2>1. \A u \in Tasks : outbox'[u].status = "none" <=> outbox[u].status = "none"
    BY <1>8 DEF TimePasses, Row
  <2>. QED
    BY <1>8, <2>1, RowsMove DEF TimePasses
<1>9. ASSUME NEW w \in Workers, DeliverResult(w) \/ AbandonResult(w) PROVE ChainInv'
  BY <1>9, RowsMove DEF DeliverResult, AbandonResult
<1>10. CASE UNCHANGED vars
  BY <1>10, RowsMove DEF vars
<1>. QED
  BY <1>1, <1>2, <1>3, <1>4, <1>5, <1>6, <1>7, <1>8, <1>9, <1>10 DEF Next, Producer

-----------------------------------------------------------------------------
(* The theorems                                                             *)

\* The inductive invariant holds in every reachable state.
THEOREM Invariance == Spec => []IInv
  BY InitIInv, NextIInv, PTL DEF Spec

\* Two workers never post the same result at the same time.
THEOREM OneDelivery == Spec => []OneDeliveryAtATime
<1>1. IInv => OneDeliveryAtATime
  BY NoneAssumption
     DEF IInv, TypeOK, TokensIssued, TokensDistinct, OneDeliveryAtATime, Delivering
<1>. QED
  BY <1>1, Invariance, PTL

\* What the outbox records as delivered was accepted in the newest attempt.
THEOREM NewestVerdict == Spec => []VerdictIsNewest
<1>1. IInv => VerdictIsNewest
  BY DEF IInv
<1>. QED
  BY <1>1, Invariance, PTL

\* What a delivered or refused result is, it stays.
THEOREM Settled == Spec => SettledForGood
<1>. DEFINE Stays == \A t \in Tasks : outbox[t].status \in Final => outbox'[t] = outbox[t]
<1>1. IInv /\ [Next]_vars => [Stays]_vars
  <2>. SUFFICES ASSUME IInv, Next, NEW t \in Tasks, outbox[t].status \in Final
                PROVE  outbox'[t] = outbox[t]
    OBVIOUS
  <2>. USE DEF IInv, TypeOK, Final
  <2>1. ASSUME NEW u \in Tasks, EnqueueWorkbenchResult(u)
        PROVE  outbox'[t] = outbox[t]
    BY <2>1 DEF EnqueueWorkbenchResult
  <2>2. CASE Producer
    BY <2>1, <2>2
       DEF Producer, EnqueueTask, CompleteTask, FailTask, HandleFailedTasks,
           MaybeRetryFailedTask
  <2>3. ASSUME NEW w \in Workers, ClaimWorkbenchResults(w)
        PROVE  outbox'[t] = outbox[t]
    BY <2>3 DEF ClaimWorkbenchResults, Claimable
  <2>4. ASSUME NEW w \in Workers, DeliverResult(w) \/ AbandonResult(w)
        PROVE  outbox'[t] = outbox[t]
    BY <2>4 DEF DeliverResult, AbandonResult
  <2>5. ASSUME NEW w \in Workers, FinalizeResult(w)
        PROVE  outbox'[t] = outbox[t]
    <3>1. CASE HoldsLease(w)
      <4>1. worker[w].task # t
        BY <3>1 DEF HoldsLease
      <4>. QED
        BY <2>5, <3>1, <4>1 DEF FinalizeResult
    <3>. QED
      BY <2>5, <3>1 DEF FinalizeResult
  <2>6. ASSUME NEW u \in Tasks, TimePasses(u)
        PROVE  outbox'[t] = outbox[t]
    BY <2>6 DEF TimePasses
  <2>. QED
    BY <2>2, <2>3, <2>4, <2>5, <2>6 DEF Next
<1>. QED
  BY <1>1, Invariance, PTL DEF Spec, SettledForGood

\* Tasks, results and workers keep their shapes, for any numbers of them.
THEOREM TypeCorrectness == Spec => []TypeOK
  BY Invariance, PTL DEF IInv

\* A task and its automatic retries report at most one outcome, although a retry is
\* created after the failure has committed, and may never be.
THEOREM OneOutcome == Spec => []OneOutcomePerChain
<1>1. ChainInv => OneOutcomePerChain
  BY DEF ChainInv, OneOpen, Open, OneOutcomePerChain
<1>2. Spec => []ChainInv
  BY InitChains, NextChains, Invariance, PTL DEF Spec
<1>. QED
  BY <1>1, <1>2, PTL
=============================================================================
