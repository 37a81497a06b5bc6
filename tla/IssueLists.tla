----------------------------- MODULE IssueLists -----------------------------
(***************************************************************************)
(* The issue lists of one client: bucketed list queries and issue details  *)
(* in the query cache, kept right by events, by the user's own optimistic  *)
(* changes and by refetches, all of which overlap. Nothing is refetched on *)
(* its own (staleTime is Infinity), so an error that no invalidation       *)
(* follows stays on the screen.                                            *)
(*                                                                         *)
(* The server is the log of the commits it made. A list query has the      *)
(* states of the query library: its data, the invalidation mark, and a     *)
(* fetch of one page per status, each read by the server on its own.       *)
(* Setting data clears the mark and does not stop a fetch. A handler runs  *)
(* without interruption between two awaits.                                *)
(*                                                                         *)
(* "races", "since" and "own" are history: why a list may be wrong, how    *)
(* many commits its last load had seen, and which of the user's changes it *)
(* has had since. No action depends on them.                               *)
(***************************************************************************)
EXTENDS IssueBuckets, RealtimeSocket

CONSTANTS
    Mutations,      \* calls of useCreateIssue, useUpdateIssue and useDeleteIssue
    Start,          \* [Issues -> Entity or None]: the server's issues at the start
    Drafts,         \* what a created issue may be
    MaxCommits,     \* bound of the model on the commits of anybody
    MaxMoves        \* bound of the model on what users and the network start

ASSUME StartAssumption == Start \in [Issues -> Entity \cup {None}] /\ Drafts \subseteq Entity
ASSUME BoundAssumption == {MaxCommits, MaxMoves} \subseteq Nat
ASSUME MutationsAssumption == None \notin Mutations

VARIABLES
    log,        \* commits: the issue, what it is from then on, and whose call it was
    list,       \* [Lists -> query]
    viewed,     \* the list on the screen, if any
    detail,     \* [Issues -> data of the detail query]
    asking,     \* [Issues -> answer on its way to the detail query]
    mutation,   \* [Mutations -> call]
    moves       \* views, changes, commits of others, lost connections, failures so far

client == <<list, viewed, detail, asking>>
vars == <<socketVars, log, client, mutation, moves>>

\* Everything else only follows from one of these.
Move == moves < MaxMoves /\ moves' = moves + 1

Commits == 0 .. MaxCommits
Entry == [id: Issues, now: Entity \cup {None}, by: Mutations \cup {None}]

\* The server after the first n commits.
StateAt(n) ==
    [i \in Issues |->
        LET last == {k \in 1 .. n : log[k].id = i}
        IN  IF last = {} THEN Start[i] ELSE log[CHOOSE k \in last : \A m \in last : m <= k].now]
Now == StateAt(Len(log))

Races == {"gap", "overtaken", "torn", "twice", "miscounted", "rolled back", "cancelled",
          "unmarked", "late answer"}

\* A fetch holds the pages that the server has read, and the commits it had seen
\* when it read the first and the last of them.
Fetch == [pages: [Statuses -> Bucket \cup {None}], first: Commits, last: Commits]
NoPages == [pages |-> [s \in Statuses |-> None], first |-> 0, last |-> 0]

Query == [data: Data \cup {None}, marked: BOOLEAN, fetch: Fetch \cup {None},
          since: Commits, own: SUBSET Mutations, races: SUBSET Races]
ASSUME QueryAssumption == None \notin Query /\ None \notin Data /\ None \notin Fetch
Unloaded == [data |-> None, marked |-> FALSE, fetch |-> None,
             since |-> 0, own |-> {}, races |-> {}]

\* A call, with the context its onMutate returned: what each list it wrote was before
\* and after, the lists to refetch when it settles, and the detail before.
Call == [kind: {"none", "update", "create", "delete", "over"},
         status: {"sent", "done", "refused"},
         id: Issues \cup {None}, patch: Patches \cup {None}, answer: Entity \cup {None},
         saved: [Lists -> Query \cup {None}], wrote: [Lists -> Query \cup {None}],
         stale: SUBSET Lists, detail: Entity \cup {None}, at: Commits]
NoCall == [kind |-> "none", status |-> "sent", id |-> None, patch |-> None, answer |-> None,
           saved |-> [l \in Lists |-> None], wrote |-> [l \in Lists |-> None],
           stale |-> {}, detail |-> None, at |-> 0]
Over == [NoCall EXCEPT !.kind = "over"]

Init ==
    /\ SocketInit
    /\ log = <<>>
    /\ list = [l \in Lists |-> Unloaded]
    /\ viewed = None
    /\ detail = [i \in Issues |-> None]
    /\ asking = [i \in Issues |-> None]
    /\ mutation = [m \in Mutations |-> NoCall]
    /\ moves = 0

-----------------------------------------------------------------------------
(* The query library                                                       *)

\* setQueryData, of a list that has data.
Set(q, data, races) ==
    [q EXCEPT !.data = data, !.marked = FALSE,
              !.races = @ \cup races \cup
                  (IF q.marked /\ q.fetch = None THEN {"unmarked"} ELSE {})]

\* invalidateQueries: a list on the screen is loaded again, and a load that is
\* running is started over unless it is the first.
Invalidated(q, l) ==
    [q EXCEPT !.marked = TRUE,
              !.fetch = IF l = viewed /\ (q.data # None \/ q.fetch = None) THEN NoPages ELSE @]

\* cancelQueries
Cancelled(q) ==
    IF q.fetch = None THEN q
    ELSE [q EXCEPT !.fetch = None, !.races = @ \cup {"cancelled"}]

Pending(n) == \E k \in 1 .. Len(frames) : frames[k] = n

\* Why a load that is complete may be wrong already.
LoadRaces(f) ==
    (IF f.first # f.last THEN {"torn"} ELSE {}) \cup
    (IF \E n \in f.first + 1 .. Len(log) : ~Pending(n) THEN {"overtaken"} ELSE {})

-----------------------------------------------------------------------------
(* Opening lists and details                                               *)

View(l) ==
    /\ viewed # l /\ socket.phase # "torn down"
    /\ Move
    /\ viewed' = l
    /\ list' = [list EXCEPT ![l].fetch =
                    IF @ = None /\ (list[l].data = None \/ list[l].marked) THEN NoPages ELSE @]
    /\ UNCHANGED <<socketVars, log, detail, asking, mutation>>

ReadPage(l, s) ==
    LET f == list[l].fetch IN
    /\ f # None /\ f.pages[s] = None
    /\ list' = [list EXCEPT ![l].fetch =
            [pages |-> [f.pages EXCEPT ![s] = Page(Now, l, s, 0)],
             first |-> IF f = NoPages THEN Len(log) ELSE f.first,
             last |-> Len(log)]]
    /\ UNCHANGED <<socketVars, log, viewed, detail, asking, mutation, moves>>

\* fetchFirstPages has every page: the query takes them, whatever it had.
Loaded(l) ==
    LET f == list[l].fetch IN
    /\ f # None /\ None \notin {f.pages[s] : s \in Statuses}
    /\ list' = [list EXCEPT ![l] = [data |-> f.pages, marked |-> FALSE, fetch |-> None,
                                    since |-> f.first, own |-> {}, races |-> LoadRaces(f)]]
    /\ UNCHANGED <<socketVars, log, viewed, detail, asking, mutation, moves>>

LoadFails(l) ==
    /\ list[l].fetch # None
    /\ Move
    /\ list' = [list EXCEPT ![l] = [@ EXCEPT !.fetch = None, !.marked = TRUE]]
    /\ UNCHANGED <<socketVars, log, viewed, detail, asking, mutation>>

\* The detail is opened, or it is opened again or on the screen after an invalidation.
AskDetail(i) ==
    /\ asking[i] = None /\ Now[i] # None
    /\ Move
    /\ asking' = [asking EXCEPT ![i] = Now[i]]
    /\ UNCHANGED <<socketVars, log, list, viewed, detail, mutation>>

DetailArrives(i) ==
    /\ asking[i] # None
    /\ detail' = [detail EXCEPT ![i] = asking[i]]
    /\ asking' = [asking EXCEPT ![i] = None]
    /\ UNCHANGED <<socketVars, log, list, viewed, mutation, moves>>

-----------------------------------------------------------------------------
(* The server                                                              *)

\* A commit of anybody: its event goes to this client too if it is registered. If it is
\* not, and no recovery will follow, the lists that are loaded miss it for good.
Commit(i, now, by) ==
    /\ Len(log) < MaxCommits
    /\ log' = Append(log, [id |-> i, now |-> now, by |-> by])
    /\ Publish(Len(log) + 1)
    /\ list' = [l \in Lists |->
                    IF Unrecovered /\ list[l].data # None
                    THEN [list[l] EXCEPT !.races = @ \cup {"gap"}] ELSE list[l]]
    /\ UNCHANGED <<socket, viewed, detail, asking>>

Unborn(i) == Now[i] = None /\ \A k \in 1 .. Len(log) : log[k].id # i

OthersCreate(i, e) == Move /\ Unborn(i) /\ Commit(i, e, None) /\ UNCHANGED mutation
OthersUpdate(i, patch) ==
    /\ Move
    /\ Now[i] # None /\ Merged(Now[i], patch) # Now[i]
    /\ Commit(i, Merged(Now[i], patch), None)
    /\ UNCHANGED mutation
OthersDelete(i) == Move /\ Now[i] # None /\ Commit(i, None, None) /\ UNCHANGED mutation

-----------------------------------------------------------------------------
(* Events                                                                  *)

Before(n) == StateAt(n - 1)[log[n].id]

HandleFrame ==
    /\ frames # <<>>
    /\ frames' = Tail(frames)
    /\ UNCHANGED <<socket, log, viewed, mutation, moves>>

IssueCreated ==
    /\ HandleFrame
    /\ LET n == Head(frames)
           e == log[n]
           twice(q) == /\ e.now.status \notin Places(q.data, e.id)
                       /\ Shows(q.data, e.id) \/ q.since >= n
       IN
       /\ Before(n) = None /\ e.now # None
       /\ list' = [l \in Lists |->
            IF l # Board THEN Invalidated(list[l], l)
            ELSE IF list[l].data = None THEN list[l]
            ELSE Set(list[l], AddCard(list[l].data, e.id, e.now),
                     IF twice(list[l]) THEN {"twice"} ELSE {})]
    /\ UNCHANGED <<detail, asking>>

\* onIssueUpdated looks for the cached issue in the detail, then on the board.
CachedIssue(i) ==
    IF detail[i] # None THEN detail[i]
    ELSE IF list[Board].data # None /\ Shows(list[Board].data, i)
    THEN Copy(list[Board].data, i) ELSE None

Concerns(m, i) ==
    mutation[m].id = i \/ \E k \in 1 .. Len(log) : log[k].by = m /\ log[k].id = i

\* An event about a card that is not loaded, judged by an entity that is not the one
\* the event changed, or counted in a total that has it already.
Miscounted(q, n, outcome) ==
    /\ ~Shows(q.data, log[n].id) /\ ~outcome.stale
    /\ \/ outcome.written /\ (q.since >= n \/ log[n].by \in q.own)
       \/ \E m \in q.own \ {log[n].by} : Concerns(m, log[n].id)
       \/ CachedIssue(log[n].id) # Before(n) /\ log[n].by \notin q.own

\* applyIssueChange and invalidateStaleListKeys, of one list.
Updated(q, l, n) ==
    LET e == log[n]
        o == Change(l, q.data, e.id, e.now, ChangedFields(e.now, Before(n)), CachedIssue(e.id))
        races == IF Miscounted(q, n, o) THEN {"miscounted"} ELSE {}
        own == {m \in q.own : ~Concerns(m, e.id)}
        set == [(IF o.written THEN Set(q, o.data, races) ELSE q)
                    EXCEPT !.own = own, !.races = @ \cup races]
    IN  IF q.data = None THEN q ELSE IF o.stale THEN Invalidated(set, l) ELSE set

IssueUpdated ==
    /\ HandleFrame
    /\ LET n == Head(frames) IN
       /\ Before(n) # None /\ log[n].now # None
       /\ list' = [l \in Lists |-> Updated(list[l], l, n)]
       /\ detail' = [detail EXCEPT ![log[n].id] = IF @ = None THEN None ELSE log[n].now]
    /\ UNCHANGED asking

\* cleanupDeletedIssueCaches
Pruned(q, l, i) ==
    Invalidated(IF q.data = None THEN q ELSE Set(q, RemoveCard(q.data, i), {}), l)

Forget(i) ==
    /\ detail' = [detail EXCEPT ![i] = None]
    /\ asking' = [asking EXCEPT ![i] = None]

IssueDeleted ==
    /\ HandleFrame
    /\ LET e == log[Head(frames)] IN
       /\ e.now = None
       /\ list' = [l \in Lists |-> Pruned(list[l], l, e.id)]
       /\ Forget(e.id)

-----------------------------------------------------------------------------
(* The connection                                                          *)

\* invalidateWorkspaceScopedQueries
AllInvalidated == [l \in Lists |-> Invalidated(list[l], l)]

IsUp ==
    /\ Opens
    /\ list' = IF Recovers THEN AllInvalidated ELSE list
    /\ UNCHANGED <<log, viewed, detail, asking, mutation, moves>>

Quietly == UNCHANGED <<log, client, mutation, moves>>
Registers == ServerRegisters /\ Quietly
Drops == Move /\ Closes /\ UNCHANGED <<log, client, mutation>>
Retries == ReconnectTimer /\ Quietly

\* Another workspace is on the screen, with an instance of its own.
Leaves ==
    /\ Move
    /\ Disconnects
    /\ viewed' = None
    /\ UNCHANGED <<log, list, detail, asking, mutation>>

Returns ==
    /\ NewInstance
    /\ list' = AllInvalidated
    /\ UNCHANGED <<log, viewed, detail, asking, mutation, moves>>

-----------------------------------------------------------------------------
(* The user's changes                                                      *)

OnScreen(i) ==
    \/ detail[i] # None
    \/ viewed # None /\ list[viewed].data # None /\ Shows(list[viewed].data, i)

Begin(m, call) ==
    /\ Move
    /\ mutation[m].kind = "none"
    /\ socket.phase # "torn down"
    /\ mutation' = [mutation EXCEPT ![m] = call]
    /\ UNCHANGED <<socketVars, log, viewed>>

\* onMutate of useUpdateIssue: loads are cancelled, and the change is made at once.
StartUpdate(m, i, patch) ==
    LET base == detail[i]
        outcome == [l \in Lists |->
            IF list[l].data = None THEN Untouched(None)
            ELSE Change(l, list[l].data, i, patch, ChangedFields(patch, base), base)]
        misjudged(l) ==
            /\ list[l].data # None /\ ~Shows(list[l].data, i) /\ ~outcome[l].stale
            /\ \/ base # Now[i]
               \/ \E k \in 1 .. Len(log) : log[k].id = i /\ Pending(k)
               \/ outcome[l].written /\ \E k \in list[l].own : Concerns(k, i)
        now == [l \in Lists |->
            LET races == IF misjudged(l) THEN {"miscounted"} ELSE {}
                q == [Cancelled(list[l]) EXCEPT !.own = @ \cup {m}, !.races = @ \cup races]
            IN  IF outcome[l].written THEN Set(q, outcome[l].data, {}) ELSE q]
    IN
    /\ OnScreen(i)
    /\ Begin(m, [NoCall EXCEPT
            !.kind = "update", !.id = i, !.patch = patch,
            !.saved = [l \in Lists |-> IF outcome[l].written THEN list[l] ELSE None],
            !.wrote = [l \in Lists |-> IF outcome[l].written THEN now[l] ELSE None],
            !.stale = {l \in Lists : outcome[l].stale},
            !.detail = base, !.at = Len(log) - Len(frames)])
    /\ list' = now
    /\ detail' = [detail EXCEPT ![i] = IF @ = None THEN None ELSE Merged(@, patch)]
    /\ UNCHANGED asking

StartCreate(m, e) ==
    /\ Begin(m, [NoCall EXCEPT !.kind = "create", !.answer = e])
    /\ UNCHANGED <<list, detail, asking>>

\* onMutate of useDeleteIssue: every list is saved, and the card is taken out of all.
StartDelete(m, i) ==
    LET now == [l \in Lists |->
            LET q == [Cancelled(list[l]) EXCEPT !.own = @ \cup {m}] IN
            IF q.data = None THEN q ELSE Set(q, RemoveCard(q.data, i), {})]
        kept(f) == [l \in Lists |-> IF list[l].data = None THEN None ELSE f[l]]
    IN
    /\ OnScreen(i)
    /\ Begin(m, [NoCall EXCEPT !.kind = "delete", !.id = i, !.saved = kept(list),
                               !.wrote = kept(now), !.detail = detail[i],
                               !.at = Len(log) - Len(frames)])
    /\ list' = now
    /\ Forget(i)

Done(m, i, now) ==
    /\ mutation' = [mutation EXCEPT ![m] = [@ EXCEPT !.status = "done", !.id = i, !.answer = now]]
    /\ UNCHANGED moves

Sent(m, kind) == mutation[m].kind = kind /\ mutation[m].status = "sent"

ServerUpdates(m) ==
    LET c == mutation[m]
        now == Merged(Now[c.id], c.patch)
    IN
    /\ Sent(m, "update") /\ Now[c.id] # None
    /\ Commit(c.id, now, m)
    /\ Done(m, c.id, now)

ServerCreates(m, i) ==
    /\ Sent(m, "create") /\ Unborn(i)
    /\ Commit(i, mutation[m].answer, m)
    /\ Done(m, i, mutation[m].answer)

ServerDeletes(m) ==
    /\ Sent(m, "delete") /\ Now[mutation[m].id] # None
    /\ Commit(mutation[m].id, None, m)
    /\ Done(m, mutation[m].id, None)

Refused(m) == mutation' = [mutation EXCEPT ![m].status = "refused"]

\* The issue is not there any more.
ServerRefuses(m) ==
    /\ Sent(m, "update") \/ Sent(m, "delete")
    /\ Now[mutation[m].id] = None
    /\ Refused(m)
    /\ UNCHANGED <<socketVars, log, client, moves>>

\* No answer arrives, whether the server has done the work or not.
RequestFails(m) ==
    /\ mutation[m].kind \notin {"none", "over"} /\ mutation[m].status # "refused"
    /\ Move
    /\ Refused(m)
    /\ UNCHANGED <<socketVars, log, client>>

Settle(m, kind, status) ==
    /\ mutation[m].kind = kind /\ mutation[m].status = status
    /\ mutation' = [mutation EXCEPT ![m] = Over]
    /\ UNCHANGED <<socketVars, log, viewed, moves>>

\* The answer is older than what an event or a load has already brought.
Late(i, m) == \E k \in 1 .. Len(log) :
    /\ log[k].id = i /\ ~Pending(k)
    /\ \E n \in 1 .. k - 1 : log[n].by = m

\* onSuccess reconciles with the server's entity as its own base, so that no list is
\* judged again; onSettled refetches the lists that onMutate could not decide.
UpdateSucceeds(m) ==
    LET c == mutation[m]
        changed == {f \in Given(c.patch) : c.answer[f] # c.patch[f]}
        late == IF Late(c.id, m) THEN {"late answer"} ELSE {}
        reconciled(q, l) ==
            IF q.data = None THEN q
            ELSE LET o == Change(l, q.data, c.id, c.answer, changed, c.answer)
                     set == IF o.written THEN Set(q, o.data, late) ELSE q
                 IN  IF o.stale THEN Invalidated(set, l) ELSE set
    IN
    /\ Settle(m, "update", "done")
    /\ list' = [l \in Lists |->
            IF l \in c.stale THEN Invalidated(reconciled(list[l], l), l)
            ELSE reconciled(list[l], l)]
    /\ detail' = [detail EXCEPT ![c.id] = IF @ = None THEN None ELSE c.answer]
    /\ UNCHANGED asking

\* The whole list as it was when the change was made, whatever has happened to it since.
Restored(q, m, l) ==
    LET c == mutation[m]
        disturbed == \/ q.data # c.wrote[l].data \/ q.since # c.wrote[l].since
                     \/ q.own # c.wrote[l].own
                     \/ \E k \in c.at + 1 .. Len(log) : ~Pending(k)
    IN  IF c.saved[l] = None THEN q
        ELSE [Set(q, c.saved[l].data, IF disturbed THEN {"rolled back"} ELSE {})
                EXCEPT !.own = @ \ {m}]

UpdateFails(m) ==
    LET c == mutation[m] IN
    /\ Settle(m, "update", "refused")
    /\ list' = [l \in Lists |->
            IF l \in c.stale THEN Invalidated(Restored(list[l], m, l), l)
            ELSE Restored(list[l], m, l)]
    /\ detail' = [detail EXCEPT ![c.id] = IF c.detail = None THEN @ ELSE c.detail]
    /\ UNCHANGED asking

CreateSettles(m) ==
    LET c == mutation[m]
        q == list[Board]
    IN
    /\ c.status \in {"done", "refused"} /\ Settle(m, "create", c.status)
    /\ list' = [list EXCEPT ![Board] = Invalidated(
            IF c.status = "done" /\ q.data # None
            THEN Set(q, AddCard(q.data, c.id, c.answer), {}) ELSE q, Board)]
    /\ UNCHANGED <<detail, asking>>

DeleteSucceeds(m) ==
    /\ Settle(m, "delete", "done")
    /\ list' = [l \in Lists |-> Pruned(list[l], l, mutation[m].id)]
    /\ Forget(mutation[m].id)

DeleteFails(m) ==
    LET c == mutation[m] IN
    /\ Settle(m, "delete", "refused")
    /\ list' = [l \in Lists |->
            IF l = Board THEN Invalidated(Restored(list[l], m, l), l) ELSE Restored(list[l], m, l)]
    /\ detail' = [detail EXCEPT ![c.id] = IF c.detail = None THEN @ ELSE c.detail]
    /\ UNCHANGED asking

-----------------------------------------------------------------------------

OneField == {p \in Patches : Cardinality(Given(p)) = 1}

Connection == IsUp \/ Registers \/ Drops \/ Retries \/ Leaves \/ Returns
Events == IssueCreated \/ IssueUpdated \/ IssueDeleted
Loads ==
    \/ \E l \in Lists : \/ View(l) \/ Loaded(l) \/ LoadFails(l)
                        \/ \E s \in Statuses : ReadPage(l, s)
    \/ \E i \in Issues : AskDetail(i) \/ DetailArrives(i)
Others == \E i \in Issues :
    \/ \E e \in Drafts : OthersCreate(i, e)
    \/ \E p \in OneField : OthersUpdate(i, p)
    \/ OthersDelete(i)
Calls == \E m \in Mutations :
    \/ \E i \in Issues : \/ \E p \in OneField : StartUpdate(m, i, p)
                         \/ StartDelete(m, i)
                         \/ ServerCreates(m, i)
    \/ \E e \in Drafts : StartCreate(m, e)
    \/ ServerUpdates(m) \/ ServerDeletes(m) \/ ServerRefuses(m) \/ RequestFails(m)
    \/ UpdateSucceeds(m) \/ UpdateFails(m) \/ CreateSettles(m)
    \/ DeleteSucceeds(m) \/ DeleteFails(m)

Next == Connection \/ Events \/ Loads \/ Others \/ Calls
Spec == Init /\ [][Next]_vars

-----------------------------------------------------------------------------
(* Properties                                                              *)

\* The cache, its queries and the calls in flight keep the shapes that the query functions
\* and the mutations' contexts give them, in every order of events, answers and loads:
\* no total goes below zero and no frame names a commit that was not made.
TypeOK ==
    /\ socket \in Socket /\ frames \in Seq(1 .. Len(log))
    /\ log \in Seq(Entry)
    /\ list \in [Lists -> Query]
    /\ viewed \in Lists \cup {None}
    /\ detail \in [Issues -> Entity \cup {None}] /\ asking \in [Issues -> Entity \cup {None}]
    /\ mutation \in [Mutations -> Call]
    /\ moves \in 0 .. MaxMoves

\* Nothing is under way that could still change the list.
Settled(l) ==
    /\ list[l].data # None /\ ~list[l].marked /\ list[l].fetch = None
    /\ socket.phase = "up" /\ socket.registered /\ frames = <<>>
    /\ \A m \in Mutations : mutation[m].kind \in {"none", "over"}

Right(l) == \A s \in Statuses :
    LET bucket == list[l].data[s] IN
    /\ bucket.total = Cardinality(Members(Now, l, s))
    /\ bucket.cards \subseteq {CardOf(i, Now[i]) : i \in Members(Now, l, s)}

\* A list at rest is what the server has, in every bucket and every total, unless one of
\* the named races has happened to it since its last load.
SettledListIsRight == \A l \in Lists : Settled(l) /\ list[l].races = {} => Right(l)

=============================================================================
