---------------------------- MODULE IssueBuckets ----------------------------
(***************************************************************************)
(* What the clients keep of a workspace's issues, and the pure functions   *)
(* that change it: a list is a bucket of loaded cards and a server total   *)
(* for each status, and the coordinator's rules say what one change of one *)
(* issue does to one list.                                                 *)
(*                                                                         *)
(* An issue is named by its position, so that the order of a bucket is the *)
(* order of the numbers and a bucket is a set. A status is its index in    *)
(* PAGINATED_STATUSES. The owner stands for every field that a list filters*)
(* by (assignee, project).                                                 *)
(***************************************************************************)
EXTENDS Integers, FiniteSets

CONSTANTS
    Issues,         \* ids, which are also the positions
    Statuses,       \* indices of PAGINATED_STATUSES
    Owners,
    Board,          \* the list without a filter
    MyLists,        \* the filtered lists
    ListOwners,     \* [MyLists -> owners whose issues the server puts in the list]
    Undecidable,    \* the lists whose filter only the server can evaluate
    PageSize,       \* ISSUE_PAGE_SIZE
    None

Lists == {Board} \cup MyLists

ASSUME IssuesAssumption == Issues \subseteq Nat /\ IsFiniteSet(Issues)
ASSUME StatusesAssumption == Statuses \subseteq Nat /\ IsFiniteSet(Statuses) /\ Statuses # {}
ASSUME ListsAssumption ==
    /\ ListOwners \in [MyLists -> SUBSET Owners]
    /\ Undecidable \subseteq MyLists
    /\ Board \notin MyLists
    /\ None \notin Lists
ASSUME PageAssumption == PageSize \in Nat \ {0}

Fields == {"status", "owner"}
Entity == [status: Statuses, owner: Owners]
ASSUME NoneAssumption ==
    None \notin Entity /\ None \notin Issues /\ None \notin Statuses /\ None \notin Owners

Card == [id: Issues, status: Statuses, owner: Owners]
CardOf(i, e) == [id |-> i, status |-> e.status, owner |-> e.owner]

\* The fields that a write carries, and their values.
Patches == {[status |-> s, owner |-> None] : s \in Statuses} \cup
           {[status |-> None, owner |-> o] : o \in Owners} \cup Entity
Given(patch) == {f \in Fields : patch[f] # None}
Merged(e, patch) ==
    [status |-> IF patch.status = None THEN e.status ELSE patch.status,
     owner  |-> IF patch.owner = None THEN e.owner ELSE patch.owner]

Bucket == [cards: SUBSET Card, total: Nat]
Data == [Statuses -> Bucket]

Lowest(S) == CHOOSE n \in S : \A m \in S : n <= m

\* mutated
LessUnchecked(n) == n - 1

Less(n) == IF n = 0 THEN 0 ELSE n - 1

-----------------------------------------------------------------------------
(* The server's answer to one page request                                 *)

Members(state, l, s) ==
    {i \in Issues : /\ state[i] # None
                    /\ state[i].status = s
                    /\ l # Board => state[i].owner \in ListOwners[l]}

Page(state, l, s, offset) ==
    LET members == Members(state, l, s)
        before(i) == Cardinality({j \in members : j < i})
    IN  [cards |-> {CardOf(i, state[i]) : i \in {j \in members :
                        offset <= before(j) /\ before(j) < offset + PageSize}},
         total |-> Cardinality(members)]

-----------------------------------------------------------------------------
(* One list                                                                *)

Places(data, i) == {s \in Statuses : \E c \in data[s].cards : c.id = i}
Shows(data, i) == Places(data, i) # {}

\* findIssueLocation: the first status whose bucket has the issue, and the copy there.
Located(data, i) == Lowest(Places(data, i))
Copy(data, i) ==
    LET c == CHOOSE c \in data[Located(data, i)].cards : c.id = i
    IN  [status |-> c.status, owner |-> c.owner]

AddCard(data, i, e) ==
    IF e.status \in Places(data, i) THEN data
    ELSE [data EXCEPT ![e.status] =
            [cards |-> data[e.status].cards \cup {CardOf(i, e)},
             total |-> data[e.status].total + 1]]

Without(cards, i) == {c \in cards : c.id # i}

RemoveCard(data, i) ==
    IF ~Shows(data, i) THEN data
    ELSE LET s == Located(data, i) IN
         [data EXCEPT ![s] = [cards |-> Without(data[s].cards, i),
                              total |-> Less(data[s].total)]]

MoveTotal(data, from, to) ==
    IF from = to THEN data
    ELSE [data EXCEPT ![from] = [cards |-> data[from].cards,
                                 total |-> Less(data[from].total)],
                      ![to] = [cards |-> data[to].cards,
                               total |-> data[to].total + 1]]

DropTotal(data, s) ==
    [data EXCEPT ![s] = [cards |-> data[s].cards, total |-> Less(data[s].total)]]

\* patchIssueInBuckets: without a new status every copy in the bucket is replaced,
\* with one the card moves and both totals change.
PatchCard(data, i, patch) ==
    LET from == Located(data, i)
        to == IF patch.status = None THEN from ELSE patch.status
        e == Merged(Copy(data, i), patch)
    IN  IF ~Shows(data, i) THEN data
        ELSE IF to = from
        THEN [data EXCEPT ![from] = [cards |-> Without(data[from].cards, i) \cup {CardOf(i, e)},
                                     total |-> data[from].total]]
        ELSE [data EXCEPT ![from] = [cards |-> Without(data[from].cards, i),
                                     total |-> Less(data[from].total)],
                          ![to] = [cards |-> data[to].cards \cup {CardOf(i, e)},
                                   total |-> data[to].total + 1]]

-----------------------------------------------------------------------------
(* The coordinator's rules for one change of one issue in one list         *)

\* issueChangedDims
ChangedFields(patch, base) ==
    {f \in Given(patch) : base = None \/ base[f] # patch[f]}

FilterTouched(l, changed) == l # Board /\ "owner" \in changed

\* issueMatchesListFilter, of the pre-change entity and of that entity with the patch.
Judged(l, owner) ==
    IF l = Board THEN "yes"
    ELSE IF l \in Undecidable \/ owner = None THEN "unknown"
    ELSE IF owner \in ListOwners[l] THEN "yes" ELSE "no"
WasMember(l, base) == IF base = None THEN "unknown" ELSE Judged(l, base.owner)
IsMember(l, patch, base) ==
    Judged(l, IF patch.owner # None THEN patch.owner
              ELSE IF base # None THEN base.owner ELSE None)

\* The new data, whether it was set, and whether the key has to be refetched.
Outcome(data, written, stale) == [data |-> data, written |-> written, stale |-> stale]
Untouched(data) == Outcome(data, FALSE, FALSE)

LoadedCard(l, data, i, patch, changed) ==
    LET member == Judged(l, Merged(Copy(data, i), patch).owner)
        leaves == FilterTouched(l, changed) /\ member = "no"
    IN  Outcome(IF leaves THEN RemoveCard(data, i) ELSE PatchCard(data, i, patch), TRUE,
                FilterTouched(l, changed) /\ member = "unknown")

Moves(patch, changed, base) ==
    "status" \in changed /\ patch.status \notin {None, base.status}

\* mutated
LeaveUnloaded(l, data, i, patch, changed, base) == Untouched(data)

UnloadedCard(l, data, i, patch, changed, base) ==
    LET was == WasMember(l, base)
        is == IsMember(l, patch, base)
    IN  IF ~FilterTouched(l, changed) /\ "status" \notin changed THEN Untouched(data)
        ELSE IF was = "no" /\ is = "no" THEN Untouched(data)
        ELSE IF was = "yes" /\ is = "yes" THEN
            IF Moves(patch, changed, base)
            THEN Outcome(MoveTotal(data, base.status, patch.status), TRUE, TRUE)
            ELSE Untouched(data)
        ELSE IF was = "yes" /\ is = "no"
        THEN Outcome(DropTotal(data, base.status), TRUE, FALSE)
        ELSE Outcome(data, FALSE, TRUE)

\* One list's part of applyIssueChange.
Change(l, data, i, patch, changed, base) ==
    IF Shows(data, i) THEN LoadedCard(l, data, i, patch, changed)
    ELSE UnloadedCard(l, data, i, patch, changed, base)

=============================================================================
