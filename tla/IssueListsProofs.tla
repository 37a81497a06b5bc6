------------------------- MODULE IssueListsProofs -------------------------
(***************************************************************************)
(* Theorems about IssueLists, for any issues, statuses, lists and pages,   *)
(* any number of calls of the user at once, and any bounds: the types, and *)
(* that a list at rest is what the server has.                             *)
(*                                                                         *)
(* The second needs to say of a list that is not at rest yet in what way   *)
(* it may differ from the server. Base is what is always so of the wire    *)
(* (the frames are the last commits, in order), the log, the calls and     *)
(* their contexts, and the loads. On top of it a list without races and    *)
(* without a reload ahead (Quiet) is Explained: there is a column P with a *)
(* place for each issue (a status, or none) that the totals count and the  *)
(* cards are in, and of each issue, what the list has of it is what the    *)
(* server had at the list's load or has at the last event since, unless an *)
(* event about it is still to come (Owed) or it is as a call of the user   *)
(* has put it whose event has not come (Changing, Removing, Leaving). What *)
(* a rollback would put back is explained in the same way, without the     *)
(* call it undoes (SavedOf). When nothing is under way, none of the        *)
(* exceptions is left.                                                     *)
(***************************************************************************)
EXTENDS IssueLists, FiniteSetTheorems, SequenceTheorems, TLAPS

\* What a call that is under way knows.
CallShape(c) ==
    /\ c.kind \in {"update", "delete"} => c.id \in Issues
    /\ c.kind = "update" => c.patch \in Patches /\ (c.status = "done" => c.answer \in Entity)
    /\ c.kind = "create" => c.answer \in Entity /\ (c.status = "done" => c.id \in Issues)

\* A frame is about a commit at least as far in the log as the frame is in the queue, so that
\* there are no more frames than commits.
FramesInv == \A k \in 1 .. Len(frames) : k <= frames[k]

SocketInv ==
    /\ socket \in Socket
    /\ frames \in Seq(1 .. Len(log))
    /\ FramesInv

ServerInv == log \in Seq(Entry) /\ Len(log) <= MaxCommits

ClientInv ==
    /\ list \in [Lists -> Query]
    /\ viewed \in Lists \cup {None}
    /\ detail \in [Issues -> Entity \cup {None}]
    /\ asking \in [Issues -> Entity \cup {None}]

CallsInv == mutation \in [Mutations -> Call] /\ \A m \in Mutations : CallShape(mutation[m])

MovesInv == moves \in 0 .. MaxMoves

TypeInv == SocketInv /\ ServerInv /\ ClientInv /\ CallsInv /\ MovesInv
-----------------------------------------------------------------------------
(* Numbers and sets of them                                                *)

\* A finite set of numbers that is not empty has a smallest member.
LEMMA SmallestExists ==
    ASSUME NEW S \in SUBSET Nat, IsFiniteSet(S), S # {}
    PROVE  \E c \in S : \A d \in S : c <= d
<1>. DEFINE Below(c) == {d \in S : d < c}
            F == {Below(c) : c \in S}
<1>0. S \subseteq Int
  OBVIOUS
<1>1. IsWellFoundedOn(StrictSubsetOrdering(S), FiniteSubsetsOf(S))
  BY FS_StrictSubsetOrderingWellFounded
<1>2. \A c \in S : Below(c) \in FiniteSubsetsOf(S)
  BY FS_Subset DEF FiniteSubsetsOf
<1>3. F \subseteq FiniteSubsetsOf(S) /\ F # {}
  BY <1>2
<1>4. \E A \in F : \A B \in F : <<B, A>> \notin StrictSubsetOrdering(S)
  BY <1>1, <1>3, WFMin
<1>5. PICK c \in S : \A d \in S : <<Below(d), Below(c)>> \notin StrictSubsetOrdering(S)
  BY <1>4
<1>6. ASSUME NEW d \in S, ~(c <= d) PROVE FALSE
  <2>1. \A x \in S : x < d => x < c
    BY <1>0, <1>6
  <2>2. d < c /\ ~(d < d)
    BY <1>0, <1>6
  <2>3. Below(d) \subseteq Below(c) /\ d \in Below(c) /\ d \notin Below(d)
    BY <2>1, <2>2
  <2>4. Below(d) \in SUBSET S /\ Below(c) \in SUBSET S /\ Below(d) # Below(c)
    BY <2>3
  <2>5. <<Below(d), Below(c)>> \notin StrictSubsetOrdering(S)
    BY <1>5
  <2>. HIDE DEF Below
  <2>. QED
    BY <2>3, <2>4, <2>5 DEF StrictSubsetOrdering
<1>. QED
  BY <1>6

\* And a largest one.
LEMMA LargestExists ==
    ASSUME NEW S \in SUBSET Nat, IsFiniteSet(S), S # {}
    PROVE  \E c \in S : \A d \in S : d <= c
<1>. DEFINE Above(c) == {d \in S : c < d}
            F == {Above(c) : c \in S}
<1>0. S \subseteq Int
  OBVIOUS
<1>1. IsWellFoundedOn(StrictSubsetOrdering(S), FiniteSubsetsOf(S))
  BY FS_StrictSubsetOrderingWellFounded
<1>2. \A c \in S : Above(c) \in FiniteSubsetsOf(S)
  BY FS_Subset DEF FiniteSubsetsOf
<1>3. F \subseteq FiniteSubsetsOf(S) /\ F # {}
  BY <1>2
<1>4. \E A \in F : \A B \in F : <<B, A>> \notin StrictSubsetOrdering(S)
  BY <1>1, <1>3, WFMin
<1>5. PICK c \in S : \A d \in S : <<Above(d), Above(c)>> \notin StrictSubsetOrdering(S)
  BY <1>4
<1>6. ASSUME NEW d \in S, ~(d <= c) PROVE FALSE
  <2>1. \A x \in S : d < x => c < x
    BY <1>0, <1>6
  <2>2. c < d /\ ~(d < d)
    BY <1>0, <1>6
  <2>3. Above(d) \subseteq Above(c) /\ d \in Above(c) /\ d \notin Above(d)
    BY <2>1, <2>2
  <2>4. Above(d) \in SUBSET S /\ Above(c) \in SUBSET S /\ Above(d) # Above(c)
    BY <2>3
  <2>5. <<Above(d), Above(c)>> \notin StrictSubsetOrdering(S)
    BY <1>5
  <2>. HIDE DEF Above
  <2>. QED
    BY <2>3, <2>4, <2>5 DEF StrictSubsetOrdering
<1>. QED
  BY <1>6

-----------------------------------------------------------------------------
(* Buckets                                                                 *)

\* The first of some statuses is one of them.
LEMMA LowestIsOne ==
    ASSUME NEW S \in SUBSET Statuses, S # {}
    PROVE  Lowest(S) \in S
<1>1. S \subseteq Nat /\ IsFiniteSet(S)
  BY StatusesAssumption, FS_Subset
<1>2. \E n \in S : \A m \in S : n <= m
  BY <1>1, SmallestExists
<1>. QED
  BY <1>2 DEF Lowest

\* Where a card is found, and what it is.
LEMMA FoundCard ==
    ASSUME NEW data \in Data, NEW i \in Issues, Shows(data, i)
    PROVE  /\ Located(data, i) \in Statuses
           /\ \E c \in data[Located(data, i)].cards : c.id = i
           /\ Copy(data, i) \in Entity
<1>1. Located(data, i) \in Places(data, i)
  <2>1. Places(data, i) \in SUBSET Statuses /\ Places(data, i) # {}
    BY DEF Places, Shows
  <2>. QED
    BY <2>1, LowestIsOne DEF Located
<1>2. Located(data, i) \in Statuses /\ \E c \in data[Located(data, i)].cards : c.id = i
  BY <1>1 DEF Places
<1>3. PICK c \in data[Located(data, i)].cards :
        Copy(data, i) = [status |-> c.status, owner |-> c.owner]
  BY <1>2 DEF Copy
<1>4. c \in Card
  BY <1>2, <1>3 DEF Data, Bucket
<1>. QED
  BY <1>2, <1>3, <1>4 DEF Card, Entity

\* An entity as a card, and with a patch.
LEMMA Merging ==
    ASSUME NEW e \in Entity, NEW patch \in Patches, NEW i \in Issues
    PROVE  /\ Merged(e, patch) \in Entity /\ CardOf(i, e) \in Card
           /\ Entity \subseteq Patches
           /\ patch.status \in Statuses \cup {None} /\ patch.owner \in Owners \cup {None}
<1>1. patch.status \in Statuses \cup {None} /\ patch.owner \in Owners \cup {None}
  BY DEF Patches, Entity
<1>2. e.status \in Statuses /\ e.owner \in Owners
  BY DEF Entity
<1>. QED
  BY <1>1, <1>2 DEF Merged, CardOf, Entity, Card, Patches

\* A total stays a number.
LEMMA Counting == ASSUME NEW n \in Nat PROVE Less(n) \in Nat /\ n + 1 \in Nat
  BY DEF Less

\* A bucket of cards.
LEMMA Buckets ==
    ASSUME NEW data \in Data, NEW s \in Statuses
    PROVE  /\ data[s].cards \in SUBSET Card /\ data[s].total \in Nat
           /\ \A i : Without(data[s].cards, i) \in SUBSET Card
<1>1. data[s] \in Bucket
  BY DEF Data
<1>. QED
  BY <1>1 DEF Data, Bucket, Without

\* One bucket is replaced.
LEMMA OneBucket ==
    ASSUME NEW data \in Data, NEW s \in Statuses, NEW a \in SUBSET Card, NEW m \in Nat
    PROVE  [data EXCEPT ![s] = [cards |-> a, total |-> m]] \in Data
<1>1. [cards |-> a, total |-> m] \in Bucket
  BY DEF Bucket
<1>. QED
  BY <1>1 DEF Data

\* The functions on buckets give buckets.
LEMMA AddCardType ==
    ASSUME NEW data \in Data, NEW i \in Issues, NEW e \in Entity
    PROVE  AddCard(data, i, e) \in Data
<1>1. e.status \in Statuses /\ CardOf(i, e) \in Card
  BY DEF Entity, CardOf, Card
<1>2. data[e.status].cards \cup {CardOf(i, e)} \in SUBSET Card /\ data[e.status].total + 1 \in Nat
  BY <1>1, Buckets
<1>. QED
  BY <1>1, <1>2, OneBucket DEF AddCard

\* A removal.
LEMMA RemoveCardType ==
    ASSUME NEW data \in Data, NEW i \in Issues
    PROVE  RemoveCard(data, i) \in Data
<1>1. CASE ~Shows(data, i)
  BY <1>1 DEF RemoveCard
<1>2. CASE Shows(data, i)
  <2>1. PICK s \in Statuses : s = Located(data, i)
    BY <1>2, FoundCard
  <2>2. Less(data[s].total) \in Nat /\ Without(data[s].cards, i) \in SUBSET Card
    BY Buckets, Counting
  <2>3. PICK a \in SUBSET Card, n \in Nat :
            a = Without(data[s].cards, i) /\ n = Less(data[s].total)
    BY <2>2
  <2>4. RemoveCard(data, i) = [data EXCEPT ![s] = [cards |-> a, total |-> n]]
    BY <1>2, <2>1, <2>3 DEF RemoveCard
  <2>5. [data EXCEPT ![s] = [cards |-> a, total |-> n]] \in Data
    BY OneBucket
  <2>. QED
    BY <2>4, <2>5
<1>. QED
  BY <1>1, <1>2

\* Two buckets at once.
LEMMA TwoBuckets ==
    ASSUME NEW data \in Data, NEW s \in Statuses, NEW r \in Statuses,
           NEW a \in SUBSET Card, NEW b \in SUBSET Card, NEW m \in Nat, NEW n \in Nat
    PROVE  [data EXCEPT ![s] = [cards |-> a, total |-> m], ![r] = [cards |-> b, total |-> n]] \in Data
<1>1. [cards |-> a, total |-> m] \in Bucket /\ [cards |-> b, total |-> n] \in Bucket
  BY DEF Bucket
<1>. QED
  BY <1>1 DEF Data

\* A move of a total, and a loss.
LEMMA MoveTotalType ==
    ASSUME NEW data \in Data, NEW s \in Statuses, NEW r \in Statuses
    PROVE  MoveTotal(data, s, r) \in Data /\ DropTotal(data, s) \in Data
<1>1. /\ data[s].cards \in SUBSET Card /\ data[r].cards \in SUBSET Card
      /\ Less(data[s].total) \in Nat /\ data[r].total + 1 \in Nat
  BY Buckets, Counting
<1>. QED
  BY <1>1, OneBucket, TwoBuckets DEF MoveTotal, DropTotal

\* A patch of a card.
LEMMA PatchCardType ==
    ASSUME NEW data \in Data, NEW i \in Issues, NEW patch \in Patches
    PROVE  PatchCard(data, i, patch) \in Data
<1>1. CASE ~Shows(data, i)
  BY <1>1 DEF PatchCard
<1>2. CASE Shows(data, i)
  <2>1. PICK s \in Statuses, e \in Entity :
            s = Located(data, i) /\ e = Merged(Copy(data, i), patch)
    BY <1>2, FoundCard, Merging
  <2>2. PICK r \in Statuses : r = IF patch.status = None THEN s ELSE patch.status
    BY <2>1, Merging
  <2>3. CardOf(i, e) \in Card
    BY <2>1, Merging
  <2>4. /\ Without(data[s].cards, i) \in SUBSET Card
        /\ Without(data[s].cards, i) \cup {CardOf(i, e)} \in SUBSET Card
        /\ data[r].cards \cup {CardOf(i, e)} \in SUBSET Card
        /\ data[s].total \in Nat /\ Less(data[s].total) \in Nat /\ data[r].total + 1 \in Nat
    BY <2>3, Buckets, Counting
  <2>5. CASE r = s
    <3>1. PICK a \in SUBSET Card, n \in Nat :
              a = Without(data[s].cards, i) \cup {CardOf(i, e)} /\ n = data[s].total
      BY <2>4
    <3>2. PatchCard(data, i, patch) = [data EXCEPT ![s] = [cards |-> a, total |-> n]]
      BY <1>2, <2>1, <2>2, <2>5, <3>1 DEF PatchCard
    <3>3. [data EXCEPT ![s] = [cards |-> a, total |-> n]] \in Data
      BY OneBucket
    <3>. QED
      BY <3>2, <3>3
  <2>6. CASE r # s
    <3>1. PICK a \in SUBSET Card, n \in Nat, b \in SUBSET Card, k \in Nat :
              /\ a = Without(data[s].cards, i) /\ n = Less(data[s].total)
              /\ b = data[r].cards \cup {CardOf(i, e)} /\ k = data[r].total + 1
      BY <2>4
    <3>2. PatchCard(data, i, patch) = [data EXCEPT ![s] = [cards |-> a, total |-> n],
                                                   ![r] = [cards |-> b, total |-> k]]
      BY <1>2, <2>1, <2>2, <2>6, <3>1 DEF PatchCard
    <3>3. [data EXCEPT ![s] = [cards |-> a, total |-> n],
                       ![r] = [cards |-> b, total |-> k]] \in Data
      BY TwoBuckets
    <3>. QED
      BY <3>2, <3>3
  <2>. QED
    BY <2>5, <2>6
<1>. QED
  BY <1>1, <1>2

\* What the coordinator makes of a list.
LEMMA ChangeType ==
    ASSUME NEW l \in Lists, NEW data \in Data, NEW i \in Issues, NEW patch \in Patches,
           NEW changed, NEW base \in Entity \cup {None}
    PROVE  /\ Change(l, data, i, patch, changed, base).data \in Data
           /\ Change(l, data, i, patch, changed, base).written \in BOOLEAN
<1>1. CASE Shows(data, i)
  <2>1. RemoveCard(data, i) \in Data /\ PatchCard(data, i, patch) \in Data
    BY RemoveCardType, PatchCardType
  <2>. QED
    BY <1>1, <2>1 DEF Change, LoadedCard, Outcome
<1>2. CASE ~Shows(data, i)
  <2>1. PICK o : o = UnloadedCard(l, data, i, patch, changed, base)
    OBVIOUS
  <2>2. WasMember(l, base) = "yes" => base.status \in Statuses
    BY DEF WasMember, Entity
  <2>3. Moves(patch, changed, base) => patch.status \in Statuses
    BY NoneAssumption, Merging DEF Moves, Patches, Entity
  <2>4. \/ o = Outcome(data, FALSE, FALSE)
        \/ /\ WasMember(l, base) = "yes" /\ Moves(patch, changed, base)
           /\ o = Outcome(MoveTotal(data, base.status, patch.status), TRUE, TRUE)
        \/ WasMember(l, base) = "yes" /\ o = Outcome(DropTotal(data, base.status), TRUE, FALSE)
        \/ o = Outcome(data, FALSE, TRUE)
    <3>. DEFINE was == WasMember(l, base)
                is == IsMember(l, patch, base)
                touched == FilterTouched(l, changed)
                moved == Moves(patch, changed, base)
                drop == DropTotal(data, base.status)
                move == MoveTotal(data, base.status, patch.status)
    <3>1. o = IF ~touched /\ "status" \notin changed THEN Untouched(data)
              ELSE IF was = "no" /\ is = "no" THEN Untouched(data)
              ELSE IF was = "yes" /\ is = "yes"
                   THEN IF moved THEN Outcome(move, TRUE, TRUE) ELSE Untouched(data)
              ELSE IF was = "yes" /\ is = "no" THEN Outcome(drop, TRUE, FALSE)
              ELSE Outcome(data, FALSE, TRUE)
      BY <2>1, Zenon DEF UnloadedCard
    <3>. HIDE DEF was, is, touched, moved, drop, move
    <3>2. \/ o = Untouched(data)
          \/ was = "yes" /\ moved /\ o = Outcome(move, TRUE, TRUE)
          \/ was = "yes" /\ o = Outcome(drop, TRUE, FALSE)
          \/ o = Outcome(data, FALSE, TRUE)
      BY <3>1
    <3>. QED
      BY <3>2, Zenon DEF was, moved, drop, move, Untouched
  <2>5. /\ Outcome(data, FALSE, FALSE).data \in Data /\ Outcome(data, FALSE, TRUE).data \in Data
        /\ Outcome(data, FALSE, FALSE).written \in BOOLEAN
        /\ Outcome(data, FALSE, TRUE).written \in BOOLEAN
    BY DEF Outcome
  <2>6. ASSUME NEW x \in Data, NEW stale
        PROVE  Outcome(x, TRUE, stale).data \in Data /\ Outcome(x, TRUE, stale).written \in BOOLEAN
    BY DEF Outcome
  <2>7. /\ WasMember(l, base) = "yes" /\ Moves(patch, changed, base)
             => MoveTotal(data, base.status, patch.status) \in Data
        /\ WasMember(l, base) = "yes" => DropTotal(data, base.status) \in Data
    BY <2>2, <2>3, MoveTotalType
  <2>8. o.data \in Data /\ o.written \in BOOLEAN
    BY <2>4, <2>5, <2>6, <2>7, Zenon
  <2>. QED
    BY <1>2, <2>1, <2>8 DEF Change
<1>. QED
  BY <1>1, <1>2

-----------------------------------------------------------------------------
(* What the server answers                                                 *)

\* The state after some commits gives every issue an entity or none.
LEMMA StateType ==
    ASSUME log \in Seq(Entry), NEW n \in 0 .. Len(log)
    PROVE  StateAt(n) \in [Issues -> Entity \cup {None}]
<1>1. ASSUME NEW i \in Issues
      PROVE  (LET last == {k \in 1 .. n : log[k].id = i}
              IN  IF last = {} THEN Start[i]
                  ELSE log[CHOOSE k \in last : \A m \in last : m <= k].now)
                \in Entity \cup {None}
  <2>. DEFINE last == {k \in 1 .. n : log[k].id = i}
              newest == CHOOSE k \in last : \A m \in last : m <= k
  <2>1. CASE last = {}
    BY <2>1, StartAssumption
  <2>2. CASE last # {}
    <3>1. last \in SUBSET (1 .. n) /\ IsFiniteSet(1 .. n)
      BY FS_Interval
    <3>2. last \in SUBSET Nat /\ IsFiniteSet(last)
      BY <3>1, FS_Subset
    <3>3. \E k \in last : \A m \in last : m <= k
      BY <2>2, <3>2, LargestExists
    <3>4. newest \in last
      BY <3>3
    <3>5. newest \in 1 .. Len(log)
      BY <3>1, <3>4
    <3>6. log[newest] \in Entry
      BY <3>5
    <3>. QED
      BY <2>2, <3>6 DEF Entry
  <2>. QED
    BY <2>1, <2>2
<1>. QED
  BY <1>1 DEF StateAt

\* A page is a bucket.
LEMMA PageType ==
    ASSUME NEW state \in [Issues -> Entity \cup {None}], NEW l \in Lists, NEW s \in Statuses
    PROVE  Page(state, l, s, 0) \in Bucket
<1>. DEFINE members == Members(state, l, s)
            before(i) == Cardinality({j \in members : j < i})
            cards == {CardOf(i, state[i]) : i \in {j \in members :
                        0 <= before(j) /\ before(j) < 0 + PageSize}}
<1>1. members \in SUBSET Issues
  BY DEF Members
<1>2. Cardinality(members) \in Nat
  BY <1>1, IssuesAssumption, FS_Subset, FS_CardinalityType
<1>3. ASSUME NEW i \in members PROVE CardOf(i, state[i]) \in Card
  <2>1. i \in Issues /\ state[i] # None
    BY DEF Members
  <2>2. state[i] \in Entity
    BY <2>1
  <2>. QED
    BY <2>1, <2>2 DEF Entity, CardOf, Card
<1>4. cards \in SUBSET Card
  BY <1>3
<1>5. Page(state, l, s, 0) = [cards |-> cards, total |-> Cardinality(members)]
  BY DEF Page
<1>. HIDE DEF members, cards
<1>. QED
  BY <1>2, <1>4, <1>5 DEF Bucket

-----------------------------------------------------------------------------
(* The query library                                                       *)

\* The parts of a query.
LEMMA QueryParts ==
    ASSUME NEW q \in Query
    PROVE  /\ q.data \in Data \cup {None} /\ q.marked \in BOOLEAN /\ q.fetch \in Fetch \cup {None}
           /\ q.since \in Commits /\ q.own \in SUBSET Mutations /\ q.races \in SUBSET Races
  BY DEF Query

\* setQueryData keeps the shape.
LEMMA SetType ==
    ASSUME NEW q \in Query, NEW data \in Data \cup {None}, NEW races \in SUBSET Races
    PROVE  Set(q, data, races) \in Query
<1>1. PICK r \in SUBSET Races :
        r = q.races \cup races \cup (IF q.marked /\ q.fetch = None THEN {"unmarked"} ELSE {})
  <2>1. {"unmarked"} \subseteq Races
    BY DEF Races
  <2>. QED
    BY <2>1, QueryParts
<1>2. Set(q, data, races) = [q EXCEPT !.data = data, !.marked = FALSE, !.races = r]
  BY <1>1 DEF Set
<1>. QED
  BY <1>1, <1>2 DEF Query

\* No pages yet are a fetch.
LEMMA NoPagesType == NoPages \in Fetch
<1>1. 0 \in Commits
  BY BoundAssumption DEF Commits
<1>. QED
  BY <1>1 DEF NoPages, Fetch

\* invalidateQueries keeps the shape.
LEMMA InvalidatedType ==
    ASSUME NEW q \in Query, NEW l
    PROVE  Invalidated(q, l) \in Query
<1>1. PICK f \in Fetch \cup {None} :
        f = IF l = viewed /\ (q.data # None \/ q.fetch = None) THEN NoPages ELSE q.fetch
  BY QueryParts, NoPagesType
<1>2. Invalidated(q, l) = [q EXCEPT !.marked = TRUE, !.fetch = f]
  BY <1>1 DEF Invalidated
<1>. QED
  BY <1>1, <1>2 DEF Query

\* cancelQueries keeps the shape, and the data.
LEMMA CancelledType ==
    ASSUME NEW q \in Query
    PROVE  Cancelled(q) \in Query /\ Cancelled(q).data = q.data
<1>1. {"cancelled"} \subseteq Races
  BY DEF Races
<1>. QED
  BY <1>1, QueryParts DEF Cancelled, Query

\* A query with more of the user's changes, or fewer, and more races.
LEMMA HistoryType ==
    ASSUME NEW q \in Query, NEW own \in SUBSET Mutations, NEW races \in SUBSET Races
    PROVE  /\ [q EXCEPT !.own = own, !.races = @ \cup races] \in Query
           /\ [q EXCEPT !.own = own, !.races = @ \cup races].data = q.data
           /\ [q EXCEPT !.own = own] \in Query
<1>1. q.races \cup races \in SUBSET Races
  BY QueryParts
<1>. QED
  BY <1>1 DEF Query

\* A list without a deleted issue.
LEMMA PrunedType ==
    ASSUME NEW q \in Query, NEW l, NEW i \in Issues
    PROVE  Pruned(q, l, i) \in Query
<1>1. (IF q.data = None THEN q ELSE Set(q, RemoveCard(q.data, i), {})) \in Query
  <2>1. CASE q.data = None
    BY <2>1
  <2>2. CASE q.data # None
    <3>1. q.data \in Data
      BY <2>2, QueryParts
    <3>2. RemoveCard(q.data, i) \in Data
      BY <3>1, RemoveCardType
    <3>3. Set(q, RemoveCard(q.data, i), {}) \in Query
      BY <3>2, SetType
    <3>. QED
      BY <2>2, <3>3
  <2>. QED
    BY <2>1, <2>2
<1>. QED
  BY <1>1, InvalidatedType DEF Pruned

\* What onIssueUpdated finds is an entity, if anything.
LEMMA CachedIssueType ==
    ASSUME list \in [Lists -> Query], detail \in [Issues -> Entity \cup {None}], NEW i \in Issues
    PROVE  CachedIssue(i) \in Entity \cup {None}
<1>1. list[Board] \in Query
  BY DEF Lists
<1>2. CASE detail[i] = None /\ list[Board].data # None /\ Shows(list[Board].data, i)
  <2>1. list[Board].data \in Data
    BY <1>1, <1>2, QueryParts
  <2>2. Copy(list[Board].data, i) \in Entity
    BY <1>2, <2>1, FoundCard
  <2>. QED
    BY <1>2, <2>2 DEF CachedIssue
<1>. QED
  BY <1>2 DEF CachedIssue

\* A list after an event.
LEMMA UpdatedType ==
    ASSUME list \in [Lists -> Query], detail \in [Issues -> Entity \cup {None}],
           NEW q \in Query, NEW l \in Lists, NEW n, log[n].id \in Issues, log[n].now \in Entity
    PROVE  Updated(q, l, n) \in Query
<1>. DEFINE e == log[n]
            o == Change(l, q.data, e.id, e.now, ChangedFields(e.now, Before(n)), CachedIssue(e.id))
            races == IF Miscounted(q, n, o) THEN {"miscounted"} ELSE {}
            own == {m \in q.own : ~Concerns(m, e.id)}
            was == IF o.written THEN Set(q, o.data, races) ELSE q
            set == [was EXCEPT !.own = own, !.races = @ \cup races]
<1>1. CASE q.data = None
  BY <1>1 DEF Updated
<1>2. CASE q.data # None
  <2>1. q.data \in Data
    BY <1>2, QueryParts
  <2>2. e.now \in Patches
    BY DEF Patches
  <2>3. CachedIssue(e.id) \in Entity \cup {None}
    BY CachedIssueType
  <2>4. o.data \in Data
    <3>. HIDE DEF e
    <3>1. e.id \in Issues
      BY DEF e
    <3>. QED
      BY <2>1, <2>2, <2>3, <3>1, ChangeType
  <2>5. races \in SUBSET Races
    BY DEF Races
  <2>6. own \in SUBSET Mutations
    BY QueryParts
  <2>7. was \in Query
    <3>. HIDE DEF o, races
    <3>. QED
      BY <2>4, <2>5, SetType
  <2>8. set \in Query
    <3>. HIDE DEF was, own, races
    <3>. QED
      BY <2>5, <2>6, <2>7, HistoryType
  <2>9. Updated(q, l, n) = IF o.stale THEN Invalidated(set, l) ELSE set
    BY <1>2, Zenon DEF Updated
  <2>. HIDE DEF set, o
  <2>. QED
    BY <2>8, <2>9, InvalidatedType
<1>. QED
  BY <1>1, <1>2

\* A list put back.
LEMMA RestoredType ==
    ASSUME NEW q \in Query, NEW m \in Mutations, NEW l \in Lists, mutation \in [Mutations -> Call]
    PROVE  Restored(q, m, l) \in Query
<1>. DEFINE c == mutation[m]
            disturbed == \/ q.data # c.wrote[l].data \/ q.since # c.wrote[l].since
                         \/ q.own # c.wrote[l].own
                         \/ \E k \in c.at + 1 .. Len(log) : ~Pending(k)
            races == IF disturbed THEN {"rolled back"} ELSE {}
            set == Set(q, c.saved[l].data, races)
<1>1. CASE c.saved[l] = None
  BY <1>1 DEF Restored
<1>2. CASE c.saved[l] # None
  <2>1. c.saved \in [Lists -> Query \cup {None}]
    BY DEF Call
  <2>2. c.saved[l] \in Query
    BY <1>2, <2>1
  <2>3. c.saved[l].data \in Data \cup {None}
    BY <2>2, QueryParts
  <2>4. races \in SUBSET Races
    BY DEF Races
  <2>5. set \in Query
    <3>. HIDE DEF races
    <3>. QED
      BY <2>3, <2>4, SetType
  <2>6. set.own \ {m} \in SUBSET Mutations
    BY <2>5, QueryParts
  <2>7. Restored(q, m, l) = [set EXCEPT !.own = @ \ {m}]
    BY <1>2, Zenon DEF Restored
  <2>. HIDE DEF set
  <2>8. Restored(q, m, l) = [set EXCEPT !.own = set.own \ {m}]
    BY <2>7
  <2>. QED
    BY <2>5, <2>6, <2>8, HistoryType
<1>. QED
  BY <1>1, <1>2

-----------------------------------------------------------------------------
(* What the actions share                                                  *)

\* A step that leaves the server and the connection alone.
LEMMA QuietNetwork ==
    ASSUME SocketInv, ServerInv, UNCHANGED <<socketVars, log>>
    PROVE  SocketInv' /\ ServerInv'
  BY DEF SocketInv, ServerInv, FramesInv, socketVars

\* The queue is no longer than the log.
LEMMA FramesFit ==
    ASSUME SocketInv, ServerInv
    PROVE  Len(log) - Len(frames) \in Commits
<1>1. Len(log) \in Nat /\ Len(log) <= MaxCommits /\ MaxCommits \in Nat /\ Len(frames) \in Nat
  BY BoundAssumption DEF ServerInv, SocketInv
<1>2. Len(frames) <= Len(log)
  <2>1. CASE Len(frames) = 0
    BY <1>1, <2>1
  <2>2. CASE Len(frames) # 0
    <3>1. Len(frames) \in 1 .. Len(frames)
      BY <1>1, <2>2
    <3>2. Len(frames) <= frames[Len(frames)]
      BY <3>1 DEF SocketInv, FramesInv
    <3>3. frames[Len(frames)] \in 1 .. Len(log)
      BY <3>1 DEF SocketInv
    <3>. QED
      BY <1>1, <3>2, <3>3
  <2>. QED
    BY <2>1, <2>2
<1>. QED
  BY <1>1, <1>2 DEF Commits

\* The server's state, and the length of its log.
LEMMA NowType ==
    ASSUME ServerInv
    PROVE  Now \in [Issues -> Entity \cup {None}] /\ Len(log) \in Commits
<1>1. log \in Seq(Entry) /\ Len(log) \in 0 .. Len(log)
  BY DEF ServerInv
<1>2. Len(log) \in Commits
  BY BoundAssumption DEF ServerInv, Commits
<1>. QED
  BY <1>1, <1>2, StateType DEF Now

\* A move is counted.
LEMMA MoveCounted == ASSUME MovesInv, Move PROVE MovesInv'
  BY BoundAssumption DEF MovesInv, Move

\* One list is replaced.
LEMMA OneList ==
    ASSUME ClientInv, NEW l \in Lists, NEW q \in Query, list' = [list EXCEPT ![l] = q],
           UNCHANGED <<detail, asking>>, viewed' \in Lists \cup {None}
    PROVE  ClientInv'
  BY DEF ClientInv

\* One call changes.
LEMMA OneCall ==
    ASSUME CallsInv, NEW m \in Mutations, NEW c \in Call, CallShape(c),
           mutation' = [mutation EXCEPT ![m] = c]
    PROVE  CallsInv'
<1>1. mutation' \in [Mutations -> Call]
  BY DEF CallsInv
<1>2. \A n \in Mutations : mutation'[n] = IF n = m THEN c ELSE mutation[n]
  BY DEF CallsInv
<1>3. \A n \in Mutations : CallShape(mutation'[n])
  BY <1>2, Zenon DEF CallsInv
<1>. QED
  BY <1>1, <1>3 DEF CallsInv, CallShape

\* No call has changed.
LEMMA SameCalls == ASSUME CallsInv, UNCHANGED mutation PROVE CallsInv'
  BY DEF CallsInv, CallShape

\* A commit, its event, and the lists that miss it.
LEMMA CommitType ==
    ASSUME TypeInv, NEW i \in Issues, NEW now \in Entity \cup {None},
           NEW by \in Mutations \cup {None}, Commit(i, now, by)
    PROVE  SocketInv' /\ ServerInv' /\ ClientInv'
<1>. DEFINE e == [id |-> i, now |-> now, by |-> by]
<1>1. e \in Entry
  BY DEF Entry
<1>2. log \in Seq(Entry) /\ Len(log) \in Nat /\ Len(log) < MaxCommits /\ log' = Append(log, e)
  BY DEF Commit, TypeInv, ServerInv
<1>3. log' \in Seq(Entry) /\ Len(log') = Len(log) + 1
  <2>. HIDE DEF e
  <2>. QED
    BY <1>1, <1>2
<1>4. ServerInv'
  BY <1>2, <1>3, BoundAssumption DEF ServerInv
<1>5. SocketInv'
  <2>1. socket \in Socket /\ frames \in Seq(1 .. Len(log)) /\ FramesInv /\ UNCHANGED socket
    BY DEF TypeInv, SocketInv, Commit
  <2>2. frames \in Seq(1 .. Len(log'))
    <3>1. 1 .. Len(log) \subseteq 1 .. Len(log')
      BY <1>2, <1>3
    <3>. QED
      BY <2>1, <3>1, SeqMonotonic
  <2>3. CASE frames' = frames
    BY <2>1, <2>2, <2>3 DEF SocketInv, FramesInv
  <2>4. CASE frames' = Append(frames, Len(log) + 1)
    <3>1. Len(log) + 1 \in 1 .. Len(log')
      BY <1>2, <1>3
    <3>2. frames' \in Seq(1 .. Len(log')) /\ Len(frames') = Len(frames) + 1
      BY <2>2, <2>4, <3>1
    <3>3. Len(frames) <= Len(log)
      <4>1. Len(log) - Len(frames) \in Nat /\ Len(frames) \in Nat
        BY FramesFit, <2>1, BoundAssumption DEF TypeInv, Commits
      <4>. QED
        BY <1>2, <4>1
    <3>4. ASSUME NEW k \in 1 .. Len(frames') PROVE k <= frames'[k]
      <4>1. CASE k \in 1 .. Len(frames)
        BY <2>1, <2>4, <4>1 DEF FramesInv
      <4>2. CASE k = Len(frames) + 1
        BY <1>2, <2>1, <2>4, <3>3, <4>2
      <4>. QED
        BY <2>1, <3>2, <4>1, <4>2
    <3>. QED
      BY <2>1, <3>2, <3>4 DEF SocketInv, FramesInv
  <2>. QED
    BY <2>3, <2>4 DEF Commit, Publish
<1>6. ClientInv'
  <2>. DEFINE f == [l \in Lists |->
                      IF Unrecovered /\ list[l].data # None
                      THEN [list[l] EXCEPT !.races = @ \cup {"gap"}] ELSE list[l]]
  <2>1. ASSUME NEW l \in Lists PROVE f[l] \in Query
    <3>1. list[l] \in Query
      BY DEF TypeInv, ClientInv
    <3>2. list[l].races \cup {"gap"} \in SUBSET Races
      BY <3>1, QueryParts DEF Races
    <3>3. [list[l] EXCEPT !.races = @ \cup {"gap"}] \in Query
      BY <3>1, <3>2 DEF Query
    <3>. QED
      BY <3>1, <3>3
  <2>2. list' = f /\ UNCHANGED <<viewed, detail, asking>>
    BY DEF Commit
  <2>3. list' \in [Lists -> Query]
    BY <2>1, <2>2
  <2>. QED
    BY <2>2, <2>3 DEF TypeInv, ClientInv
<1>. QED
  BY <1>4, <1>5, <1>6

\* The oldest frame is about a commit of the log, and the others stay.
LEMMA FrameHandled ==
    ASSUME TypeInv, HandleFrame
    PROVE  /\ SocketInv' /\ ServerInv' /\ CallsInv' /\ MovesInv' /\ UNCHANGED viewed
           /\ Head(frames) \in 1 .. Len(log) /\ log[Head(frames)] \in Entry
<1>1. /\ frames \in Seq(1 .. Len(log)) /\ frames # <<>> /\ frames' = Tail(frames) /\ FramesInv
      /\ log \in Seq(Entry) /\ UNCHANGED <<socket, log, viewed, mutation, moves>>
  BY DEF TypeInv, SocketInv, ServerInv, HandleFrame
<1>2. Head(frames) \in 1 .. Len(log)
  BY <1>1
<1>3. frames' \in Seq(1 .. Len(log)) /\ Len(frames') = Len(frames) - 1
  BY <1>1
<1>4. ASSUME NEW k \in 1 .. Len(frames') PROVE k <= frames'[k]
  <2>1. k + 1 \in 1 .. Len(frames) /\ frames'[k] = frames[k + 1]
    BY <1>1, <1>3
  <2>2. k + 1 <= frames[k + 1] /\ frames[k + 1] \in Nat
    BY <1>1, <2>1 DEF FramesInv
  <2>. QED
    BY <2>1, <2>2
<1>5. SocketInv' /\ ServerInv'
  BY <1>1, <1>3, <1>4 DEF TypeInv, SocketInv, ServerInv, FramesInv
<1>6. CallsInv' /\ MovesInv'
  BY <1>1, SameCalls DEF TypeInv, MovesInv
<1>. QED
  BY <1>1, <1>2, <1>5, <1>6

-----------------------------------------------------------------------------
(* The connection                                                          *)

\* All lists are to be loaded again.
LEMMA AllInvalidatedType ==
    ASSUME ClientInv
    PROVE  AllInvalidated \in [Lists -> Query]
<1>1. ASSUME NEW l \in Lists PROVE Invalidated(list[l], l) \in Query
  <2>1. list[l] \in Query
    BY DEF ClientInv
  <2>. QED
    BY <2>1, InvalidatedType
<1>. QED
  BY <1>1 DEF AllInvalidated

\* A step of the connection other than the client's own answers to it.
LEMMA SocketSteps ==
    ASSUME TypeInv,
           Opens \/ ServerRegisters \/ Closes \/ ReconnectTimer \/ Disconnects \/ NewInstance,
           UNCHANGED log
    PROVE  SocketInv' /\ ServerInv'
<1>1. socket \in Socket /\ frames \in Seq(1 .. Len(log)) /\ FramesInv
  BY DEF TypeInv, SocketInv
<1>2. socket' \in Socket
  BY <1>1 DEF Opens, ServerRegisters, Closes, ReconnectTimer, Disconnects, NewInstance,
              Authenticated, Socket, Phases
<1>3. frames' = frames \/ frames' = <<>>
  BY DEF Opens, ServerRegisters, Closes, ReconnectTimer, Disconnects, NewInstance
<1>4. frames' \in Seq(1 .. Len(log)) /\ FramesInv'
  <2>1. CASE frames' = frames
    BY <1>1, <2>1 DEF FramesInv
  <2>2. CASE frames' = <<>>
    <3>1. <<>> \in Seq(1 .. Len(log)) /\ Len(<<>>) = 0 /\ 1 .. 0 = {}
      BY EmptySeq
    <3>. QED
      BY <2>2, <3>1 DEF FramesInv
  <2>. QED
    BY <1>3, <2>1, <2>2
<1>. QED
  BY <1>2, <1>4 DEF TypeInv, SocketInv, ServerInv

\* Every step of the connection keeps the types.
LEMMA ConnectionStep == ASSUME TypeInv, Connection PROVE TypeInv'
<1>1. CASE IsUp
  <2>1. SocketInv' /\ ServerInv'
    BY <1>1, SocketSteps DEF IsUp
  <2>2. list' \in [Lists -> Query]
    BY <1>1, AllInvalidatedType DEF IsUp, TypeInv, ClientInv
  <2>3. ClientInv' /\ MovesInv' /\ CallsInv'
    BY <1>1, <2>2, SameCalls DEF IsUp, TypeInv, ClientInv, MovesInv
  <2>. QED
    BY <2>1, <2>3 DEF TypeInv
<1>2. CASE Registers \/ Retries
  <2>1. SocketInv' /\ ServerInv'
    BY <1>2, SocketSteps DEF Registers, Retries, Quietly
  <2>2. ClientInv' /\ MovesInv' /\ CallsInv'
    BY <1>2, SameCalls DEF Registers, Retries, Quietly, TypeInv, ClientInv, MovesInv, client
  <2>. QED
    BY <2>1, <2>2 DEF TypeInv
<1>3. CASE Drops
  <2>1. SocketInv' /\ ServerInv'
    BY <1>3, SocketSteps DEF Drops
  <2>2. ClientInv' /\ CallsInv'
    BY <1>3, SameCalls DEF Drops, TypeInv, ClientInv, client
  <2>3. MovesInv'
    BY <1>3, MoveCounted DEF Drops, TypeInv
  <2>. QED
    BY <2>1, <2>2, <2>3 DEF TypeInv
<1>4. CASE Leaves
  <2>1. SocketInv' /\ ServerInv'
    BY <1>4, SocketSteps DEF Leaves
  <2>2. ClientInv' /\ CallsInv'
    BY <1>4, SameCalls DEF Leaves, TypeInv, ClientInv
  <2>3. MovesInv'
    BY <1>4, MoveCounted DEF Leaves, TypeInv
  <2>. QED
    BY <2>1, <2>2, <2>3 DEF TypeInv
<1>5. CASE Returns
  <2>1. SocketInv' /\ ServerInv'
    BY <1>5, SocketSteps DEF Returns
  <2>2. list' \in [Lists -> Query]
    BY <1>5, AllInvalidatedType DEF Returns, TypeInv, ClientInv
  <2>3. ClientInv' /\ MovesInv' /\ CallsInv'
    BY <1>5, <2>2, SameCalls DEF Returns, TypeInv, ClientInv, MovesInv
  <2>. QED
    BY <2>1, <2>3 DEF TypeInv
<1>. QED
  BY <1>1, <1>2, <1>3, <1>4, <1>5 DEF Connection

-----------------------------------------------------------------------------
(* Loads                                                                   *)

\* A list is opened.
LEMMA ViewStep == ASSUME TypeInv, NEW l \in Lists, View(l) PROVE TypeInv'
<1>1. list[l] \in Query
  BY DEF TypeInv, ClientInv
<1>2. PICK f \in Fetch \cup {None} :
        f = IF list[l].fetch = None /\ (list[l].data = None \/ list[l].marked)
            THEN NoPages ELSE list[l].fetch
  BY <1>1, QueryParts, NoPagesType
<1>3. PICK q \in Query : q = [list[l] EXCEPT !.fetch = f]
  BY <1>1, <1>2 DEF Query
<1>4. list' = [list EXCEPT ![l] = q] /\ viewed' = l /\ UNCHANGED <<detail, asking>>
  BY <1>2, <1>3 DEF View
<1>5. ClientInv'
  BY <1>3, <1>4, OneList DEF TypeInv
<1>. QED
  BY <1>5, QuietNetwork, SameCalls, MoveCounted DEF View, TypeInv

\* The server reads a page of a load.
LEMMA ReadPageStep ==
    ASSUME TypeInv, NEW l \in Lists, NEW s \in Statuses, ReadPage(l, s) PROVE TypeInv'
<1>1. list[l] \in Query /\ list[l].fetch # None
  BY DEF TypeInv, ClientInv, ReadPage
<1>2. list[l].fetch \in Fetch
  BY <1>1, QueryParts
<1>3. PICK b \in Bucket : b = Page(Now, l, s, 0)
  BY NowType, PageType DEF TypeInv
<1>4. PICK n \in Commits : n = IF list[l].fetch = NoPages THEN Len(log) ELSE list[l].fetch.first
  BY <1>2, NowType DEF TypeInv, Fetch
<1>5. PICK f \in Fetch : f = [pages |-> [list[l].fetch.pages EXCEPT ![s] = b],
                              first |-> n, last |-> Len(log)]
  BY <1>2, <1>3, <1>4, NowType DEF TypeInv, Fetch
<1>6. PICK q \in Query : q = [list[l] EXCEPT !.fetch = f]
  BY <1>1, <1>5 DEF Query
<1>7. /\ list' = [list EXCEPT ![l] = q]
      /\ UNCHANGED <<socketVars, log, viewed, detail, asking, mutation, moves>>
  BY <1>3, <1>4, <1>5, <1>6 DEF ReadPage
<1>8. ClientInv'
  BY <1>6, <1>7, OneList DEF TypeInv, ClientInv
<1>. QED
  BY <1>7, <1>8, QuietNetwork, SameCalls DEF TypeInv, MovesInv

\* A load is complete.
LEMMA LoadedStep == ASSUME TypeInv, NEW l \in Lists, Loaded(l) PROVE TypeInv'
<1>1. list[l] \in Query /\ list[l].fetch # None
  BY DEF TypeInv, ClientInv, Loaded
<1>2. list[l].fetch \in Fetch
  BY <1>1, QueryParts
<1>3. list[l].fetch.pages \in Data
  <2>1. list[l].fetch.pages \in [Statuses -> Bucket \cup {None}]
    BY <1>2 DEF Fetch
  <2>2. \A s \in Statuses : list[l].fetch.pages[s] # None
    BY DEF Loaded
  <2>. QED
    BY <2>1, <2>2 DEF Data
<1>4. list[l].fetch.first \in Commits
  BY <1>2 DEF Fetch
<1>5. LoadRaces(list[l].fetch) \in SUBSET Races
  BY DEF LoadRaces, Races
<1>6. PICK q \in Query :
        q = [data |-> list[l].fetch.pages, marked |-> FALSE, fetch |-> None,
             since |-> list[l].fetch.first, own |-> {}, races |-> LoadRaces(list[l].fetch)]
  BY <1>3, <1>4, <1>5 DEF Query
<1>7. /\ list' = [list EXCEPT ![l] = q]
      /\ UNCHANGED <<socketVars, log, viewed, detail, asking, mutation, moves>>
  BY <1>6 DEF Loaded
<1>8. ClientInv'
  BY <1>6, <1>7, OneList DEF TypeInv, ClientInv
<1>. QED
  BY <1>7, <1>8, QuietNetwork, SameCalls DEF TypeInv, MovesInv

\* A load fails.
LEMMA LoadFailsStep == ASSUME TypeInv, NEW l \in Lists, LoadFails(l) PROVE TypeInv'
<1>1. list[l] \in Query
  BY DEF TypeInv, ClientInv
<1>2. PICK q \in Query : q = [list[l] EXCEPT !.fetch = None, !.marked = TRUE]
  BY <1>1 DEF Query
<1>3. /\ list' = [list EXCEPT ![l] = q]
      /\ UNCHANGED <<socketVars, log, viewed, detail, asking, mutation>>
  BY <1>2 DEF LoadFails
<1>4. ClientInv'
  BY <1>2, <1>3, OneList DEF TypeInv, ClientInv
<1>. QED
  BY <1>3, <1>4, QuietNetwork, SameCalls, MoveCounted DEF TypeInv, LoadFails

\* A detail is asked for, or arrives.
LEMMA DetailSteps ==
    ASSUME TypeInv, NEW i \in Issues, AskDetail(i) \/ DetailArrives(i) PROVE TypeInv'
<1>1. Now[i] \in Entity \cup {None}
  BY NowType DEF TypeInv
<1>2. ClientInv'
  BY <1>1 DEF TypeInv, ClientInv, AskDetail, DetailArrives
<1>3. MovesInv'
  BY MoveCounted DEF TypeInv, AskDetail, DetailArrives, MovesInv
<1>. QED
  BY <1>2, <1>3, QuietNetwork, SameCalls DEF TypeInv, AskDetail, DetailArrives

\* Every step of a load keeps the types.
LEMMA LoadsStep == ASSUME TypeInv, Loads PROVE TypeInv'
  BY ViewStep, ReadPageStep, LoadedStep, LoadFailsStep, DetailSteps DEF Loads

-----------------------------------------------------------------------------
(* Commits of others and events                                            *)

\* A commit of somebody else keeps the types.
LEMMA OthersStep == ASSUME TypeInv, Others PROVE TypeInv'
<1>1. PICK i \in Issues, now \in Entity \cup {None} :
        Move /\ Commit(i, now, None) /\ UNCHANGED mutation
  <2>1. PICK i \in Issues : \/ \E e \in Drafts : OthersCreate(i, e)
                            \/ \E p \in OneField : OthersUpdate(i, p)
                            \/ OthersDelete(i)
    BY DEF Others
  <2>2. CASE \E e \in Drafts : OthersCreate(i, e)
    BY <2>2, StartAssumption DEF OthersCreate
  <2>3. CASE \E p \in OneField : OthersUpdate(i, p)
    <3>1. PICK p \in Patches : OthersUpdate(i, p)
      BY <2>3 DEF OneField
    <3>2. Now[i] \in Entity
      BY <3>1, NowType DEF TypeInv, OthersUpdate
    <3>3. Merged(Now[i], p) \in Entity
      BY <3>2, Merging
    <3>. QED
      BY <3>1, <3>3 DEF OthersUpdate
  <2>4. CASE OthersDelete(i)
    BY <2>4 DEF OthersDelete
  <2>. QED
    BY <2>1, <2>2, <2>3, <2>4
<1>2. SocketInv' /\ ServerInv' /\ ClientInv'
  BY <1>1, CommitType
<1>. QED
  BY <1>1, <1>2, SameCalls, MoveCounted DEF TypeInv

\* An event about a new issue.
LEMMA IssueCreatedStep == ASSUME TypeInv, IssueCreated PROVE TypeInv'
<1>1. HandleFrame
  BY DEF IssueCreated
<1>2. /\ SocketInv' /\ ServerInv' /\ CallsInv' /\ MovesInv' /\ UNCHANGED viewed
      /\ log[Head(frames)] \in Entry
  BY <1>1, FrameHandled
<1>3. PICK e \in Entry : e = log[Head(frames)]
  BY <1>2
<1>4. e.now \in Entity /\ e.id \in Issues /\ UNCHANGED <<detail, asking>>
  BY <1>3 DEF IssueCreated, Entry
<1>5. ASSUME NEW l \in Lists PROVE list'[l] \in Query
  <2>1. list[l] \in Query
    BY DEF TypeInv, ClientInv
  <2>2. Invalidated(list[l], l) \in Query
    BY <2>1, InvalidatedType
  <2>3. list[l].data # None => AddCard(list[l].data, e.id, e.now) \in Data
    BY <1>4, <2>1, QueryParts, AddCardType
  <2>4. list[l].data # None =>
          \A r \in SUBSET Races : Set(list[l], AddCard(list[l].data, e.id, e.now), r) \in Query
    BY <2>1, <2>3, SetType
  <2>5. {"twice"} \in SUBSET Races /\ {} \in SUBSET Races
    BY DEF Races
  <2>. QED
    BY <1>3, <2>1, <2>2, <2>4, <2>5 DEF IssueCreated
<1>6. list' \in [Lists -> Query]
  <2>1. PICK f : list' = [l \in Lists |-> f[l]]
    BY DEF IssueCreated
  <2>. QED
    BY <1>5, <2>1
<1>7. ClientInv'
  BY <1>2, <1>4, <1>6 DEF TypeInv, ClientInv
<1>. QED
  BY <1>2, <1>7 DEF TypeInv

\* An event about a change.
LEMMA IssueUpdatedStep == ASSUME TypeInv, IssueUpdated PROVE TypeInv'
<1>1. HandleFrame
  BY DEF IssueUpdated
<1>2. /\ SocketInv' /\ ServerInv' /\ CallsInv' /\ MovesInv' /\ UNCHANGED viewed
      /\ log[Head(frames)] \in Entry
  BY <1>1, FrameHandled
<1>3. PICK n : n = Head(frames)
  OBVIOUS
<1>4. log[n].now \in Entity /\ log[n].id \in Issues /\ UNCHANGED asking
  BY <1>2, <1>3 DEF IssueUpdated, Entry
<1>5. list \in [Lists -> Query] /\ detail \in [Issues -> Entity \cup {None}]
  BY DEF TypeInv, ClientInv
<1>6. ASSUME NEW l \in Lists PROVE Updated(list[l], l, n) \in Query
  BY <1>4, <1>5, UpdatedType
<1>7. /\ list' = [l \in Lists |-> Updated(list[l], l, n)]
      /\ detail' = [detail EXCEPT ![log[n].id] = IF @ = None THEN None ELSE log[n].now]
  BY <1>3 DEF IssueUpdated
<1>8. list' \in [Lists -> Query] /\ detail' \in [Issues -> Entity \cup {None}]
  BY <1>4, <1>5, <1>6, <1>7
<1>9. ClientInv'
  BY <1>2, <1>4, <1>8 DEF TypeInv, ClientInv
<1>. QED
  BY <1>2, <1>9 DEF TypeInv

\* An issue is taken out of the caches.
LEMMA PrunedLists ==
    ASSUME ClientInv, NEW i \in Issues, list' = [l \in Lists |-> Pruned(list[l], l, i)],
           Forget(i), UNCHANGED viewed
    PROVE  ClientInv'
<1>1. ASSUME NEW l \in Lists PROVE Pruned(list[l], l, i) \in Query
  <2>1. list[l] \in Query
    BY DEF ClientInv
  <2>. QED
    BY <2>1, PrunedType
<1>2. list' \in [Lists -> Query]
  BY <1>1
<1>. QED
  BY <1>2 DEF ClientInv, Forget

\* An event about a deletion.
LEMMA IssueDeletedStep == ASSUME TypeInv, IssueDeleted PROVE TypeInv'
<1>1. HandleFrame
  BY DEF IssueDeleted
<1>2. /\ SocketInv' /\ ServerInv' /\ CallsInv' /\ MovesInv' /\ UNCHANGED viewed
      /\ log[Head(frames)] \in Entry
  BY <1>1, FrameHandled
<1>3. PICK i \in Issues : i = log[Head(frames)].id
  BY <1>2 DEF Entry
<1>4. list' = [l \in Lists |-> Pruned(list[l], l, i)] /\ Forget(i)
  BY <1>3 DEF IssueDeleted
<1>5. ClientInv'
  BY <1>2, <1>3, <1>4, PrunedLists DEF TypeInv
<1>. QED
  BY <1>2, <1>5 DEF TypeInv

-----------------------------------------------------------------------------
(* The user's calls                                                        *)

\* A call that nobody has made.
LEMMA NoCallType == NoCall \in Call
<1>1. 0 \in Commits
  BY BoundAssumption DEF Commits
<1>2. [l \in Lists |-> None] \in [Lists -> Query \cup {None}]
  OBVIOUS
<1>. QED
  BY <1>1, <1>2 DEF NoCall, Call

\* The context of a change.
LEMMA UpdateContextType ==
    ASSUME NEW i \in Issues, NEW patch \in Patches,
           NEW saved \in [Lists -> Query \cup {None}], NEW wrote \in [Lists -> Query \cup {None}],
           NEW stale \in SUBSET Lists, NEW base \in Entity \cup {None}, NEW at \in Commits
    PROVE  [NoCall EXCEPT !.kind = "update", !.id = i, !.patch = patch, !.saved = saved,
                          !.wrote = wrote, !.stale = stale, !.detail = base, !.at = at] \in Call
<1>1. NoCall \in Call
  BY NoCallType
<1>. QED
  BY <1>1 DEF Call

\* And of a deletion.
LEMMA DeleteContextType ==
    ASSUME NEW i \in Issues, NEW saved \in [Lists -> Query \cup {None}],
           NEW wrote \in [Lists -> Query \cup {None}],
           NEW base \in Entity \cup {None}, NEW at \in Commits
    PROVE  [NoCall EXCEPT !.kind = "delete", !.id = i, !.saved = saved,
                          !.wrote = wrote, !.detail = base, !.at = at] \in Call
<1>1. NoCall \in Call
  BY NoCallType
<1>. QED
  BY <1>1 DEF Call

\* A call begins.
LEMMA CallBegins ==
    ASSUME TypeInv, NEW m \in Mutations, NEW c \in Call, CallShape(c), Begin(m, c)
    PROVE  SocketInv' /\ ServerInv' /\ CallsInv' /\ MovesInv' /\ UNCHANGED viewed
<1>1. CallsInv'
  BY OneCall DEF TypeInv, Begin
<1>2. MovesInv'
  BY MoveCounted DEF TypeInv, Begin
<1>. QED
  BY <1>1, <1>2, QuietNetwork DEF TypeInv, Begin

\* useUpdateIssue begins.
LEMMA StartUpdateStep ==
    ASSUME TypeInv, NEW m \in Mutations, NEW i \in Issues, NEW patch \in Patches,
           StartUpdate(m, i, patch)
    PROVE  TypeInv'
<1>. DEFINE base == detail[i]
            outcome == [l \in Lists |->
                IF list[l].data = None THEN Untouched(None)
                ELSE Change(l, list[l].data, i, patch, ChangedFields(patch, base), base)]
            misjudged(l) ==
                /\ list[l].data # None /\ ~Shows(list[l].data, i) /\ ~outcome[l].stale
                /\ \/ base # Now[i]
                   \/ \E k \in 1 .. Len(log) : log[k].id = i /\ Pending(k)
                   \/ outcome[l].written /\ \E k \in list[l].own : Concerns(k, i)
            races(l) == IF misjudged(l) THEN {"miscounted"} ELSE {}
            query(l) == [Cancelled(list[l]) EXCEPT !.own = @ \cup {m}, !.races = @ \cup races(l)]
            now == [l \in Lists |->
                IF outcome[l].written THEN Set(query(l), outcome[l].data, {}) ELSE query(l)]
            call == [NoCall EXCEPT
                !.kind = "update", !.id = i, !.patch = patch,
                !.saved = [l \in Lists |-> IF outcome[l].written THEN list[l] ELSE None],
                !.wrote = [l \in Lists |-> IF outcome[l].written THEN now[l] ELSE None],
                !.stale = {l \in Lists : outcome[l].stale},
                !.detail = base, !.at = Len(log) - Len(frames)]
<1>1. /\ list \in [Lists -> Query] /\ base \in Entity \cup {None}
      /\ detail \in [Issues -> Entity \cup {None}] /\ asking \in [Issues -> Entity \cup {None}]
  BY DEF TypeInv, ClientInv
<1>2. ASSUME NEW l \in Lists PROVE outcome[l].data \in Data \cup {None}
  <2>1. CASE list[l].data = None
    BY <2>1 DEF Untouched, Outcome
  <2>2. CASE list[l].data # None
    <3>1. list[l].data \in Data
      BY <1>1, <2>2, QueryParts
    <3>2. outcome[l] = Change(l, list[l].data, i, patch, ChangedFields(patch, base), base)
      BY <2>2
    <3>. HIDE DEF outcome, base
    <3>. QED
      BY <1>1, <3>1, <3>2, ChangeType
  <2>. QED
    BY <2>1, <2>2
<1>3. ASSUME NEW l \in Lists PROVE query(l) \in Query
  <2>1. Cancelled(list[l]) \in Query
    BY <1>1, CancelledType
  <2>2. Cancelled(list[l]).own \cup {m} \in SUBSET Mutations
    BY <2>1, QueryParts
  <2>3. races(l) \in SUBSET Races
    BY DEF Races
  <2>. HIDE DEF races
  <2>4. query(l) = [Cancelled(list[l]) EXCEPT !.own = Cancelled(list[l]).own \cup {m},
                                              !.races = @ \cup races(l)]
    OBVIOUS
  <2>. QED
    BY <2>1, <2>2, <2>3, <2>4, HistoryType
<1>4. ASSUME NEW l \in Lists PROVE now[l] \in Query
  <2>. HIDE DEF outcome, query
  <2>1. Set(query(l), outcome[l].data, {}) \in Query
    BY <1>2, <1>3, SetType
  <2>. QED
    BY <1>3, <2>1
<1>5. call \in Call /\ CallShape(call)
  <2>. HIDE DEF outcome, now, base
  <2>1. PICK saved \in [Lists -> Query \cup {None}] :
            saved = [l \in Lists |-> IF outcome[l].written THEN list[l] ELSE None]
    BY <1>1
  <2>2. PICK wrote \in [Lists -> Query \cup {None}] :
            wrote = [l \in Lists |-> IF outcome[l].written THEN now[l] ELSE None]
    BY <1>4
  <2>3. PICK stale \in SUBSET Lists : stale = {l \in Lists : outcome[l].stale}
    OBVIOUS
  <2>4. PICK at \in Commits : at = Len(log) - Len(frames)
    BY FramesFit DEF TypeInv
  <2>5. call = [NoCall EXCEPT !.kind = "update", !.id = i, !.patch = patch, !.saved = saved,
                              !.wrote = wrote, !.stale = stale, !.detail = base, !.at = at]
    BY <2>1, <2>2, <2>3, <2>4
  <2>6. call \in Call
    BY <1>1, <2>1, <2>2, <2>3, <2>4, <2>5, UpdateContextType
  <2>7. call.kind = "update" /\ call.status = "sent" /\ call.id = i /\ call.patch = patch
    BY DEF NoCall
  <2>. HIDE DEF call
  <2>. QED
    BY <2>6, <2>7 DEF CallShape
<1>6. /\ Begin(m, call) /\ list' = now /\ UNCHANGED asking
      /\ detail' = [detail EXCEPT ![i] = IF @ = None THEN None ELSE Merged(@, patch)]
  BY Zenon DEF StartUpdate
<1>7. SocketInv' /\ ServerInv' /\ CallsInv' /\ MovesInv' /\ UNCHANGED viewed
  <2>. HIDE DEF call
  <2>. QED
    BY <1>5, <1>6, CallBegins
<1>8. detail' \in [Issues -> Entity \cup {None}]
  <2>1. detail[i] # None => Merged(detail[i], patch) \in Entity
    BY <1>1, Merging
  <2>. QED
    BY <1>1, <1>6, <2>1
<1>9. list' \in [Lists -> Query]
  <2>1. now = [l \in Lists |-> now[l]]
    OBVIOUS
  <2>. HIDE DEF now
  <2>. QED
    BY <1>4, <1>6, <2>1
<1>10. ClientInv'
  BY <1>1, <1>6, <1>7, <1>8, <1>9 DEF TypeInv, ClientInv
<1>. QED
  BY <1>7, <1>10 DEF TypeInv

\* useCreateIssue begins.
LEMMA StartCreateStep ==
    ASSUME TypeInv, NEW m \in Mutations, NEW e \in Drafts, StartCreate(m, e)
    PROVE  TypeInv'
<1>1. PICK c : c = [NoCall EXCEPT !.kind = "create", !.answer = e]
  OBVIOUS
<1>2. e \in Entity
  BY StartAssumption
<1>3. c \in Call
  BY <1>1, <1>2, NoCallType DEF Call
<1>4. c.kind = "create" /\ c.status = "sent" /\ c.answer = e
  BY <1>1 DEF NoCall
<1>5. CallShape(c)
  BY <1>2, <1>4 DEF CallShape
<1>6. Begin(m, c) /\ UNCHANGED <<list, detail, asking>>
  BY <1>1 DEF StartCreate
<1>7. SocketInv' /\ ServerInv' /\ CallsInv' /\ MovesInv' /\ UNCHANGED viewed
  BY <1>3, <1>5, <1>6, CallBegins
<1>. QED
  BY <1>6, <1>7 DEF TypeInv, ClientInv

\* useDeleteIssue begins.
LEMMA StartDeleteStep ==
    ASSUME TypeInv, NEW m \in Mutations, NEW i \in Issues, StartDelete(m, i)
    PROVE  TypeInv'
<1>. DEFINE taken(l) == [Cancelled(list[l]) EXCEPT !.own = @ \cup {m}]
            set(l) == Set(taken(l), RemoveCard(taken(l).data, i), {})
            now == [l \in Lists |-> IF taken(l).data = None THEN taken(l) ELSE set(l)]
            kept(f) == [l \in Lists |-> IF list[l].data = None THEN None ELSE f[l]]
            call == [NoCall EXCEPT !.kind = "delete", !.id = i, !.saved = kept(list),
                                   !.wrote = kept(now), !.detail = detail[i],
                                   !.at = Len(log) - Len(frames)]
<1>1. /\ list \in [Lists -> Query]
      /\ detail \in [Issues -> Entity \cup {None}] /\ asking \in [Issues -> Entity \cup {None}]
  BY DEF TypeInv, ClientInv
<1>2. ASSUME NEW l \in Lists PROVE now[l] \in Query
  <2>1. taken(l) \in Query
    <3>1. Cancelled(list[l]) \in Query
      BY <1>1, CancelledType
    <3>2. Cancelled(list[l]).own \cup {m} \in SUBSET Mutations
      BY <3>1, QueryParts
    <3>. QED
      BY <3>1, <3>2, HistoryType
  <2>2. CASE taken(l).data # None
    <3>1. taken(l).data \in Data
      BY <2>1, <2>2, QueryParts
    <3>2. RemoveCard(taken(l).data, i) \in Data
      BY <3>1, RemoveCardType
    <3>3. set(l) \in Query
      <4>. HIDE DEF taken
      <4>. QED
        BY <2>1, <3>2, SetType
    <3>. HIDE DEF set, taken
    <3>. QED
      BY <2>2, <3>3
  <2>. HIDE DEF set, taken
  <2>. QED
    BY <2>1, <2>2
<1>3. now = [l \in Lists |-> now[l]]
  OBVIOUS
<1>4. /\ Begin(m, call) /\ list' = now /\ Forget(i)
  BY Zenon DEF StartDelete
<1>. HIDE DEF now
<1>5. call \in Call /\ CallShape(call)
  <2>1. PICK saved \in [Lists -> Query \cup {None}] : saved = kept(list)
    BY <1>1
  <2>2. PICK wrote \in [Lists -> Query \cup {None}] : wrote = kept(now)
    BY <1>2
  <2>3. PICK at \in Commits : at = Len(log) - Len(frames)
    BY FramesFit DEF TypeInv
  <2>4. PICK base \in Entity \cup {None} : base = detail[i]
    BY <1>1
  <2>5. call = [NoCall EXCEPT !.kind = "delete", !.id = i, !.saved = saved, !.wrote = wrote,
                              !.detail = base, !.at = at]
    <3>. HIDE DEF kept
    <3>. QED
      BY <2>1, <2>2, <2>3, <2>4
  <2>7. call \in Call
    <3>. HIDE DEF call
    <3>. QED
      BY <2>1, <2>2, <2>3, <2>4, <2>5, DeleteContextType
  <2>8. call.kind = "delete" /\ call.status = "sent" /\ call.id = i
    BY DEF NoCall
  <2>. HIDE DEF call
  <2>. QED
    BY <2>7, <2>8 DEF CallShape
<1>6. SocketInv' /\ ServerInv' /\ CallsInv' /\ MovesInv' /\ UNCHANGED viewed
  <2>. HIDE DEF call
  <2>. QED
    BY <1>4, <1>5, CallBegins
<1>7. list' \in [Lists -> Query]
  BY <1>2, <1>3, <1>4
<1>8. ClientInv'
  BY <1>1, <1>4, <1>6, <1>7 DEF TypeInv, ClientInv, Forget
<1>. QED
  BY <1>6, <1>8 DEF TypeInv

\* The server does the work of a call.
LEMMA CallDone ==
    ASSUME TypeInv, NEW m \in Mutations, NEW i \in Issues, NEW now \in Entity \cup {None},
           Commit(i, now, m), Done(m, i, now),
           mutation[m].kind \in {"update", "create"} => now \in Entity
    PROVE  TypeInv'
<1>1. SocketInv' /\ ServerInv' /\ ClientInv'
  BY CommitType
<1>2. mutation[m] \in Call /\ CallShape(mutation[m])
  BY DEF TypeInv, CallsInv
<1>3. PICK c \in Call : c = [mutation[m] EXCEPT !.status = "done", !.id = i, !.answer = now]
  BY <1>2 DEF Call
<1>4. /\ c.kind = mutation[m].kind /\ c.patch = mutation[m].patch
      /\ c.id = i /\ c.answer = now
  BY <1>2, <1>3 DEF Call
<1>5. CallShape(c)
  BY <1>2, <1>4 DEF CallShape
<1>6. mutation' = [mutation EXCEPT ![m] = c] /\ UNCHANGED moves
  BY <1>3 DEF Done
<1>7. CallsInv'
  BY <1>3, <1>5, <1>6, OneCall DEF TypeInv
<1>. QED
  BY <1>1, <1>6, <1>7 DEF TypeInv, MovesInv

\* The server does the work of useUpdateIssue, useCreateIssue or useDeleteIssue.
LEMMA ServerSteps ==
    ASSUME TypeInv, NEW m \in Mutations,
           \/ ServerUpdates(m) \/ ServerDeletes(m) \/ \E i \in Issues : ServerCreates(m, i)
    PROVE  TypeInv'
<1>1. CallShape(mutation[m])
  BY DEF TypeInv, CallsInv
<1>2. Now \in [Issues -> Entity \cup {None}]
  BY NowType DEF TypeInv
<1>3. CASE ServerUpdates(m)
  <2>1. mutation[m].id \in Issues /\ mutation[m].patch \in Patches /\ mutation[m].kind = "update"
    BY <1>1, <1>3 DEF ServerUpdates, Sent, CallShape
  <2>2. Now[mutation[m].id] \in Entity
    BY <1>2, <1>3, <2>1 DEF ServerUpdates
  <2>3. PICK now \in Entity : now = Merged(Now[mutation[m].id], mutation[m].patch)
    BY <2>1, <2>2, Merging
  <2>4. Commit(mutation[m].id, now, m) /\ Done(m, mutation[m].id, now)
    BY <1>3, <2>3 DEF ServerUpdates
  <2>. QED
    BY <2>1, <2>3, <2>4, CallDone
<1>4. CASE ServerDeletes(m)
  <2>1. mutation[m].id \in Issues /\ mutation[m].kind = "delete"
    BY <1>1, <1>4 DEF ServerDeletes, Sent, CallShape
  <2>2. Commit(mutation[m].id, None, m) /\ Done(m, mutation[m].id, None)
    BY <1>4 DEF ServerDeletes
  <2>. QED
    BY <2>1, <2>2, CallDone
<1>5. ASSUME NEW i \in Issues, ServerCreates(m, i) PROVE TypeInv'
  <2>1. mutation[m].answer \in Entity
    BY <1>1, <1>5 DEF ServerCreates, Sent, CallShape
  <2>2. PICK now \in Entity : now = mutation[m].answer
    BY <2>1
  <2>3. Commit(i, now, m) /\ Done(m, i, now)
    BY <1>5, <2>2 DEF ServerCreates
  <2>. QED
    BY <2>2, <2>3, CallDone
<1>. QED
  BY <1>3, <1>4, <1>5

\* The work is refused, or the answer is lost.
LEMMA RefusedSteps ==
    ASSUME TypeInv, NEW m \in Mutations, ServerRefuses(m) \/ RequestFails(m)
    PROVE  TypeInv'
<1>1. mutation[m] \in Call /\ CallShape(mutation[m])
  BY DEF TypeInv, CallsInv
<1>2. PICK c \in Call : c = [mutation[m] EXCEPT !.status = "refused"]
  BY <1>1 DEF Call
<1>3. /\ c.kind = mutation[m].kind /\ c.patch = mutation[m].patch /\ c.status = "refused"
      /\ c.id = mutation[m].id /\ c.answer = mutation[m].answer
  BY <1>1, <1>2 DEF Call
<1>4. CallShape(c)
  BY <1>1, <1>3 DEF CallShape
<1>5. mutation' = [mutation EXCEPT ![m] = c] /\ UNCHANGED <<socketVars, log, client>>
  BY <1>2 DEF ServerRefuses, RequestFails, Refused
<1>6. CallsInv'
  BY <1>2, <1>4, <1>5, OneCall DEF TypeInv
<1>7. MovesInv'
  BY MoveCounted DEF TypeInv, MovesInv, ServerRefuses, RequestFails
<1>8. ClientInv'
  BY <1>5 DEF TypeInv, ClientInv, client
<1>. QED
  BY <1>5, <1>6, <1>7, <1>8, QuietNetwork DEF TypeInv

\* A call that settles is over.
LEMMA CallSettles ==
    ASSUME TypeInv, NEW m \in Mutations, NEW kind, NEW status, Settle(m, kind, status)
    PROVE  /\ SocketInv' /\ ServerInv' /\ CallsInv' /\ MovesInv' /\ UNCHANGED viewed
           /\ mutation[m].kind = kind /\ mutation[m].status = status
           /\ mutation[m] \in Call /\ CallShape(mutation[m])
<1>1. PICK c \in Call : c = Over
  BY NoCallType DEF Over, Call
<1>2. c.kind = "over"
  BY <1>1 DEF Over, NoCall
<1>3. CallShape(c)
  BY <1>2 DEF CallShape
<1>4. CallsInv'
  BY <1>1, <1>3, OneCall DEF TypeInv, Settle
<1>. QED
  BY <1>4, QuietNetwork DEF TypeInv, CallsInv, MovesInv, Settle

\* The server's answer to useUpdateIssue.
LEMMA UpdateSucceedsStep ==
    ASSUME TypeInv, NEW m \in Mutations, UpdateSucceeds(m)
    PROVE  TypeInv'
<1>. DEFINE c == mutation[m]
            changed == {f \in Given(c.patch) : c.answer[f] # c.patch[f]}
            late == IF Late(c.id, m) THEN {"late answer"} ELSE {}
            o(q, l) == Change(l, q.data, c.id, c.answer, changed, c.answer)
            set(q, l) == IF o(q, l).written THEN Set(q, o(q, l).data, late) ELSE q
            reconciled(q, l) ==
                IF q.data = None THEN q
                ELSE IF o(q, l).stale THEN Invalidated(set(q, l), l) ELSE set(q, l)
            now == [l \in Lists |->
                IF l \in c.stale THEN Invalidated(reconciled(list[l], l), l)
                ELSE reconciled(list[l], l)]
<1>1. /\ SocketInv' /\ ServerInv' /\ CallsInv' /\ MovesInv' /\ UNCHANGED viewed
      /\ c.kind = "update" /\ c.status = "done" /\ CallShape(c)
  BY CallSettles DEF UpdateSucceeds
<1>2. c.id \in Issues /\ c.answer \in Entity
  <2>. HIDE DEF c
  <2>. QED
    BY <1>1 DEF CallShape
<1>3. /\ list \in [Lists -> Query]
      /\ detail \in [Issues -> Entity \cup {None}] /\ asking \in [Issues -> Entity \cup {None}]
  BY DEF TypeInv, ClientInv
<1>4. /\ list' = now /\ UNCHANGED asking
      /\ detail' = [detail EXCEPT ![c.id] = IF @ = None THEN None ELSE c.answer]
  BY Zenon DEF UpdateSucceeds
<1>5. late \in SUBSET Races
  BY DEF Races
<1>6. ASSUME NEW l \in Lists, NEW q \in Query PROVE reconciled(q, l) \in Query
  <2>1. CASE q.data = None
    BY <2>1
  <2>2. CASE q.data # None
    <3>1. q.data \in Data /\ c.answer \in Patches /\ c.answer \in Entity \cup {None}
      BY <1>2, <2>2, QueryParts DEF Patches
    <3>2. o(q, l).data \in Data
      <4>. HIDE DEF c, changed
      <4>. QED
        BY <1>2, <3>1, ChangeType
    <3>3. set(q, l) \in Query
      <4>. HIDE DEF o, late
      <4>. QED
        BY <1>5, <3>2, SetType
    <3>4. Invalidated(set(q, l), l) \in Query
      <4>. HIDE DEF set
      <4>. QED
        BY <3>3, InvalidatedType
    <3>. HIDE DEF set, o
    <3>. QED
      BY <3>3, <3>4
  <2>. QED
    BY <2>1, <2>2
<1>7. ASSUME NEW l \in Lists PROVE now[l] \in Query
  <2>. HIDE DEF reconciled, c
  <2>1. reconciled(list[l], l) \in Query
    BY <1>3, <1>6
  <2>2. Invalidated(reconciled(list[l], l), l) \in Query
    BY <2>1, InvalidatedType
  <2>. QED
    BY <2>1, <2>2
<1>8. now = [l \in Lists |-> now[l]]
  OBVIOUS
<1>. HIDE DEF now, c
<1>9. list' \in [Lists -> Query] /\ detail' \in [Issues -> Entity \cup {None}]
  BY <1>2, <1>3, <1>4, <1>7, <1>8
<1>10. ClientInv'
  BY <1>1, <1>3, <1>4, <1>9 DEF TypeInv, ClientInv
<1>. QED
  BY <1>1, <1>10 DEF TypeInv

\* The lists and the detail of a call that failed, some of them loaded again.
LEMMA RollBack ==
    ASSUME TypeInv, NEW m \in Mutations, NEW stale, UNCHANGED <<viewed, asking>>,
           mutation[m].id \in Issues,
           list' = [l \in Lists |->
               IF l \in stale THEN Invalidated(Restored(list[l], m, l), l)
               ELSE Restored(list[l], m, l)],
           detail' = [detail EXCEPT ![mutation[m].id] =
               IF mutation[m].detail = None THEN @ ELSE mutation[m].detail]
    PROVE  ClientInv'
<1>1. /\ list \in [Lists -> Query] /\ detail \in [Issues -> Entity \cup {None}]
      /\ mutation \in [Mutations -> Call]
  BY DEF TypeInv, ClientInv, CallsInv
<1>2. ASSUME NEW l \in Lists
      PROVE  /\ Restored(list[l], m, l) \in Query
             /\ Invalidated(Restored(list[l], m, l), l) \in Query
  <2>1. Restored(list[l], m, l) \in Query
    BY <1>1, RestoredType
  <2>. QED
    BY <2>1, InvalidatedType
<1>3. list' \in [Lists -> Query]
  BY <1>2
<1>4. mutation[m].detail \in Entity \cup {None}
  BY <1>1 DEF Call
<1>5. detail' \in [Issues -> Entity \cup {None}]
  BY <1>1, <1>4
<1>. QED
  BY <1>3, <1>5 DEF TypeInv, ClientInv

\* A change or a deletion that failed is undone.
LEMMA FailsSteps ==
    ASSUME TypeInv, NEW m \in Mutations, UpdateFails(m) \/ DeleteFails(m)
    PROVE  TypeInv'
<1>1. PICK kind \in {"update", "delete"}, stale \in SUBSET Lists :
        /\ Settle(m, kind, "refused") /\ UNCHANGED asking
        /\ list' = [l \in Lists |->
               IF l \in stale THEN Invalidated(Restored(list[l], m, l), l)
               ELSE Restored(list[l], m, l)]
        /\ detail' = [detail EXCEPT ![mutation[m].id] =
               IF mutation[m].detail = None THEN @ ELSE mutation[m].detail]
  <2>1. CASE UpdateFails(m)
    <3>1. mutation[m].stale \in SUBSET Lists
      BY DEF TypeInv, CallsInv, Call
    <3>. QED
      BY <2>1, <3>1, Zenon DEF UpdateFails
  <2>2. CASE DeleteFails(m)
    <3>1. {Board} \in SUBSET Lists /\ \A l : l = Board <=> l \in {Board}
      BY DEF Lists
    <3>. QED
      BY <2>2, <3>1 DEF DeleteFails
  <2>. QED
    BY <2>1, <2>2
<1>2. /\ SocketInv' /\ ServerInv' /\ CallsInv' /\ MovesInv' /\ UNCHANGED viewed
      /\ mutation[m].kind = kind /\ CallShape(mutation[m])
  BY <1>1, CallSettles
<1>3. mutation[m].id \in Issues
  BY <1>1, <1>2 DEF CallShape
<1>4. ClientInv'
  BY <1>1, <1>2, <1>3, RollBack
<1>. QED
  BY <1>2, <1>4 DEF TypeInv

\* useCreateIssue settles.
LEMMA CreateSettlesStep ==
    ASSUME TypeInv, NEW m \in Mutations, CreateSettles(m)
    PROVE  TypeInv'
<1>. DEFINE c == mutation[m]
            q == list[Board]
            added == IF c.status = "done" /\ q.data # None
                     THEN Set(q, AddCard(q.data, c.id, c.answer), {}) ELSE q
<1>1. /\ SocketInv' /\ ServerInv' /\ CallsInv' /\ MovesInv' /\ UNCHANGED viewed
      /\ c.kind = "create" /\ CallShape(c)
  BY CallSettles DEF CreateSettles
<1>2. q \in Query /\ Board \in Lists
  BY DEF TypeInv, ClientInv, Lists
<1>3. added \in Query
  <2>1. CASE c.status = "done" /\ q.data # None
    <3>. HIDE DEF c, q
    <3>1. c.id \in Issues /\ c.answer \in Entity /\ q.data \in Data
      BY <1>1, <1>2, <2>1, QueryParts DEF CallShape
    <3>2. AddCard(q.data, c.id, c.answer) \in Data
      BY <3>1, AddCardType
    <3>3. Set(q, AddCard(q.data, c.id, c.answer), {}) \in Query
      BY <1>2, <3>2, SetType
    <3>. QED
      BY <2>1, <3>3
  <2>2. CASE ~(c.status = "done" /\ q.data # None)
    BY <1>2, <2>2
  <2>. QED
    BY <2>1, <2>2
<1>4. list' = [list EXCEPT ![Board] = Invalidated(added, Board)] /\ UNCHANGED <<detail, asking>>
  BY Zenon DEF CreateSettles
<1>5. ClientInv'
  <2>. HIDE DEF added
  <2>1. Invalidated(added, Board) \in Query
    BY <1>3, InvalidatedType
  <2>. QED
    BY <1>1, <1>2, <1>4, <2>1, OneList DEF TypeInv, ClientInv
<1>. QED
  BY <1>1, <1>5 DEF TypeInv

\* A deletion that succeeded.
LEMMA DeleteSucceedsStep ==
    ASSUME TypeInv, NEW m \in Mutations, DeleteSucceeds(m)
    PROVE  TypeInv'
<1>1. /\ SocketInv' /\ ServerInv' /\ CallsInv' /\ MovesInv' /\ UNCHANGED viewed
      /\ mutation[m].kind = "delete" /\ CallShape(mutation[m])
  BY CallSettles DEF DeleteSucceeds
<1>2. PICK i \in Issues : i = mutation[m].id
  BY <1>1 DEF CallShape
<1>3. list' = [l \in Lists |-> Pruned(list[l], l, i)] /\ Forget(i)
  BY <1>2 DEF DeleteSucceeds
<1>4. ClientInv'
  BY <1>1, <1>2, <1>3, PrunedLists DEF TypeInv
<1>. QED
  BY <1>1, <1>4 DEF TypeInv

\* Every step of a call keeps the types.
LEMMA CallsStep == ASSUME TypeInv, Calls PROVE TypeInv'
<1>1. PICK m \in Mutations :
        \/ \E i \in Issues : \/ \E p \in OneField : StartUpdate(m, i, p)
                             \/ StartDelete(m, i)
                             \/ ServerCreates(m, i)
        \/ \E e \in Drafts : StartCreate(m, e)
        \/ ServerUpdates(m) \/ ServerDeletes(m) \/ ServerRefuses(m) \/ RequestFails(m)
        \/ UpdateSucceeds(m) \/ UpdateFails(m) \/ CreateSettles(m)
        \/ DeleteSucceeds(m) \/ DeleteFails(m)
  BY DEF Calls
<1>2. OneField \subseteq Patches
  BY DEF OneField
<1>. QED
  BY <1>1, <1>2, StartUpdateStep, StartDeleteStep, StartCreateStep, ServerSteps, RefusedSteps,
     UpdateSucceedsStep, FailsSteps, CreateSettlesStep, DeleteSucceedsStep

-----------------------------------------------------------------------------
(* Type correctness                                                        *)

\* The start has the types.
LEMMA TypeInit == ASSUME Init PROVE TypeInv
<1>1. SocketInv
  <2>1. <<>> \in Seq(1 .. Len(<<>>)) /\ Len(<<>>) = 0 /\ 1 .. 0 = {}
    BY EmptySeq
  <2>. QED
    BY <2>1 DEF Init, SocketInit, SocketInv, Socket, Phases, FramesInv
<1>2. ServerInv
  <2>1. <<>> \in Seq(Entry) /\ Len(<<>>) = 0
    BY EmptySeq
  <2>. QED
    BY <2>1, BoundAssumption DEF Init, ServerInv
<1>3. ClientInv
  <2>1. Unloaded \in Query
    BY BoundAssumption DEF Unloaded, Query, Commits
  <2>. QED
    BY <2>1 DEF Init, ClientInv
<1>4. CallsInv
  <2>1. NoCall \in Call /\ CallShape(NoCall)
    BY NoCallType DEF CallShape, NoCall
  <2>. QED
    BY <2>1 DEF Init, CallsInv
<1>5. MovesInv
  BY BoundAssumption DEF Init, MovesInv
<1>. QED
  BY <1>1, <1>2, <1>3, <1>4, <1>5 DEF TypeInv

\* Every step keeps them.
LEMMA TypeStep == ASSUME TypeInv, [Next]_vars PROVE TypeInv'
<1>1. CASE Next
  <2>1. CASE Connection
    BY <2>1, ConnectionStep
  <2>2. CASE Events
    BY <2>2, IssueCreatedStep, IssueUpdatedStep, IssueDeletedStep DEF Events
  <2>3. CASE Loads
    BY <2>3, LoadsStep
  <2>4. CASE Others
    BY <2>4, OthersStep
  <2>5. CASE Calls
    BY <2>5, CallsStep
  <2>. QED
    BY <1>1, <2>1, <2>2, <2>3, <2>4, <2>5 DEF Next
<1>2. CASE UNCHANGED vars
  BY <1>2, QuietNetwork, SameCalls DEF vars, client, TypeInv, ClientInv, MovesInv
<1>. QED
  BY <1>1, <1>2

\* The cache, its queries and the contexts of the calls in flight keep their shapes in every
\* order of events, answers and loads, for any number of lists and of overlapping calls: no
\* total goes below zero, and no frame names a commit that was not made.
THEOREM TypeCorrect == Spec => []TypeOK
<1>1. Init => TypeInv
  BY TypeInit
<1>2. TypeInv /\ [Next]_vars => TypeInv'
  BY TypeStep
<1>3. TypeInv => TypeOK
  BY DEF TypeInv, SocketInv, ServerInv, ClientInv, CallsInv, MovesInv, TypeOK
<1>. QED
  BY <1>1, <1>2, <1>3, PTL DEF Spec

-----------------------------------------------------------------------------
(* The server's history                                                    *)

\* How many commits a client has heard of, or will never hear of.
Handled == Len(log) - Len(frames)

\* The later of a load and the events since.
Later(n) == IF n < Handled THEN Handled ELSE n

\* The log of a later state has the same commits and maybe more.
Grows ==
    /\ Len(log) <= Len(log')
    /\ \A k \in 1 .. Len(log) : log'[k] = log[k]

\* A state is what the last commit about each issue says.
LEMMA LastSays ==
    ASSUME log \in Seq(Entry), NEW n \in 0 .. Len(log), NEW i \in Issues
    PROVE  /\ (\A k \in 1 .. n : log[k].id # i) => StateAt(n)[i] = Start[i]
           /\ \A k \in 1 .. n :
                log[k].id = i /\ (\A j \in k + 1 .. n : log[j].id # i) => StateAt(n)[i] = log[k].now
<1>. DEFINE last == {k \in 1 .. n : log[k].id = i}
            newest == CHOOSE k \in last : \A m \in last : m <= k
<1>1. StateAt(n)[i] = IF last = {} THEN Start[i] ELSE log[newest].now
  BY DEF StateAt
<1>2. ASSUME \A k \in 1 .. n : log[k].id # i PROVE StateAt(n)[i] = Start[i]
  BY <1>1, <1>2
<1>3. ASSUME NEW k \in 1 .. n, log[k].id = i, \A j \in k + 1 .. n : log[j].id # i
      PROVE  StateAt(n)[i] = log[k].now
  <2>1. k \in last /\ last \subseteq 1 .. n
    BY <1>3
  <2>2. \A m \in last : m <= k
    BY <1>3
  <2>3. newest \in last /\ \A m \in last : m <= newest
    BY <2>1, <2>2
  <2>4. newest = k
    <3>. HIDE DEF newest, last
    <3>1. newest <= k /\ k <= newest /\ newest \in 1 .. n
      BY <2>1, <2>2, <2>3
    <3>. QED
      BY <3>1
  <2>. QED
    BY <1>1, <2>1, <2>4
<1>. QED
  BY <1>2, <1>3

\* A commit is the last one about an issue between two.
Last(k, b, n, i) == k \in b .. n /\ log[k].id = i /\ \A j \in k + 1 .. n : log[j].id # i

\* If there is a commit about an issue, there is a last one.
LEMMA LastCommit ==
    ASSUME log \in Seq(Entry), NEW n \in 0 .. Len(log), NEW i \in Issues,
           NEW b \in Nat \ {0}, NEW some \in b .. n, log[some].id = i
    PROVE  \E k : Last(k, b, n, i)
<1>. DEFINE last == {k \in b .. n : log[k].id = i}
<1>1. last # {} /\ last \subseteq 1 .. n /\ last \in SUBSET Nat
  OBVIOUS
<1>2. IsFiniteSet(last)
  <2>1. IsFiniteSet(1 .. n)
    BY FS_Interval
  <2>. QED
    BY <1>1, <2>1, FS_Subset
<1>3. PICK k \in last : \A d \in last : d <= k
  BY <1>1, <1>2, LargestExists
<1>. QED
  BY <1>3 DEF Last

\* Without a commit about it an issue stays what it is.
LEMMA StateSame ==
    ASSUME log \in Seq(Entry), NEW b \in 0 .. Len(log), NEW a \in 0 .. b, NEW i \in Issues,
           \A k \in a + 1 .. b : log[k].id # i
    PROVE  StateAt(a)[i] = StateAt(b)[i]
<1>1. a \in 0 .. Len(log)
  OBVIOUS
<1>2. CASE \A k \in 1 .. a : log[k].id # i
  <2>1. \A k \in 1 .. b : log[k].id # i
    BY <1>2
  <2>. QED
    BY <1>1, <1>2, <2>1, LastSays
<1>3. ASSUME NEW some \in 1 .. a, log[some].id = i PROVE StateAt(a)[i] = StateAt(b)[i]
  <2>4. PICK k : Last(k, 1, a, i)
    BY <1>1, <1>3, LastCommit
  <2>1. k \in 1 .. a /\ log[k].id = i /\ \A j \in k + 1 .. a : log[j].id # i
    BY <2>4 DEF Last
  <2>2. \A j \in k + 1 .. b : log[j].id # i
    BY <2>1
  <2>3. k \in 1 .. a /\ k \in 1 .. b
    BY <2>1
  <2>. QED
    BY <1>1, <2>1, <2>2, <2>3, LastSays
<1>. QED
  BY <1>2, <1>3

\* A commit says what its issue is from then on.
LEMMA StateNew ==
    ASSUME log \in Seq(Entry), NEW n \in 1 .. Len(log)
    PROVE  StateAt(n)[log[n].id] = log[n].now
<1>1. PICK i \in Issues : i = log[n].id
  <2>1. log[n] \in Entry
    OBVIOUS
  <2>. QED
    BY <2>1 DEF Entry
<1>2. n \in 0 .. Len(log) /\ n \in 1 .. n /\ n + 1 .. n = {}
  OBVIOUS
<1>3. \A j \in n + 1 .. n : log[j].id # i
  BY <1>2
<1>. QED
  BY <1>1, <1>2, <1>3, LastSays

\* What was is not changed by what comes.
LEMMA StateStays ==
    ASSUME log \in Seq(Entry), Grows, log' \in Seq(Entry),
           NEW n \in 0 .. Len(log), NEW i \in Issues
    PROVE  StateAt(n)'[i] = StateAt(n)[i]
<1>1. \A k \in 1 .. n : log'[k] = log[k]
  BY DEF Grows
<1>2. StateAt(n)[i] = LET last == {k \in 1 .. n : log[k].id = i}
                      IN  IF last = {} THEN Start[i]
                          ELSE log[CHOOSE k \in last : \A m \in last : m <= k].now
  BY DEF StateAt
<1>3. StateAt(n)'[i] = LET last == {k \in 1 .. n : log'[k].id = i}
                       IN  IF last = {} THEN Start[i]
                           ELSE log'[CHOOSE k \in last : \A m \in last : m <= k].now
  BY DEF StateAt
<1>. DEFINE last == {k \in 1 .. n : log[k].id = i}
            newest == CHOOSE k \in last : \A m \in last : m <= k
<1>4. {k \in 1 .. n : log'[k].id = i} = last
  BY <1>1
<1>5. CASE last = {}
  BY <1>2, <1>3, <1>4, <1>5
<1>6. CASE last # {}
  <2>1. PICK some \in 1 .. n : log[some].id = i
    BY <1>6
  <2>3. PICK k : Last(k, 1, n, i)
    BY <2>1, LastCommit
  <2>2. k \in last /\ \A m \in last : m <= k
    BY <2>3 DEF Last
  <2>6. newest \in last
    BY <2>2
  <2>4. newest \in 1 .. n
    BY <2>6
  <2>5. StateAt(n)[i] = log[newest].now /\ StateAt(n)'[i] = log'[newest].now
    BY <1>2, <1>3, <1>4, <1>6
  <2>. QED
    BY <1>1, <2>4, <2>5
<1>. QED
  BY <1>5, <1>6

\* What was is not changed by what comes, for all issues.
LEMMA PastStays ==
    ASSUME log \in Seq(Entry), Grows, log' \in Seq(Entry), NEW n \in 0 .. Len(log)
    PROVE  StateAt(n)' = StateAt(n)
<1>1. StateAt(n) = [i \in Issues |-> StateAt(n)[i]]
  BY DEF StateAt
<1>2. StateAt(n)' = [i \in Issues |-> StateAt(n)'[i]]
  BY DEF StateAt
<1>3. \A i \in Issues : StateAt(n)'[i] = StateAt(n)[i]
  BY StateStays
<1>. QED
  BY <1>1, <1>2, <1>3

-----------------------------------------------------------------------------
(* What is always so: the wire, the log, the calls, the loads              *)

\* The frames are the newest commits, in their order.
FramesExact == \A k \in 1 .. Len(frames) : frames[k] = Handled + k

WireInv ==
    /\ frames # <<>> => socket.registered
    /\ socket.registered => socket.phase = "up"
    /\ socket.phase = "up" => socket.met

\* An issue that is not there has never been there.
LogInv == \A n \in 1 .. Len(log) :
    StateAt(n - 1)[log[n].id] = None =>
        log[n].now # None /\ \A k \in 1 .. n - 1 : log[k].id # log[n].id

\* The commits of a call.
Of(m) == {n \in 1 .. Len(log) : log[n].by = m}

\* A call has at most one commit, which is what the call asked for.
LedgerOf(m) ==
    LET c == mutation[m] IN
    /\ c.kind = "none" \/ (c.kind # "over" /\ c.status = "sent") => Of(m) = {}
    /\ c.kind = "over" => c.id = None
    /\ c.kind = "update" /\ c.status = "done" => Of(m) # {}
    /\ c.kind = "update" => \A n \in Of(m) :
           /\ log[n].id = c.id /\ StateAt(n - 1)[c.id] # None
           /\ log[n].now = Merged(StateAt(n - 1)[c.id], c.patch)
           /\ c.status = "done" => c.answer = log[n].now
    /\ c.kind = "delete" => \A n \in Of(m) : log[n].id = c.id /\ log[n].now = None
    /\ \A n, k \in Of(m) : n = k
Ledger == \A m \in Mutations : LedgerOf(m)

\* A call that makes an optimistic change has begun.
Started(m) == mutation[m].kind \in {"update", "delete", "over"}

\* What a call knows of the lists.
ContextOf(m) ==
    LET c == mutation[m] IN
    /\ c.kind # "update" => c.stale = {}
    /\ c.kind \in {"update", "delete"} => c.at <= Handled
    /\ \A l \in Lists : c.saved[l] # None =>
           /\ c.kind \in {"update", "delete"}
           /\ c.wrote[l] # None /\ c.wrote[l].data # None /\ m \in c.wrote[l].own
           /\ c.saved[l].data # None
           /\ \A k \in c.wrote[l].own : Started(k)
Contexts == \A m \in Mutations : ContextOf(m)

\* What a list has seen, and of which calls it has had the change.
SeenBy(l) ==
    /\ list[l].since <= Len(log)
    /\ \A m \in list[l].own : Started(m) /\ \A n \in Of(m) : n > list[l].since
Sights == \A l \in Lists : SeenBy(l)

\* The pages of a load are each the server's at a commit between the first and the last.
ReadOf(l) ==
    LET f == list[l].fetch IN
    f # None =>
        /\ f.first <= f.last /\ f.last <= Len(log)
        /\ \A s \in Statuses : f.pages[s] # None =>
               \E k \in f.first .. f.last : f.pages[s] = Page(StateAt(k), l, s, 0)
Reads == \A l \in Lists : ReadOf(l)

Base == TypeInv /\ WireInv /\ FramesExact /\ LogInv /\ Ledger /\ Contexts /\ Sights /\ Reads

-----------------------------------------------------------------------------
(* What the query library does to a list                                   *)

\* No race has happened to it since its last load, and none is coming from the library.
Calm(q) == q.data # None /\ q.races = {} /\ ~q.marked /\ q.fetch = None

\* Only a load makes a list calm that was not.
Follows(after, q, new) ==
    /\ Calm(after) => Calm(q)
    /\ after.since = q.since
    /\ after.fetch \in {q.fetch, None, NoPages}
    /\ after.own \subseteq q.own \cup new

\* What setting data does to a list.
LEMMA SetData ==
    ASSUME NEW q \in Query, NEW data \in Data \cup {None}, NEW races \in SUBSET Races
    PROVE  Set(q, data, races).data = data
BY DEF Set, Query

\* The same, of the rest of the list.
LEMMA SetParts ==
    ASSUME NEW q \in Query, NEW data \in Data \cup {None}, NEW races \in SUBSET Races
    PROVE  /\ ~Set(q, data, races).marked
           /\ Set(q, data, races).fetch = q.fetch /\ Set(q, data, races).since = q.since
           /\ Set(q, data, races).own = q.own
BY DEF Set, Query

\* The same, of its races.
LEMMA SetRaces ==
    ASSUME NEW q \in Query, NEW data \in Data \cup {None}, NEW races \in SUBSET Races
    PROVE  /\ q.races \subseteq Set(q, data, races).races /\ races \subseteq Set(q, data, races).races
           /\ q.marked /\ q.fetch = None => Set(q, data, races).races # {}
           /\ ~(q.marked /\ q.fetch = None) => Set(q, data, races).races = q.races \cup races
<1>. DEFINE r == q.races \cup races \cup
                  (IF q.marked /\ q.fetch = None THEN {"unmarked"} ELSE {})
<1>1. Set(q, data, races) = [q EXCEPT !.data = data, !.marked = FALSE, !.races = r]
  BY DEF Set
<1>2. /\ q.races \subseteq r /\ races \subseteq r
      /\ q.marked /\ q.fetch = None => r # {}
      /\ ~(q.marked /\ q.fetch = None) => r = q.races \cup races
  BY QueryParts
<1>. HIDE DEF r
<1>3. Set(q, data, races).races = r
  BY <1>1 DEF Query
<1>. QED
  BY <1>2, <1>3

\* What invalidating does to a list.
LEMMA InvalidatedParts ==
    ASSUME NEW q \in Query, NEW l
    PROVE  /\ Invalidated(q, l).marked = TRUE /\ Invalidated(q, l).data = q.data
           /\ Invalidated(q, l).fetch \in {q.fetch, NoPages}
           /\ Invalidated(q, l).since = q.since /\ Invalidated(q, l).own = q.own
           /\ Invalidated(q, l).races = q.races
<1>. DEFINE f == IF l = viewed /\ (q.data # None \/ q.fetch = None) THEN NoPages ELSE q.fetch
<1>1. Invalidated(q, l) = [q EXCEPT !.marked = TRUE, !.fetch = f]
  BY DEF Invalidated
<1>2. f \in {q.fetch, NoPages}
  OBVIOUS
<1>. HIDE DEF f
<1>. QED
  BY <1>1, <1>2 DEF Query

\* What cancelling a load does to a list.
LEMMA CancelledParts ==
    ASSUME NEW q \in Query
    PROVE  /\ Cancelled(q).data = q.data /\ Cancelled(q).marked = q.marked
           /\ Cancelled(q).fetch = None
           /\ Cancelled(q).since = q.since /\ Cancelled(q).own = q.own
           /\ q.races \subseteq Cancelled(q).races
           /\ q.fetch # None => "cancelled" \in Cancelled(q).races
           /\ q.fetch = None => Cancelled(q) = q
BY DEF Cancelled, Query

\* What a note in a list's history does to it.
LEMMA NotedParts ==
    ASSUME NEW q \in Query, NEW own, NEW races
    PROVE  LET after == [q EXCEPT !.own = own, !.races = @ \cup races] IN
           /\ after.data = q.data /\ after.marked = q.marked /\ after.fetch = q.fetch
           /\ after.since = q.since /\ after.own = own /\ after.races = q.races \cup races
BY DEF Query

\* The same of its calls alone.
LEMMA OwnedParts ==
    ASSUME NEW q \in Query, NEW own
    PROVE  LET after == [q EXCEPT !.own = own] IN
           /\ after.data = q.data /\ after.marked = q.marked /\ after.fetch = q.fetch
           /\ after.since = q.since /\ after.own = own /\ after.races = q.races
BY DEF Query

\* A list that nothing happens to follows itself, and what follows what follows, follows.
LEMMA FollowsOn ==
    ASSUME NEW q, NEW new
    PROVE  /\ Follows(q, q, new)
           /\ \A r, p : Follows(r, p, new) /\ Follows(p, q, new) => Follows(r, q, new)
BY DEF Follows

\* Setting data.
LEMMA FollowsSet ==
    ASSUME NEW q \in Query, NEW data \in Data \cup {None}, NEW races \in SUBSET Races, NEW new,
           q.data # None
    PROVE  Follows(Set(q, data, races), q, new)
<1>. DEFINE after == Set(q, data, races)
<1>1. /\ ~after.marked /\ after.fetch = q.fetch
      /\ after.since = q.since /\ after.own = q.own
  BY SetParts
<1>4. q.races \subseteq after.races /\ (q.marked /\ q.fetch = None => after.races # {})
  BY SetRaces, Zenon
<1>2. q.marked \in BOOLEAN
  BY QueryParts
<1>. HIDE DEF after
<1>3. Follows(after, q, new)
  BY <1>1, <1>2, <1>4 DEF Follows, Calm
<1>. QED
  BY <1>3 DEF after

\* Invalidating.
LEMMA FollowsInvalidated ==
    ASSUME NEW q \in Query, NEW l, NEW new
    PROVE  Follows(Invalidated(q, l), q, new) /\ ~Calm(Invalidated(q, l))
BY InvalidatedParts DEF Follows, Calm

\* Cancelling a load.
LEMMA FollowsCancelled ==
    ASSUME NEW q \in Query, NEW new
    PROVE  Follows(Cancelled(q), q, new)
<1>1. Calm(Cancelled(q)) => Calm(q)
  BY CancelledParts DEF Calm
<1>. QED
  BY <1>1, CancelledParts DEF Follows

\* Noting history.
LEMMA FollowsNoted ==
    ASSUME NEW q \in Query, NEW own, NEW races, NEW new, own \subseteq q.own \cup new
    PROVE  /\ Follows([q EXCEPT !.own = own, !.races = @ \cup races], q, new)
           /\ Follows([q EXCEPT !.own = own], q, new)
<1>1. Follows([q EXCEPT !.own = own, !.races = @ \cup races], q, new)
  <2>. DEFINE after == [q EXCEPT !.own = own, !.races = @ \cup races]
  <2>1. /\ after.data = q.data /\ after.marked = q.marked /\ after.fetch = q.fetch
        /\ after.since = q.since /\ after.own = own /\ after.races = q.races \cup races
    BY NotedParts
  <2>. HIDE DEF after
  <2>2. Follows(after, q, new)
    BY <2>1 DEF Follows, Calm
  <2>. QED
    BY <2>2 DEF after
<1>2. Follows([q EXCEPT !.own = own], q, new)
  <2>. DEFINE after == [q EXCEPT !.own = own]
  <2>1. /\ after.data = q.data /\ after.marked = q.marked /\ after.fetch = q.fetch
        /\ after.since = q.since /\ after.own = own /\ after.races = q.races
    BY OwnedParts
  <2>. HIDE DEF after
  <2>2. Follows(after, q, new)
    BY <2>1 DEF Follows, Calm
  <2>. QED
    BY <2>2 DEF after
<1>. QED
  BY <1>1, <1>2

-----------------------------------------------------------------------------
(* The wire and the log                                                    *)

\* What the types say of the lengths.
LEMMA Lengths ==
    ASSUME TypeInv
    PROVE  /\ log \in Seq(Entry) /\ frames \in Seq(1 .. Len(log)) /\ Len(log) \in Nat
           /\ Handled \in 0 .. Len(log) /\ Len(frames) = Len(log) - Handled
           /\ \A n \in 1 .. Len(log) : log[n] \in Entry
<1>1. log \in Seq(Entry) /\ frames \in Seq(1 .. Len(log))
  BY DEF TypeInv, SocketInv, ServerInv
<1>2. Len(log) - Len(frames) \in Commits
  BY FramesFit DEF TypeInv
<1>. QED
  BY <1>1, <1>2 DEF Handled, Commits

\* A commit makes the log longer.
LEMMA Appended ==
    ASSUME log \in Seq(Entry), NEW e \in Entry, log' = Append(log, e)
    PROVE  /\ Grows /\ Len(log') = Len(log) + 1 /\ log'[Len(log) + 1] = e
           /\ \A n \in Len(log) + 1 .. Len(log') : n = Len(log) + 1
BY DEF Grows

\* Nothing makes it shorter.
LEMMA Ungrown == ASSUME UNCHANGED log, log \in Seq(Entry) PROVE Grows
BY DEF Grows

\* Who has committed what stays so.
LEMMA OfSame ==
    ASSUME log \in Seq(Entry), log' \in Seq(Entry), Grows, NEW m,
           \A n \in Len(log) + 1 .. Len(log') : log'[n].by # m
    PROVE  Of(m)' = Of(m)
<1>1. \A n \in 1 .. Len(log') : log'[n].by = m => n \in 1 .. Len(log) /\ log[n].by = m
  BY DEF Grows
<1>2. \A n \in 1 .. Len(log) : n \in 1 .. Len(log') /\ log'[n] = log[n]
  BY DEF Grows
<1>. QED
  BY <1>1, <1>2 DEF Of

\* A server's answer is from what it was.
LEMMA NowIs == ASSUME TypeInv PROVE Now = StateAt(Len(log)) /\ Len(log) \in 0 .. Len(log)
BY Lengths DEF Now

\* A log that does not grow keeps what it says.
LEMMA LogKept ==
    ASSUME TypeInv, LogInv, UNCHANGED log
    PROVE  LogInv'
<1>1. log \in Seq(Entry) /\ log' \in Seq(Entry) /\ Grows
  BY Lengths, Ungrown
<1>2. \A n \in 1 .. Len(log) : StateAt(n - 1)' = StateAt(n - 1)
  <2>1. ASSUME NEW n \in 1 .. Len(log) PROVE StateAt(n - 1)' = StateAt(n - 1)
    <3>1. n - 1 \in 0 .. Len(log)
      BY <1>1
    <3>. QED
      BY <1>1, <3>1, PastStays
  <2>. QED
    BY <2>1
<1>. QED
  BY <1>2 DEF LogInv

\* A commit about an issue that is there, or about one that never was.
LEMMA LogCommits ==
    ASSUME TypeInv, LogInv, NEW i \in Issues, NEW now \in Entity \cup {None},
           NEW by \in Mutations \cup {None},
           log' = Append(log, [id |-> i, now |-> now, by |-> by]),
           Now[i] = None => now # None /\ \A k \in 1 .. Len(log) : log[k].id # i
    PROVE  LogInv' /\ Grows /\ log' \in Seq(Entry)
<1>. DEFINE e == [id |-> i, now |-> now, by |-> by]
<1>1. e \in Entry /\ e.id = i /\ e.now = now
  BY DEF Entry
<1>2. log \in Seq(Entry) /\ Len(log) \in Nat
  BY Lengths
<1>. HIDE DEF e
<1>3. /\ Grows /\ Len(log') = Len(log) + 1 /\ log'[Len(log) + 1] = e /\ log' \in Seq(Entry)
  BY <1>1, <1>2, Appended DEF e
<1>4. ASSUME NEW n \in 1 .. Len(log'), StateAt(n - 1)'[log'[n].id] = None
      PROVE  log'[n].now # None /\ \A k \in 1 .. n - 1 : log'[k].id # log'[n].id
  <2>1. n - 1 \in 0 .. Len(log) /\ \A k \in 1 .. n - 1 : k \in 1 .. Len(log) /\ log'[k] = log[k]
    BY <1>2, <1>3 DEF Grows
  <2>2. StateAt(n - 1)' = StateAt(n - 1)
    BY <1>2, <1>3, <2>1, PastStays
  <2>3. CASE n \in 1 .. Len(log)
    <3>1. log'[n] = log[n]
      BY <2>3, <1>3 DEF Grows
    <3>. QED
      BY <1>4, <2>1, <2>2, <2>3, <3>1 DEF LogInv
  <2>4. CASE n = Len(log) + 1
    <3>1. log'[n] = e /\ n - 1 = Len(log)
      BY <1>2, <1>3, <2>4
    <3>2. Now[i] = None
      BY <1>1, <1>4, <2>2, <3>1 DEF Now
    <3>. QED
      BY <1>1, <2>1, <3>1, <3>2
  <2>. QED
    BY <1>2, <1>3, <2>3, <2>4
<1>. QED
  BY <1>3, <1>4 DEF LogInv

\* What the wire does with a commit.
LEMMA WireCommits ==
    ASSUME TypeInv, WireInv, FramesExact, NEW e \in Entry, log' = Append(log, e),
           Publish(Len(log) + 1), UNCHANGED socket
    PROVE  /\ WireInv' /\ FramesExact' /\ Handled <= Handled'
           /\ socket.registered => Handled' = Handled
<1>1. /\ log \in Seq(Entry) /\ frames \in Seq(1 .. Len(log)) /\ Len(log) \in Nat
      /\ Handled \in 0 .. Len(log) /\ Len(frames) = Len(log) - Handled
  BY Lengths
<1>2. Len(log') = Len(log) + 1
  BY <1>1, Appended
<1>3. CASE socket.registered
  <2>1. frames' = Append(frames, Len(log) + 1)
    BY <1>3 DEF Publish
  <2>2. Len(frames') = Len(frames) + 1 /\ \A k \in 1 .. Len(frames) : frames'[k] = frames[k]
    BY <1>1, <2>1
  <2>3. frames'[Len(frames) + 1] = Len(log) + 1
    BY <1>1, <2>1
  <2>4. Handled' = Handled
    BY <1>1, <1>2, <2>2 DEF Handled
  <2>5. FramesExact'
    <3>1. ASSUME NEW k \in 1 .. Len(frames') PROVE frames'[k] = Handled' + k
      <4>1. CASE k \in 1 .. Len(frames)
        BY <2>2, <2>4, <4>1 DEF FramesExact
      <4>2. CASE k = Len(frames) + 1
        BY <1>1, <2>3, <2>4, <4>2
      <4>3. Len(frames) \in Nat /\ Len(frames') = Len(frames) + 1
        BY <1>1, <2>2
      <4>4. k \in 1 .. Len(frames) \/ k = Len(frames) + 1
        BY <4>3
      <4>. QED
        BY <4>1, <4>2, <4>4
    <3>. QED
      BY <3>1 DEF FramesExact
  <2>. QED
    BY <1>1, <1>3, <2>4, <2>5 DEF WireInv
<1>4. CASE ~socket.registered
  <2>1. frames = <<>> /\ frames' = frames
    BY <1>4 DEF Publish, WireInv
  <2>2. Len(frames) = 0 /\ 1 .. 0 = {}
    BY <2>1, EmptySeq
  <2>3. Handled <= Handled'
    BY <1>1, <1>2, <2>1 DEF Handled
  <2>. QED
    BY <1>4, <2>1, <2>2, <2>3 DEF WireInv, FramesExact
<1>. QED
  BY <1>3, <1>4

\* What a handled frame leaves.
LEMMA WireHandles ==
    ASSUME TypeInv, WireInv, FramesExact, HandleFrame
    PROVE  /\ WireInv' /\ FramesExact' /\ Handled' = Handled + 1
           /\ Head(frames) = Handled + 1 /\ Handled + 1 \in 1 .. Len(log)
<1>1. /\ log \in Seq(Entry) /\ frames \in Seq(1 .. Len(log)) /\ Len(log) \in Nat
      /\ Handled \in 0 .. Len(log) /\ Len(frames) = Len(log) - Handled
  BY Lengths
<1>2. frames # <<>> /\ frames' = Tail(frames) /\ UNCHANGED <<socket, log>>
  BY DEF HandleFrame
<1>3. /\ Len(frames) >= 1 /\ Len(frames') = Len(frames) - 1 /\ Head(frames) = frames[1]
      /\ \A k \in 1 .. Len(frames') : frames'[k] = frames[k + 1] /\ k + 1 \in 1 .. Len(frames)
  BY <1>1, <1>2
<1>4. Head(frames) = Handled + 1 /\ Handled' = Handled + 1 /\ Handled + 1 \in 1 .. Len(log)
  <2>1. Head(frames) = Handled + 1
    BY <1>1, <1>3 DEF FramesExact
  <2>2. Handled' = Handled + 1
    BY <1>1, <1>2, <1>3 DEF Handled
  <2>. QED
    BY <1>1, <1>3, <2>1, <2>2
<1>5. FramesExact'
  <2>1. ASSUME NEW k \in 1 .. Len(frames') PROVE frames'[k] = Handled' + k
    <3>1. frames[k + 1] = Handled + (k + 1)
      BY <1>3 DEF FramesExact
    <3>. QED
      BY <1>1, <1>3, <1>4, <3>1
  <2>. QED
    BY <2>1 DEF FramesExact
<1>6. WireInv'
  BY <1>2 DEF WireInv
<1>. QED
  BY <1>4, <1>5, <1>6

\* What the connection does to what is on the wire.
LEMMA WireConnects ==
    ASSUME TypeInv, WireInv, FramesExact, UNCHANGED log,
           Opens \/ ServerRegisters \/ Closes \/ ReconnectTimer \/ Disconnects \/ NewInstance
    PROVE  WireInv' /\ FramesExact' /\ Handled <= Handled'
<1>1. /\ Len(log) \in Nat /\ Handled \in 0 .. Len(log) /\ Len(frames) = Len(log) - Handled
  BY Lengths
<1>2. socket \in Socket
  BY DEF TypeInv, SocketInv
<1>3. CASE frames' = frames
  <2>1. Handled' = Handled
    BY <1>3 DEF Handled
  <2>2. FramesExact'
    BY <1>3, <2>1 DEF FramesExact
  <2>3. frames # <<>> => socket.phase = "up"
    BY DEF WireInv
  <2>4. WireInv'
    BY <1>2, <1>3, <2>3
       DEF WireInv, Opens, Authenticated, ServerRegisters, Closes, ReconnectTimer, Disconnects,
           NewInstance, Socket
  <2>. QED
    BY <1>1, <2>1, <2>2, <2>4
<1>4. CASE frames' = <<>>
  <2>1. Len(frames') = 0 /\ 1 .. 0 = {}
    BY <1>4, EmptySeq
  <2>2. Handled <= Handled' /\ FramesExact'
    BY <1>1, <2>1 DEF Handled, FramesExact
  <2>3. WireInv'
    BY <1>2, <1>4
       DEF WireInv, Opens, Authenticated, ServerRegisters, Closes, ReconnectTimer, Disconnects,
           NewInstance, Socket
  <2>. QED
    BY <2>2, <2>3
<1>. QED
  BY <1>3, <1>4 DEF Opens, ServerRegisters, Closes, ReconnectTimer, Disconnects, NewInstance

\* What nothing is done to.
LEMMA WireQuiet ==
    ASSUME WireInv, FramesExact, UNCHANGED <<socketVars, log>>
    PROVE  WireInv' /\ FramesExact' /\ Handled' = Handled
BY DEF WireInv, FramesExact, Handled, socketVars

-----------------------------------------------------------------------------
(* The calls, the lists and the loads                                      *)

\* What the types say of a call.
LEMMA CallParts ==
    ASSUME TypeInv, NEW m \in Mutations
    PROVE  /\ mutation[m] \in Call /\ CallShape(mutation[m])
           /\ \A l \in Lists : /\ mutation[m].saved[l] \in Query \cup {None}
                               /\ mutation[m].wrote[l] \in Query \cup {None}
<1>1. mutation[m] \in Call /\ CallShape(mutation[m])
  BY DEF TypeInv, CallsInv
<1>2. mutation[m].saved \in [Lists -> Query \cup {None}] /\ mutation[m].wrote \in [Lists -> Query \cup {None}]
  BY <1>1 DEF Call
<1>. QED
  BY <1>1, <1>2

\* A call that commits nothing and asks for nothing else.
LEMMA LedgerKept ==
    ASSUME TypeInv, TypeInv', Grows, NEW m \in Mutations, LedgerOf(m),
           \A n \in Len(log) + 1 .. Len(log') : log'[n].by # m,
           mutation'[m].kind = mutation[m].kind, mutation'[m].id = mutation[m].id,
           mutation'[m].patch = mutation[m].patch, mutation'[m].answer = mutation[m].answer,
           mutation'[m].status \in {mutation[m].status, "refused"}
    PROVE  LedgerOf(m)'
<1>1. log \in Seq(Entry) /\ log' \in Seq(Entry) /\ Len(log) \in Nat
  BY Lengths DEF TypeInv, ServerInv
<1>2. Of(m)' = Of(m)
  BY <1>1, OfSame
<1>3. ASSUME NEW n \in Of(m) PROVE log'[n] = log[n] /\ StateAt(n - 1)' = StateAt(n - 1)
  <2>1. n \in 1 .. Len(log) /\ n - 1 \in 0 .. Len(log)
    BY <1>1 DEF Of
  <2>. QED
    BY <1>1, <2>1, PastStays DEF Grows
<1>. QED
  BY <1>2, <1>3 DEF LedgerOf

\* A call that begins.
LEMMA LedgerBegins ==
    ASSUME TypeInv, NEW m \in Mutations, Of(m) = {}, UNCHANGED log, mutation'[m].status = "sent",
           mutation'[m].kind # "over"
    PROVE  LedgerOf(m)'
<1>1. Of(m)' = {}
  BY DEF Of
<1>. QED
  BY <1>1 DEF LedgerOf

\* A call that is over.
LEMMA LedgerEnds ==
    ASSUME TypeInv, NEW m \in Mutations, LedgerOf(m), UNCHANGED log, mutation'[m] = Over
    PROVE  LedgerOf(m)'
<1>1. Of(m)' = Of(m)
  BY DEF Of
<1>2. Over.kind = "over" /\ Over.id = None
  BY DEF Over, NoCall
<1>. QED
  BY <1>1, <1>2 DEF LedgerOf

\* A call that the server has done.
LEMMA LedgerDone ==
    ASSUME TypeInv, TypeInv', NEW m \in Mutations, NEW i \in Issues, NEW now \in Entity \cup {None},
           LedgerOf(m), Of(m) = {}, log' = Append(log, [id |-> i, now |-> now, by |-> m]),
           mutation'[m].status = "done",
           mutation'[m].kind \in {"update", "create", "delete"},
           mutation'[m].id = i, mutation'[m].answer = now,
           mutation'[m].kind = "update" =>
               Now[i] # None /\ now = Merged(Now[i], mutation'[m].patch),
           mutation'[m].kind = "delete" => now = None
    PROVE  LedgerOf(m)'
<1>. DEFINE e == [id |-> i, now |-> now, by |-> m]
<1>1. e \in Entry /\ e.id = i /\ e.now = now /\ e.by = m
  BY DEF Entry
<1>2. log \in Seq(Entry) /\ Len(log) \in Nat
  BY Lengths
<1>. HIDE DEF e
<1>3. Grows /\ Len(log') = Len(log) + 1 /\ log'[Len(log) + 1] = e /\ log' \in Seq(Entry)
  BY <1>1, <1>2, Appended DEF e
<1>4. \A n \in Of(m)' : n = Len(log) + 1 /\ log'[n] = e
  <2>1. ASSUME NEW n \in 1 .. Len(log'), log'[n].by = m PROVE n = Len(log) + 1
    <3>1. CASE n \in 1 .. Len(log)
      <4>1. log'[n] = log[n]
        BY <1>3, <3>1 DEF Grows
      <4>. QED
        BY <2>1, <3>1, <4>1 DEF Of
    <3>. QED
      BY <1>2, <1>3, <3>1
  <2>. QED
    BY <1>3, <2>1 DEF Of
<1>5. Len(log) + 1 \in Of(m)'
  BY <1>1, <1>2, <1>3 DEF Of
<1>6. \A n \in Of(m)' : StateAt(n - 1)' = Now /\ log'[n] = e
  <2>1. ASSUME NEW n \in Of(m)' PROVE StateAt(n - 1)' = Now
    <3>1. n - 1 = Len(log)
      BY <1>2, <1>4
    <3>2. n - 1 \in 0 .. Len(log) /\ StateAt(n - 1) = Now
      BY <1>2, <3>1 DEF Now
    <3>. QED
      BY <1>2, <1>3, <3>2, PastStays
  <2>. QED
    BY <1>4, <2>1
<1>. QED
  BY <1>1, <1>4, <1>5, <1>6 DEF LedgerOf

\* What a call knows, kept.
LEMMA ContextKept ==
    ASSUME TypeInv, TypeInv', NEW m \in Mutations, ContextOf(m), Handled <= Handled',
           \A k \in Mutations : Started(k) => Started(k)',
           mutation'[m].kind = mutation[m].kind, mutation'[m].stale = mutation[m].stale,
           mutation'[m].at = mutation[m].at, mutation'[m].saved = mutation[m].saved,
           mutation'[m].wrote = mutation[m].wrote
    PROVE  ContextOf(m)'
<1>1. Handled \in Nat /\ Handled' \in Int /\ mutation[m].at \in Nat
  <2>1. Handled \in Nat
    BY Lengths
  <2>2. Handled' \in Int
    <3>1. Len(log') \in Nat /\ Len(frames') \in Nat
      BY DEF TypeInv, SocketInv, ServerInv
    <3>. QED
      BY <3>1 DEF Handled
  <2>. QED
    BY <2>1, <2>2, CallParts, BoundAssumption DEF Call, Commits
<1>2. mutation'[m].kind \in {"update", "delete"} => mutation'[m].at <= Handled'
  BY <1>1 DEF ContextOf
<1>3. ASSUME NEW l \in Lists, mutation[m].saved[l] # None
      PROVE  \A k \in mutation[m].wrote[l].own : Started(k)'
  <2>1. mutation[m].wrote[l] \in Query
    BY <1>3, CallParts DEF ContextOf
  <2>2. mutation[m].wrote[l].own \in SUBSET Mutations
    BY <2>1, QueryParts
  <2>. QED
    BY <1>3, <2>2 DEF ContextOf
<1>. QED
  BY <1>2, <1>3 DEF ContextOf

\* A call that is over knows nothing.
LEMMA ContextEnds ==
    ASSUME NEW m \in Mutations, mutation'[m] = Over
    PROVE  ContextOf(m)'
<1>1. Over.kind = "over" /\ Over.stale = {} /\ \A l \in Lists : Over.saved[l] = None
  BY DEF Over, NoCall
<1>. QED
  BY <1>1 DEF ContextOf

\* A list that only a load can have cured.
LEMMA SightKept ==
    ASSUME TypeInv, TypeInv', Grows, NEW l \in Lists, SeenBy(l), NEW new \in SUBSET Mutations,
           list'[l].since = list[l].since, list'[l].own \subseteq list[l].own \cup new,
           \A k \in Mutations : Started(k) => Started(k)',
           \A k \in new : Started(k)' /\ Of(k)' = {}
    PROVE  SeenBy(l)'
<1>1. log \in Seq(Entry) /\ log' \in Seq(Entry) /\ Len(log) \in Nat /\ Len(log') \in Nat
  BY Lengths DEF TypeInv, ServerInv
<1>2. list[l].since \in Nat /\ list[l].own \in SUBSET Mutations
  <2>1. list[l] \in Query
    BY DEF TypeInv, ClientInv
  <2>. QED
    BY <2>1, QueryParts, BoundAssumption DEF Commits
<1>3. list'[l].since <= Len(log')
  BY <1>1, <1>2 DEF SeenBy, Grows
<1>4. ASSUME NEW m \in list'[l].own PROVE Started(m)' /\ \A n \in Of(m)' : n > list'[l].since
  <2>1. CASE m \in new
    BY <2>1
  <2>2. CASE m \in list[l].own
    <3>1. ASSUME NEW n \in Of(m)' PROVE n > list'[l].since
      <4>1. n \in 1 .. Len(log') /\ log'[n].by = m
        BY DEF Of
      <4>2. CASE n \in 1 .. Len(log)
        <5>1. log'[n] = log[n]
          BY <4>2 DEF Grows
        <5>. QED
          BY <2>2, <4>1, <4>2, <5>1 DEF SeenBy, Of
      <4>3. CASE n > Len(log)
        <5>1. list[l].since <= Len(log)
          BY DEF SeenBy
        <5>. QED
          BY <1>1, <1>2, <4>1, <4>3, <5>1
      <4>. QED
        BY <1>1, <4>1, <4>2, <4>3
    <3>. QED
      BY <1>2, <2>2, <3>1 DEF SeenBy
  <2>. QED
    BY <2>1, <2>2
<1>. QED
  BY <1>3, <1>4 DEF SeenBy

\* A load that reads no page.
LEMMA ReadKept ==
    ASSUME TypeInv, TypeInv', Grows, NEW l \in Lists, ReadOf(l),
           list'[l].fetch \in {list[l].fetch, None, NoPages}
    PROVE  ReadOf(l)'
<1>1. log \in Seq(Entry) /\ log' \in Seq(Entry) /\ Len(log) \in Nat /\ Len(log') \in Nat
  BY Lengths DEF TypeInv, ServerInv
<1>2. CASE list'[l].fetch = None
  BY <1>2 DEF ReadOf
<1>3. CASE list'[l].fetch = NoPages
  <2>1. NoPages.first = 0 /\ NoPages.last = 0 /\ \A s \in Statuses : NoPages.pages[s] = None
    BY DEF NoPages
  <2>. QED
    BY <1>1, <1>3, <2>1 DEF ReadOf
<1>4. CASE list'[l].fetch = list[l].fetch /\ list[l].fetch # None
  <2>1. PICK f : f = list[l].fetch
    OBVIOUS
  <2>2. f.first \in Nat /\ f.last \in Nat /\ f.first <= f.last /\ f.last <= Len(log)
    <3>1. list[l] \in Query
      BY DEF TypeInv, ClientInv
    <3>2. f \in Fetch
      BY <1>4, <2>1, <3>1, QueryParts
    <3>. QED
      BY <1>4, <2>1, <3>2, BoundAssumption DEF ReadOf, Fetch, Commits
  <2>3. ASSUME NEW s \in Statuses, f.pages[s] # None
        PROVE  \E k \in f.first .. f.last : f.pages[s] = Page(StateAt(k)', l, s, 0)
    <3>1. PICK k \in f.first .. f.last : f.pages[s] = Page(StateAt(k), l, s, 0)
      BY <1>4, <2>1, <2>3 DEF ReadOf
    <3>2. k \in 0 .. Len(log)
      BY <1>1, <2>2
    <3>3. StateAt(k)' = StateAt(k)
      BY <1>1, <3>2, PastStays
    <3>. QED
      BY <3>1, <3>3
  <2>4. f.last <= Len(log')
    BY <1>1, <2>2 DEF Grows
  <2>. QED
    BY <1>4, <2>1, <2>2, <2>3, <2>4 DEF ReadOf
<1>. QED
  BY <1>2, <1>3, <1>4

\* Lists that only follow what they were.
LEMMA ListsFollow ==
    ASSUME TypeInv, TypeInv', Grows, Sights, Reads, NEW new \in SUBSET Mutations,
           \A l \in Lists : Follows(list'[l], list[l], new),
           \A k \in Mutations : Started(k) => Started(k)',
           \A k \in new : Started(k)' /\ Of(k)' = {}
    PROVE  Sights' /\ Reads'
<1>1. ASSUME NEW l \in Lists PROVE SeenBy(l)'
  <2>1. list'[l].since = list[l].since /\ list'[l].own \subseteq list[l].own \cup new
    BY DEF Follows
  <2>. QED
    BY <2>1, SightKept DEF Sights
<1>2. ASSUME NEW l \in Lists PROVE ReadOf(l)'
  <2>1. list'[l].fetch \in {list[l].fetch, None, NoPages}
    BY DEF Follows
  <2>. QED
    BY <2>1, ReadKept DEF Reads
<1>. QED
  BY <1>1, <1>2 DEF Sights, Reads

-----------------------------------------------------------------------------
(* What each step does to each list                                        *)

\* A list that is loaded has data of the shape.
LEMMA ListParts ==
    ASSUME TypeInv, NEW l \in Lists
    PROVE  /\ list[l] \in Query /\ (list[l].data # None => list[l].data \in Data)
           /\ list[l].own \in SUBSET Mutations /\ list[l].since \in Nat
<1>1. list[l] \in Query
  BY DEF TypeInv, ClientInv
<1>. QED
  BY <1>1, QueryParts, BoundAssumption DEF Commits

\* A commit leaves the list alone or notes the gap.
LEMMA CommitFollows ==
    ASSUME TypeInv, NEW l \in Lists, NEW i, NEW now, NEW by, Commit(i, now, by)
    PROVE  /\ Follows(list'[l], list[l], {})
           /\ list'[l].data = list[l].data /\ list'[l].own = list[l].own
           /\ Unrecovered /\ list[l].data # None => ~Calm(list'[l])
<1>1. list[l] \in Query
  BY ListParts
<1>2. list'[l] = IF Unrecovered /\ list[l].data # None
                 THEN [list[l] EXCEPT !.races = @ \cup {"gap"}] ELSE list[l]
  BY DEF Commit
<1>3. PICK after : after = [list[l] EXCEPT !.races = @ \cup {"gap"}]
  OBVIOUS
<1>4. /\ after.data = list[l].data /\ after.fetch = list[l].fetch /\ after.since = list[l].since
      /\ after.own = list[l].own /\ "gap" \in after.races
  BY <1>1, <1>3 DEF Query
<1>5. Follows(after, list[l], {}) /\ ~Calm(after)
  BY <1>4 DEF Follows, Calm
<1>6. CASE Unrecovered /\ list[l].data # None
  <2>1. list'[l] = after
    BY <1>2, <1>3, <1>6
  <2>. QED
    BY <1>4, <1>5, <2>1
<1>7. CASE ~(Unrecovered /\ list[l].data # None)
  <2>1. list'[l] = list[l]
    BY <1>2, <1>7
  <2>. QED
    BY <1>7, <2>1, FollowsOn
<1>. QED
  BY <1>6, <1>7

\* The steps of the connection.
LEMMA ConnectionFollows ==
    ASSUME TypeInv, NEW l \in Lists, Connection
    PROVE  /\ Follows(list'[l], list[l], {})
           /\ Calm(list'[l]) => list'[l] = list[l]
<1>1. list[l] \in Query
  BY ListParts
<1>2. CASE list'[l] = list[l]
  BY <1>2, FollowsOn
<1>3. CASE list'[l] = Invalidated(list[l], l)
  BY <1>1, <1>3, FollowsInvalidated
<1>. QED
  BY <1>2, <1>3 DEF Connection, IsUp, Registers, Retries, Quietly, Drops, Leaves, Returns, client,
                    AllInvalidated

\* A list is opened, or its load fails.
LEMMA LoadFollows ==
    ASSUME TypeInv, NEW l \in Lists, NEW k \in Lists, View(k) \/ LoadFails(k)
    PROVE  /\ Follows(list'[l], list[l], {})
           /\ Calm(list'[l]) => list'[l] = list[l]
<1>1. list[l] \in Query /\ list \in [Lists -> Query]
  BY ListParts DEF TypeInv, ClientInv
<1>2. CASE l # k
  <2>1. list'[l] = list[l]
    BY <1>1, <1>2 DEF View, LoadFails
  <2>. QED
    BY <2>1, FollowsOn
<1>3. CASE l = k /\ LoadFails(k)
  <2>1. PICK after : after = [list[l] EXCEPT !.fetch = None, !.marked = TRUE]
    OBVIOUS
  <2>2. list'[l] = after
    BY <1>1, <1>3, <2>1 DEF LoadFails
  <2>3. after.fetch = None /\ after.marked /\ after.since = list[l].since /\ after.own = list[l].own
    BY <1>1, <2>1 DEF Query
  <2>4. Follows(after, list[l], {}) /\ ~Calm(after)
    BY <2>3 DEF Follows, Calm
  <2>. QED
    BY <2>2, <2>4
<1>4. CASE l = k /\ View(k)
  <2>1. PICK f : f = IF list[l].fetch = None /\ (list[l].data = None \/ list[l].marked)
                     THEN NoPages ELSE list[l].fetch
    OBVIOUS
  <2>2. PICK after : after = [list[l] EXCEPT !.fetch = f]
    OBVIOUS
  <2>3. list'[l] = after
    BY <1>1, <1>4, <2>1, <2>2 DEF View
  <2>4. /\ after.fetch = f /\ after.marked = list[l].marked /\ after.since = list[l].since
        /\ after.own = list[l].own /\ after.data = list[l].data /\ after.races = list[l].races
    BY <1>1, <2>2 DEF Query
  <2>6. /\ f \in {list[l].fetch, NoPages}
        /\ f = list[l].fetch \/ list[l].data = None \/ list[l].marked
    BY <2>1
  <2>7. Follows(after, list[l], {})
    BY <2>4, <2>6 DEF Follows, Calm
  <2>8. Calm(after) => after = list[l]
    BY <1>1, <2>2, <2>4, <2>6 DEF Calm, Query
  <2>. QED
    BY <2>3, <2>7, <2>8
<1>. QED
  BY <1>2, <1>3, <1>4

\* An event about a change.
LEMMA UpdatedFollows ==
    ASSUME TypeInv, NEW q \in Query, NEW l \in Lists, NEW n,
           log[n].id \in Issues, log[n].now \in Entity
    PROVE  Follows(Updated(q, l, n), q, {})
<1>. DEFINE e == log[n]
            o == Change(l, q.data, e.id, e.now, ChangedFields(e.now, Before(n)), CachedIssue(e.id))
            races == IF Miscounted(q, n, o) THEN {"miscounted"} ELSE {}
            own == {m \in q.own : ~Concerns(m, e.id)}
            was == IF o.written THEN Set(q, o.data, races) ELSE q
            set == [was EXCEPT !.own = own, !.races = @ \cup races]
<1>1. CASE q.data = None
  <2>1. Updated(q, l, n) = q
    BY <1>1 DEF Updated
  <2>. QED
    BY <2>1, FollowsOn
<1>2. CASE q.data # None
  <2>1. q.data \in Data
    BY <1>2, QueryParts
  <2>2. e.now \in Patches
    BY DEF Patches
  <2>3. CachedIssue(e.id) \in Entity \cup {None}
    BY CachedIssueType DEF TypeInv, ClientInv
  <2>4. o.data \in Data
    <3>. HIDE DEF e
    <3>1. e.id \in Issues
      BY DEF e
    <3>. QED
      BY <2>1, <2>2, <2>3, <3>1, ChangeType
  <2>5. races \in SUBSET Races
    BY DEF Races
  <2>6. own \subseteq q.own /\ own \in SUBSET Mutations
    BY QueryParts
  <2>7. was \in Query /\ Follows(was, q, {}) /\ was.own = q.own
    <3>. HIDE DEF o, races
    <3>1. CASE o.written
      BY <1>2, <2>4, <2>5, <3>1, SetType, FollowsSet, SetParts
    <3>2. CASE ~o.written
      BY <3>2, FollowsOn
    <3>. QED
      BY <3>1, <3>2
  <2>8. set \in Query /\ Follows(set, q, {})
    <3>. HIDE DEF was, own, races
    <3>1. set \in Query
      BY <2>5, <2>6, <2>7, HistoryType
    <3>2. Follows(set, was, {})
      BY <2>6, <2>7, FollowsNoted
    <3>. HIDE DEF set
    <3>. QED
      BY <2>7, <3>1, <3>2, FollowsOn
  <2>9. Updated(q, l, n) = IF o.stale THEN Invalidated(set, l) ELSE set
    BY <1>2, Zenon DEF Updated
  <2>. HIDE DEF set, o
  <2>10. Follows(Invalidated(set, l), q, {})
    BY <2>8, FollowsInvalidated, FollowsOn
  <2>. QED
    BY <2>8, <2>9, <2>10
<1>. QED
  BY <1>1, <1>2

\* An issue is gone.
LEMMA PrunedFollows ==
    ASSUME NEW q \in Query, NEW l, NEW i \in Issues
    PROVE  Follows(Pruned(q, l, i), q, {}) /\ ~Calm(Pruned(q, l, i))
<1>. DEFINE was == IF q.data = None THEN q ELSE Set(q, RemoveCard(q.data, i), {})
<1>1. was \in Query /\ Follows(was, q, {})
  <2>1. CASE q.data = None
    BY <2>1, FollowsOn
  <2>2. CASE q.data # None
    <3>1. RemoveCard(q.data, i) \in Data
      BY <2>2, QueryParts, RemoveCardType
    <3>2. {} \in SUBSET Races
      OBVIOUS
    <3>. QED
      BY <2>2, <3>1, <3>2, SetType, FollowsSet
  <2>. QED
    BY <2>1, <2>2
<1>2. Pruned(q, l, i) = Invalidated(was, l)
  BY DEF Pruned
<1>. HIDE DEF was
<1>. QED
  BY <1>1, <1>2, FollowsInvalidated, FollowsOn

\* The events.
LEMMA EventFollows ==
    ASSUME TypeInv, NEW l \in Lists, Events
    PROVE  Follows(list'[l], list[l], {})
<1>1. list[l] \in Query
  BY ListParts
<1>2. HandleFrame /\ log[Head(frames)] \in Entry
  BY FrameHandled DEF Events, IssueCreated, IssueUpdated, IssueDeleted
<1>3. PICK n : n = Head(frames)
  OBVIOUS
<1>4. PICK i \in Issues : i = log[n].id
  BY <1>2, <1>3 DEF Entry
<1>5. CASE IssueUpdated
  <2>1. list'[l] = Updated(list[l], l, n) /\ log[n].now \in Entity
    BY <1>2, <1>3, <1>5 DEF IssueUpdated, Entry
  <2>. QED
    BY <1>1, <1>4, <2>1, UpdatedFollows
<1>6. CASE IssueDeleted
  <2>1. list'[l] = Pruned(list[l], l, i)
    BY <1>3, <1>4, <1>6 DEF IssueDeleted
  <2>. QED
    BY <1>1, <2>1, PrunedFollows
<1>7. CASE IssueCreated
  <2>1. PICK e \in Entity : e = log[n].now
    BY <1>2, <1>3, <1>7 DEF IssueCreated, Entry
  <2>2. list[l].data # None =>
          \A r \in SUBSET Races : Follows(Set(list[l], AddCard(list[l].data, i, e), r), list[l], {})
    BY <1>1, QueryParts, AddCardType, FollowsSet
  <2>3. {"twice"} \in SUBSET Races /\ {} \in SUBSET Races
    BY DEF Races
  <2>4. Follows(Invalidated(list[l], l), list[l], {}) /\ Follows(list[l], list[l], {})
    BY <1>1, FollowsInvalidated, FollowsOn
  <2>. QED
    BY <1>3, <1>4, <1>7, <2>1, <2>2, <2>3, <2>4 DEF IssueCreated
<1>. QED
  BY <1>5, <1>6, <1>7 DEF Events

\* What a change of the user makes of a list that is loaded.
Edit(l, i, patch) ==
    Change(l, list[l].data, i, patch, ChangedFields(patch, detail[i]), detail[i])

\* The user's change is made in a list or is not, or the list is to be loaded again.
Edits(l, i, patch) == list[l].data # None /\ Edit(l, i, patch).written

\* What useUpdateIssue keeps of the call.
LEMMA StartUpdateCall ==
    ASSUME TypeInv, NEW m \in Mutations, NEW i \in Issues, NEW patch \in Patches,
           StartUpdate(m, i, patch)
    PROVE  /\ UNCHANGED <<socketVars, log, viewed>> /\ mutation[m].kind = "none"
           /\ socket.phase # "torn down"
           /\ \A k \in Mutations \ {m} : mutation'[k] = mutation[k]
           /\ mutation'[m].kind = "update" /\ mutation'[m].status = "sent"
           /\ mutation'[m].id = i /\ mutation'[m].patch = patch /\ mutation'[m].at = Handled
<1>. DEFINE base == detail[i]
            outcome == [l \in Lists |->
                IF list[l].data = None THEN Untouched(None)
                ELSE Change(l, list[l].data, i, patch, ChangedFields(patch, base), base)]
            misjudged(l) ==
                /\ list[l].data # None /\ ~Shows(list[l].data, i) /\ ~outcome[l].stale
                /\ \/ base # Now[i]
                   \/ \E k \in 1 .. Len(log) : log[k].id = i /\ Pending(k)
                   \/ outcome[l].written /\ \E k \in list[l].own : Concerns(k, i)
            races(l) == IF misjudged(l) THEN {"miscounted"} ELSE {}
            query(l) == [Cancelled(list[l]) EXCEPT !.own = @ \cup {m}, !.races = @ \cup races(l)]
            now == [l \in Lists |->
                IF outcome[l].written THEN Set(query(l), outcome[l].data, {}) ELSE query(l)]
            call == [NoCall EXCEPT
                !.kind = "update", !.id = i, !.patch = patch,
                !.saved = [l \in Lists |-> IF outcome[l].written THEN list[l] ELSE None],
                !.wrote = [l \in Lists |-> IF outcome[l].written THEN now[l] ELSE None],
                !.stale = {l \in Lists : outcome[l].stale},
                !.detail = base, !.at = Len(log) - Len(frames)]
<1>1. Begin(m, call)
  BY Zenon DEF StartUpdate
<1>2. /\ call.kind = "update" /\ call.status = "sent" /\ call.id = i /\ call.patch = patch
      /\ call.at = Len(log) - Len(frames)
  <2>. HIDE DEF outcome, now, base
  <2>. QED
    BY DEF NoCall
<1>. HIDE DEF call
<1>3. /\ UNCHANGED <<socketVars, log, viewed>> /\ mutation[m].kind = "none"
      /\ socket.phase # "torn down" /\ mutation' = [mutation EXCEPT ![m] = call]
  BY <1>1 DEF Begin
<1>4. mutation'[m] = call /\ \A k \in Mutations \ {m} : mutation'[k] = mutation[k]
  BY <1>3 DEF TypeInv, CallsInv
<1>. QED
  BY <1>2, <1>3, <1>4 DEF Handled

\* What it keeps of a list.
LEMMA StartUpdateSaved ==
    ASSUME TypeInv, NEW m \in Mutations, NEW i \in Issues, NEW patch \in Patches,
           StartUpdate(m, i, patch), NEW l \in Lists
    PROVE  /\ Edits(l, i, patch) => mutation'[m].saved[l] = list[l] /\ mutation'[m].wrote[l] = list'[l]
           /\ ~Edits(l, i, patch) => mutation'[m].saved[l] = None /\ mutation'[m].wrote[l] = None
           /\ list[l].data # None /\ Edit(l, i, patch).stale => l \in mutation'[m].stale
<1>. DEFINE base == detail[i]
            outcome == [k \in Lists |->
                IF list[k].data = None THEN Untouched(None)
                ELSE Change(k, list[k].data, i, patch, ChangedFields(patch, base), base)]
            misjudged(k) ==
                /\ list[k].data # None /\ ~Shows(list[k].data, i) /\ ~outcome[k].stale
                /\ \/ base # Now[i]
                   \/ \E n \in 1 .. Len(log) : log[n].id = i /\ Pending(n)
                   \/ outcome[k].written /\ \E n \in list[k].own : Concerns(n, i)
            races(k) == IF misjudged(k) THEN {"miscounted"} ELSE {}
            query(k) == [Cancelled(list[k]) EXCEPT !.own = @ \cup {m}, !.races = @ \cup races(k)]
            now == [k \in Lists |->
                IF outcome[k].written THEN Set(query(k), outcome[k].data, {}) ELSE query(k)]
            call == [NoCall EXCEPT
                !.kind = "update", !.id = i, !.patch = patch,
                !.saved = [k \in Lists |-> IF outcome[k].written THEN list[k] ELSE None],
                !.wrote = [k \in Lists |-> IF outcome[k].written THEN now[k] ELSE None],
                !.stale = {k \in Lists : outcome[k].stale},
                !.detail = base, !.at = Len(log) - Len(frames)]
<1>1. Begin(m, call) /\ list' = now
  BY Zenon DEF StartUpdate
<1>2. outcome[l] = IF list[l].data = None THEN Untouched(None) ELSE Edit(l, i, patch)
  BY DEF Edit
<1>3. Untouched(None).written = FALSE
  BY DEF Untouched, Outcome
<1>4. /\ call.saved = [k \in Lists |-> IF outcome[k].written THEN list[k] ELSE None]
      /\ call.wrote = [k \in Lists |-> IF outcome[k].written THEN now[k] ELSE None]
      /\ call.stale = {k \in Lists : outcome[k].stale}
  <2>. HIDE DEF outcome, now, base
  <2>. QED
    BY DEF NoCall
<1>. HIDE DEF call, now, outcome
<1>5. mutation'[m] = call
  BY <1>1 DEF Begin, TypeInv, CallsInv
<1>6. /\ outcome[l].written <=> Edits(l, i, patch)
      /\ list[l].data # None /\ Edit(l, i, patch).stale => outcome[l].stale
  BY <1>2, <1>3, Zenon DEF Edits
<1>7. /\ Edits(l, i, patch) => call.saved[l] = list[l] /\ call.wrote[l] = list'[l]
      /\ ~Edits(l, i, patch) => call.saved[l] = None /\ call.wrote[l] = None
      /\ list[l].data # None /\ Edit(l, i, patch).stale => l \in call.stale
  BY <1>1, <1>4, <1>6
<1>. QED
  BY <1>5, <1>7

\* What useUpdateIssue makes of a list.
LEMMA StartUpdateList ==
    ASSUME TypeInv, NEW m \in Mutations, NEW i \in Issues, NEW patch \in Patches,
           StartUpdate(m, i, patch), NEW l \in Lists
    PROVE  /\ Follows(list'[l], list[l], {m}) /\ list'[l].own = list[l].own \cup {m}
           /\ Edits(l, i, patch) => list'[l].data = Edit(l, i, patch).data
           /\ ~Edits(l, i, patch) => list'[l].data = list[l].data
           /\ Calm(list'[l]) /\ ~Shows(list[l].data, i) /\ ~Edit(l, i, patch).stale =>
                /\ detail[i] = Now[i]
                /\ \A k \in 1 .. Len(log) : log[k].id = i => ~Pending(k)
                /\ Edits(l, i, patch) => \A k \in list[l].own : ~Concerns(k, i)
<1>. DEFINE base == detail[i]
            outcome == [k \in Lists |->
                IF list[k].data = None THEN Untouched(None)
                ELSE Change(k, list[k].data, i, patch, ChangedFields(patch, base), base)]
            misjudged(k) ==
                /\ list[k].data # None /\ ~Shows(list[k].data, i) /\ ~outcome[k].stale
                /\ \/ base # Now[i]
                   \/ \E n \in 1 .. Len(log) : log[n].id = i /\ Pending(n)
                   \/ outcome[k].written /\ \E n \in list[k].own : Concerns(n, i)
            races(k) == IF misjudged(k) THEN {"miscounted"} ELSE {}
            query(k) == [Cancelled(list[k]) EXCEPT !.own = @ \cup {m}, !.races = @ \cup races(k)]
            now == [k \in Lists |->
                IF outcome[k].written THEN Set(query(k), outcome[k].data, {}) ELSE query(k)]
<1>1. list' = now
  BY Zenon DEF StartUpdate
<1>2. outcome[l] = IF list[l].data = None THEN Untouched(None) ELSE Edit(l, i, patch)
  BY DEF Edit
<1>3. Untouched(None).written = FALSE /\ Untouched(None).stale = FALSE
  BY DEF Untouched, Outcome
<1>4. list[l] \in Query /\ detail[i] \in Entity \cup {None}
  BY ListParts DEF TypeInv, ClientInv
<1>5. list[l].data # None => Edit(l, i, patch).data \in Data
  BY <1>4, QueryParts, ChangeType DEF Edit
<1>6. races(l) \in SUBSET Races
  BY DEF Races
<1>7. PICK q \in Query : q = Cancelled(list[l])
  BY <1>4, CancelledType
<1>8. q.data = list[l].data /\ q.own = list[l].own /\ Follows(q, list[l], {m})
  BY <1>4, <1>7, CancelledParts, FollowsCancelled
<1>9. q.own \cup {m} \in SUBSET Mutations
  BY QueryParts
<1>10. PICK own \in SUBSET Mutations : own = q.own \cup {m}
  BY <1>9
<1>11. PICK r \in SUBSET Races : r = races(l)
  BY <1>6
<1>12. PICK p \in Query : p = [q EXCEPT !.own = own, !.races = @ \cup r]
  BY HistoryType
<1>13. query(l) = p
  BY <1>7, <1>10, <1>11, <1>12
<1>14. p.data = q.data /\ p.own = own /\ r \subseteq p.races /\ Follows(p, list[l], {m})
  <2>1. p.data = q.data /\ p.own = own /\ r \subseteq p.races
    BY <1>12 DEF Query
  <2>2. Follows(p, q, {m})
    BY <1>10, <1>12, FollowsNoted
  <2>. QED
    BY <1>8, <2>1, <2>2, FollowsOn
<1>15. r = {} \/ r = {"miscounted"}
  BY <1>11
<1>16. r = {} => ~misjudged(l)
  BY <1>11
<1>17. list'[l] = IF outcome[l].written THEN Set(p, outcome[l].data, {}) ELSE p
  <2>. HIDE DEF query, outcome
  <2>. QED
    BY <1>1, <1>13
<1>18. ASSUME Calm(list'[l]) PROVE r = {}
  <2>1. CASE outcome[l].written
    <3>1. list[l].data # None /\ outcome[l].data \in Data
      <4>. HIDE DEF outcome
      <4>. QED
        BY <1>2, <1>3, <1>5, <2>1
    <3>2. {} \in SUBSET Races
      OBVIOUS
    <3>3. p.races \subseteq list'[l].races
      <4>. HIDE DEF outcome
      <4>. QED
        BY <1>17, <2>1, <3>1, <3>2, SetRaces
    <3>. QED
      BY <1>14, <1>15, <1>18, <3>3 DEF Calm
  <2>2. CASE ~outcome[l].written
    <3>. HIDE DEF outcome
    <3>. QED
      BY <1>14, <1>15, <1>17, <1>18, <2>2 DEF Calm
  <2>. QED
    BY <2>1, <2>2
<1>. HIDE DEF outcome
<1>19. CASE Edits(l, i, patch)
  <2>1. outcome[l] = Edit(l, i, patch) /\ list[l].data # None /\ outcome[l].written
    BY <1>2, <1>19 DEF Edits
  <2>2. {} \in SUBSET Races /\ Edit(l, i, patch).data \in Data
    BY <1>5, <2>1
  <2>3. list'[l] = Set(p, Edit(l, i, patch).data, {})
    BY <1>17, <2>1
  <2>4. list'[l].data = Edit(l, i, patch).data /\ list'[l].own = own
    BY <1>14, <2>2, <2>3, SetData, SetParts
  <2>5. Follows(list'[l], p, {m})
    BY <1>8, <1>14, <2>1, <2>2, <2>3, FollowsSet
  <2>6. Follows(list'[l], list[l], {m})
    BY <1>14, <2>5, FollowsOn
  <2>. QED
    BY <1>8, <1>10, <1>16, <1>18, <1>19, <2>1, <2>4, <2>6
<1>20. CASE ~Edits(l, i, patch)
  <2>1. ~outcome[l].written
    BY <1>2, <1>3, <1>20, Zenon DEF Edits
  <2>2. list'[l] = p
    BY <1>17, <2>1
  <2>3. list[l].data # None => outcome[l] = Edit(l, i, patch)
    BY <1>2
  <2>4. ASSUME Calm(list'[l]), ~Shows(list[l].data, i), ~Edit(l, i, patch).stale
        PROVE  detail[i] = Now[i] /\ \A k \in 1 .. Len(log) : log[k].id = i => ~Pending(k)
    <3>1. list[l].data # None
      BY <1>8, <1>14, <2>2, <2>4 DEF Calm
    <3>. QED
      BY <1>16, <1>18, <2>3, <2>4, <3>1
  <2>. QED
    BY <1>8, <1>10, <1>14, <1>20, <2>2, <2>4
<1>. QED
  BY <1>19, <1>20

\* What useDeleteIssue keeps of the lists.
LEMMA StartDeleteCall ==
    ASSUME TypeInv, NEW m \in Mutations, NEW i \in Issues, StartDelete(m, i)
    PROVE  /\ UNCHANGED <<socketVars, log, viewed>> /\ mutation[m].kind = "none"
           /\ socket.phase # "torn down"
           /\ \A k \in Mutations \ {m} : mutation'[k] = mutation[k]
           /\ mutation'[m].kind = "delete" /\ mutation'[m].status = "sent"
           /\ mutation'[m].id = i /\ mutation'[m].at = Handled /\ mutation'[m].stale = {}
           /\ \A l \in Lists :
                /\ list[l].data # None => /\ mutation'[m].saved[l] = list[l]
                                          /\ mutation'[m].wrote[l] = list'[l]
                /\ list[l].data = None => /\ mutation'[m].saved[l] = None
                                          /\ mutation'[m].wrote[l] = None
<1>. DEFINE taken(l) == [Cancelled(list[l]) EXCEPT !.own = @ \cup {m}]
            set(l) == Set(taken(l), RemoveCard(taken(l).data, i), {})
            now == [l \in Lists |-> IF taken(l).data = None THEN taken(l) ELSE set(l)]
            kept(f) == [l \in Lists |-> IF list[l].data = None THEN None ELSE f[l]]
            call == [NoCall EXCEPT !.kind = "delete", !.id = i, !.saved = kept(list),
                                   !.wrote = kept(now), !.detail = detail[i],
                                   !.at = Len(log) - Len(frames)]
<1>1. Begin(m, call) /\ list' = now
  BY Zenon DEF StartDelete
<1>2. call.kind = "delete" /\ call.status = "sent" /\ call.id = i /\ call.stale = {}
  BY DEF NoCall
<1>3. /\ call.saved = kept(list) /\ call.wrote = kept(now)
      /\ call.at = Len(log) - Len(frames)
  <2>. HIDE DEF now, kept
  <2>. QED
    BY DEF NoCall
<1>. HIDE DEF call, now
<1>4. /\ UNCHANGED <<socketVars, log, viewed>> /\ mutation[m].kind = "none"
      /\ socket.phase # "torn down" /\ mutation' = [mutation EXCEPT ![m] = call]
  BY <1>1 DEF Begin
<1>5. mutation'[m] = call /\ \A k \in Mutations \ {m} : mutation'[k] = mutation[k]
  BY <1>4 DEF TypeInv, CallsInv
<1>6. ASSUME NEW l \in Lists
      PROVE  /\ list[l].data # None => call.saved[l] = list[l] /\ call.wrote[l] = list'[l]
             /\ list[l].data = None => call.saved[l] = None /\ call.wrote[l] = None
  BY <1>1, <1>3
<1>7. \A l \in Lists :
          /\ list[l].data # None => /\ mutation'[m].saved[l] = list[l]
                                    /\ mutation'[m].wrote[l] = list'[l]
          /\ list[l].data = None => /\ mutation'[m].saved[l] = None
                                    /\ mutation'[m].wrote[l] = None
  BY <1>5, <1>6, Zenon
<1>8. /\ mutation'[m].kind = "delete" /\ mutation'[m].status = "sent"
      /\ mutation'[m].id = i /\ mutation'[m].at = Handled /\ mutation'[m].stale = {}
  BY <1>2, <1>3, <1>5 DEF Handled
<1>. QED
  BY <1>4, <1>5, <1>7, <1>8, Zenon

\* What useDeleteIssue makes of a list.
LEMMA StartDeleteList ==
    ASSUME TypeInv, NEW m \in Mutations, NEW i \in Issues, StartDelete(m, i), NEW l \in Lists
    PROVE  /\ Follows(list'[l], list[l], {m}) /\ list'[l].own = list[l].own \cup {m}
           /\ list[l].data # None => list'[l].data = RemoveCard(list[l].data, i)
           /\ list[l].data = None => list'[l].data = None
<1>. DEFINE taken(k) == [Cancelled(list[k]) EXCEPT !.own = @ \cup {m}]
            set(k) == Set(taken(k), RemoveCard(taken(k).data, i), {})
            now == [k \in Lists |-> IF taken(k).data = None THEN taken(k) ELSE set(k)]
<1>1. list' = now
  BY Zenon DEF StartDelete
<1>2. list[l] \in Query
  BY ListParts
<1>3. PICK q \in Query : q = Cancelled(list[l])
  BY <1>2, CancelledType
<1>4. q.data = list[l].data /\ q.own = list[l].own /\ Follows(q, list[l], {m})
  BY <1>2, <1>3, CancelledParts, FollowsCancelled
<1>5. PICK own \in SUBSET Mutations : own = q.own \cup {m}
  BY QueryParts
<1>6. PICK p \in Query : p = [q EXCEPT !.own = own]
  BY HistoryType
<1>7. taken(l) = p
  BY <1>3, <1>5, <1>6
<1>8. p.data = q.data /\ p.own = own
  BY <1>6 DEF Query
<1>9. Follows(p, list[l], {m})
  <2>1. Follows(p, q, {m})
    BY <1>5, <1>6, FollowsNoted
  <2>. QED
    BY <1>4, <2>1, FollowsOn
<1>10. list'[l] = IF p.data = None THEN p ELSE Set(p, RemoveCard(p.data, i), {})
  <2>. HIDE DEF taken
  <2>. QED
    BY <1>1, <1>7
<1>11. CASE p.data = None
  BY <1>4, <1>5, <1>8, <1>9, <1>10, <1>11
<1>12. CASE p.data # None
  <2>1. {} \in SUBSET Races /\ RemoveCard(p.data, i) \in Data
    BY <1>12, QueryParts, RemoveCardType
  <2>2. list'[l] = Set(p, RemoveCard(p.data, i), {})
    BY <1>10, <1>12
  <2>3. list'[l].data = RemoveCard(p.data, i) /\ list'[l].own = own
    BY <1>8, <2>1, <2>2, SetData, SetParts
  <2>4. Follows(list'[l], p, {m})
    BY <1>12, <2>1, <2>2, FollowsSet
  <2>5. Follows(list'[l], list[l], {m})
    BY <1>9, <2>4, FollowsOn
  <2>. QED
    BY <1>4, <1>5, <1>8, <1>12, <2>3, <2>5
<1>. QED
  BY <1>11, <1>12

\* Nothing has come between a change and its rollback in a list.
Undisturbed(q, m, l) ==
    LET c == mutation[m] IN
    /\ q.data = c.wrote[l].data /\ q.since = c.wrote[l].since /\ q.own = c.wrote[l].own
    /\ \A k \in c.at + 1 .. Len(log) : Pending(k)

\* A list put back.
LEMMA RestoredParts ==
    ASSUME TypeInv, NEW q \in Query, NEW m \in Mutations, NEW l \in Lists, ContextOf(m)
    PROVE  /\ Follows(Restored(q, m, l), q, {})
           /\ mutation[m].saved[l] = None => Restored(q, m, l) = q
           /\ mutation[m].saved[l] # None =>
                /\ Restored(q, m, l).own = q.own \ {m}
                /\ Restored(q, m, l).data = mutation[m].saved[l].data
                /\ Calm(Restored(q, m, l)) => Undisturbed(q, m, l)
<1>. DEFINE c == mutation[m]
            disturbed == \/ q.data # c.wrote[l].data \/ q.since # c.wrote[l].since
                         \/ q.own # c.wrote[l].own
                         \/ \E k \in c.at + 1 .. Len(log) : ~Pending(k)
            races == IF disturbed THEN {"rolled back"} ELSE {}
<1>1. CASE c.saved[l] = None
  <2>1. Restored(q, m, l) = q
    BY <1>1 DEF Restored
  <2>. QED
    BY <1>1, <2>1, FollowsOn
<1>2. CASE c.saved[l] # None
  <2>1. PICK data \in Data : data = c.saved[l].data
    BY <1>2, CallParts, QueryParts DEF ContextOf
  <2>2. PICK r \in SUBSET Races : r = races
    BY DEF Races
  <2>3. PICK p \in Query : p = Set(q, data, r)
    BY SetType
  <2>4. p.data = data /\ p.fetch = q.fetch /\ p.since = q.since /\ p.own = q.own /\ ~p.marked
    BY <2>3, SetData, SetParts
  <2>5. q.races \subseteq p.races /\ r \subseteq p.races /\ (q.marked /\ q.fetch = None => p.races # {})
    BY <2>3, SetRaces, Zenon
  <2>6. PICK own \in SUBSET Mutations : own = q.own \ {m}
    BY QueryParts
  <2>7. PICK after \in Query : after = [p EXCEPT !.own = own]
    BY HistoryType
  <2>8. /\ after.data = data /\ after.fetch = q.fetch /\ after.since = q.since /\ after.own = own
        /\ after.races = p.races
    BY <2>4, <2>7 DEF Query
  <2>9. Restored(q, m, l) = after
    BY <1>2, <2>1, <2>2, <2>3, <2>4, <2>6, <2>7 DEF Restored
  <2>10. (r = {} <=> Undisturbed(q, m, l))
    <3>1. disturbed <=> ~Undisturbed(q, m, l)
      BY DEF Undisturbed
    <3>2. r = {} <=> ~disturbed
      BY <2>2
    <3>. QED
      BY <3>1, <3>2
  <2>11. Undisturbed(q, m, l) => q.data # None
    BY <1>2 DEF ContextOf, Undisturbed
  <2>12. Calm(after) => r = {} /\ Calm(q)
    BY <2>5, <2>8, <2>10, <2>11, QueryParts DEF Calm
  <2>13. Follows(after, q, {})
    BY <2>6, <2>8, <2>12 DEF Follows
  <2>. QED
    BY <1>2, <2>1, <2>6, <2>8, <2>9, <2>10, <2>12, <2>13
<1>. QED
  BY <1>1, <1>2

\* What it is put back to.
LEMMA RestoredData ==
    ASSUME TypeInv, NEW q \in Query, NEW m \in Mutations, NEW l \in Lists, ContextOf(m),
           mutation[m].saved[l] # None
    PROVE  Restored(q, m, l).data = mutation[m].saved[l].data
<1>. DEFINE c == mutation[m]
            disturbed == \/ q.data # c.wrote[l].data \/ q.since # c.wrote[l].since
                         \/ q.own # c.wrote[l].own
                         \/ \E k \in c.at + 1 .. Len(log) : ~Pending(k)
            races == IF disturbed THEN {"rolled back"} ELSE {}
<1>1. PICK data \in Data : data = c.saved[l].data
  BY CallParts, QueryParts DEF ContextOf
<1>2. PICK r \in SUBSET Races : r = races
  BY DEF Races
<1>3. PICK p \in Query : p = Set(q, data, r)
  BY SetType
<1>4. p.data = data
  BY <1>3, SetData
<1>5. Restored(q, m, l) = [p EXCEPT !.own = p.own \ {m}]
  BY <1>1, <1>2, <1>3 DEF Restored
<1>6. Restored(q, m, l).data = p.data
  BY <1>5 DEF Query
<1>. QED
  BY <1>1, <1>4, <1>6

\* The answer to a change: what it finds to change, and what it makes of a list.
Answered(m) ==
    {f \in Given(mutation[m].patch) : mutation[m].answer[f] # mutation[m].patch[f]}
Reply(l, m) ==
    LET c == mutation[m]
    IN  Change(l, list[l].data, c.id, c.answer, Answered(m), c.answer)

\* A list after the answer to a change.
LEMMA UpdateSucceedsList ==
    ASSUME TypeInv, NEW m \in Mutations, UpdateSucceeds(m), NEW l \in Lists
    PROVE  /\ Follows(list'[l], list[l], {}) /\ list'[l].own = list[l].own
           /\ Calm(list'[l]) =>
                /\ l \notin mutation[m].stale /\ ~Reply(l, m).stale
                /\ list'[l].data = IF Reply(l, m).written THEN Reply(l, m).data ELSE list[l].data
                /\ Reply(l, m).written => ~Late(mutation[m].id, m)
<1>. DEFINE c == mutation[m]
            changed == {f \in Given(c.patch) : c.answer[f] # c.patch[f]}
            late == IF Late(c.id, m) THEN {"late answer"} ELSE {}
            o(q, k) == Change(k, q.data, c.id, c.answer, changed, c.answer)
            set(q, k) == IF o(q, k).written THEN Set(q, o(q, k).data, late) ELSE q
            reconciled(q, k) ==
                IF q.data = None THEN q
                ELSE IF o(q, k).stale THEN Invalidated(set(q, k), k) ELSE set(q, k)
            now == [k \in Lists |->
                IF k \in c.stale THEN Invalidated(reconciled(list[k], k), k)
                ELSE reconciled(list[k], k)]
<1>1. list' = now
  BY Zenon DEF UpdateSucceeds
<1>2. c.id \in Issues /\ c.answer \in Entity
  <2>1. c.kind = "update" /\ c.status = "done" /\ CallShape(c)
    BY CallSettles DEF UpdateSucceeds
  <2>. HIDE DEF c
  <2>. QED
    BY <2>1 DEF CallShape
<1>3. PICK q \in Query : q = list[l]
  BY ListParts
<1>4. o(q, l) = Reply(l, m)
  BY <1>3 DEF Reply, Answered
<1>5. PICK r \in SUBSET Races : r = late
  BY DEF Races
<1>6. q.data # None => Reply(l, m).data \in Data
  <2>1. c.answer \in Patches /\ c.answer \in Entity \cup {None}
    BY <1>2 DEF Patches
  <2>. QED
    BY <1>2, <1>3, <2>1, QueryParts, ChangeType DEF Reply
<1>7. PICK s : s = IF Reply(l, m).written THEN Set(q, Reply(l, m).data, r) ELSE q
  OBVIOUS
<1>8. PICK p : p = IF q.data = None THEN q
                   ELSE IF Reply(l, m).stale THEN Invalidated(s, l) ELSE s
  OBVIOUS
<1>9. list'[l] = IF l \in c.stale THEN Invalidated(p, l) ELSE p
  <2>1. set(q, l) = s
    BY <1>4, <1>5, <1>7
  <2>2. reconciled(q, l) = p
    <3>. HIDE DEF set
    <3>. QED
      BY <1>4, <1>8, <2>1
  <2>. HIDE DEF reconciled
  <2>. QED
    BY <1>1, <1>3, <2>2
<1>10. ASSUME q.data # None
       PROVE  /\ s \in Query /\ Follows(s, q, {}) /\ s.own = q.own
              /\ s.data = IF Reply(l, m).written THEN Reply(l, m).data ELSE q.data
              /\ Calm(s) /\ Reply(l, m).written => r = {}
  <2>1. CASE Reply(l, m).written
    <3>1. s = Set(q, Reply(l, m).data, r) /\ Reply(l, m).data \in Data
      BY <1>6, <1>7, <1>10, <2>1
    <3>2. s \in Query /\ Follows(s, q, {})
      BY <1>10, <3>1, SetType, FollowsSet
    <3>3. s.own = q.own
      BY <3>1, SetParts
    <3>4. s.data = Reply(l, m).data
      BY <3>1, SetData
    <3>5. r \subseteq s.races
      BY <3>1, SetRaces, Zenon
    <3>. QED
      BY <2>1, <3>2, <3>3, <3>4, <3>5 DEF Calm
  <2>2. CASE ~Reply(l, m).written
    BY <1>7, <2>2, FollowsOn
  <2>. QED
    BY <2>1, <2>2
<1>11. /\ p \in Query /\ Follows(p, q, {}) /\ p.own = q.own
       /\ Calm(p) => q.data # None /\ p = s /\ ~Reply(l, m).stale
  <2>1. CASE q.data = None
    BY <1>8, <2>1, FollowsOn DEF Calm
  <2>2. CASE q.data # None /\ Reply(l, m).stale
    <3>1. p = Invalidated(s, l) /\ s \in Query
      BY <1>8, <1>10, <2>2
    <3>2. p \in Query /\ Follows(p, s, {}) /\ ~Calm(p)
      BY <3>1, InvalidatedType, FollowsInvalidated
    <3>3. p.own = s.own
      BY <3>1, InvalidatedParts
    <3>. QED
      BY <1>10, <2>2, <3>2, <3>3, FollowsOn
  <2>3. CASE q.data # None /\ ~Reply(l, m).stale
    BY <1>8, <1>10, <2>3
  <2>. QED
    BY <2>1, <2>2, <2>3
<1>12. /\ Follows(list'[l], q, {}) /\ list'[l].own = q.own
       /\ Calm(list'[l]) => l \notin c.stale /\ list'[l] = p
  <2>1. CASE l \in c.stale
    <3>1. list'[l] = Invalidated(p, l)
      BY <1>9, <2>1
    <3>2. Follows(list'[l], p, {}) /\ ~Calm(list'[l])
      BY <1>11, <3>1, FollowsInvalidated
    <3>5. p \in Query
      BY <1>11
    <3>6. Invalidated(p, l).own = p.own
      BY <3>5, InvalidatedParts, Zenon
    <3>3. list'[l].own = p.own
      BY <3>1, <3>6
    <3>4. Follows(list'[l], q, {})
      BY <1>11, <3>2, FollowsOn
    <3>. QED
      BY <1>11, <2>1, <3>2, <3>3, <3>4
  <2>2. CASE l \notin c.stale
    BY <1>9, <1>11, <2>2
  <2>. QED
    BY <2>1, <2>2
<1>13. r = {} => ~Late(c.id, m)
  BY <1>5
<1>14. ASSUME Calm(list'[l])
       PROVE  /\ l \notin mutation[m].stale /\ ~Reply(l, m).stale
              /\ list'[l].data = IF Reply(l, m).written THEN Reply(l, m).data ELSE list[l].data
              /\ Reply(l, m).written => ~Late(mutation[m].id, m)
  <2>1. l \notin c.stale /\ list'[l] = p /\ p = s /\ ~Reply(l, m).stale /\ Calm(s) /\ q.data # None
    BY <1>11, <1>12, <1>14
  <2>. QED
    BY <1>3, <1>10, <1>13, <2>1
<1>. QED
  BY <1>3, <1>12, <1>14

\* A list after a call that has failed.
LEMMA FailsList ==
    ASSUME TypeInv, NEW m \in Mutations, ContextOf(m), UpdateFails(m) \/ DeleteFails(m),
           NEW l \in Lists
    PROVE  /\ Follows(list'[l], list[l], {})
           /\ Calm(list'[l]) =>
                /\ l \notin mutation[m].stale
                /\ mutation[m].saved[l] = None => list'[l] = list[l]
                /\ mutation[m].saved[l] # None =>
                     /\ list'[l].own = list[l].own \ {m}
                     /\ list'[l].data = mutation[m].saved[l].data
                     /\ Undisturbed(list[l], m, l)
<1>1. PICK q \in Query : q = list[l]
  BY ListParts
<1>2. PICK p \in Query : p = Restored(q, m, l)
  BY RestoredType DEF TypeInv, CallsInv
<1>3. /\ Follows(p, q, {})
      /\ mutation[m].saved[l] = None => p = q
      /\ mutation[m].saved[l] # None =>
           /\ p.own = q.own \ {m} /\ p.data = mutation[m].saved[l].data
           /\ Calm(p) => Undisturbed(q, m, l)
  <2>1. Follows(Restored(q, m, l), q, {})
    BY <1>1, RestoredParts
  <2>2. mutation[m].saved[l] = None => Restored(q, m, l) = q
    BY DEF Restored
  <2>3. mutation[m].saved[l] # None => Restored(q, m, l).own = q.own \ {m}
    BY <1>1, RestoredParts
  <2>4. mutation[m].saved[l] # None => Restored(q, m, l).data = mutation[m].saved[l].data
    BY <1>1, RestoredData
  <2>5. mutation[m].saved[l] # None /\ Calm(Restored(q, m, l)) => Undisturbed(q, m, l)
    BY <1>1, RestoredParts
  <2>. QED
    BY <1>2, <2>1, <2>2, <2>3, <2>4, <2>5, Zenon
<1>4. Follows(Invalidated(p, l), q, {}) /\ ~Calm(Invalidated(p, l))
  <2>1. Follows(Invalidated(p, l), p, {}) /\ ~Calm(Invalidated(p, l))
    BY FollowsInvalidated
  <2>. QED
    BY <1>3, <2>1, FollowsOn
<1>5. DeleteFails(m) => mutation[m].stale = {}
  <2>1. DeleteFails(m) => mutation[m].kind = "delete"
    BY DEF DeleteFails, Settle
  <2>. QED
    BY <2>1 DEF ContextOf
<1>6. list'[l] = p \/ list'[l] = Invalidated(p, l)
  BY <1>1, <1>2, Zenon DEF UpdateFails, DeleteFails
<1>7. l \in mutation[m].stale => list'[l] = Invalidated(p, l)
  BY <1>1, <1>2, <1>5 DEF UpdateFails, DeleteFails
<1>. QED
  BY <1>1, <1>3, <1>4, <1>6, <1>7

\* A list after a call to create or to delete.
LEMMA OthersSettleList ==
    ASSUME TypeInv, NEW m \in Mutations, CreateSettles(m) \/ DeleteSucceeds(m), NEW l \in Lists
    PROVE  /\ Follows(list'[l], list[l], {})
           /\ Calm(list'[l]) => CreateSettles(m) /\ list'[l] = list[l]
<1>1. list[l] \in Query /\ list \in [Lists -> Query]
  BY ListParts DEF TypeInv, ClientInv
<1>2. CASE DeleteSucceeds(m)
  <2>1. mutation[m].id \in Issues
    BY <1>2, CallSettles DEF DeleteSucceeds, CallShape
  <2>2. list'[l] = Pruned(list[l], l, mutation[m].id)
    BY <1>2 DEF DeleteSucceeds
  <2>. QED
    BY <1>1, <2>1, <2>2, PrunedFollows
<1>3. CASE CreateSettles(m) /\ l # Board
  <2>1. list'[l] = list[l]
    BY <1>1, <1>3 DEF CreateSettles
  <2>. QED
    BY <1>3, <2>1, FollowsOn
<1>4. CASE CreateSettles(m) /\ l = Board
  <2>1. PICK p : p = IF mutation[m].status = "done" /\ list[l].data # None
                     THEN Set(list[l], AddCard(list[l].data, mutation[m].id, mutation[m].answer), {})
                     ELSE list[l]
    OBVIOUS
  <2>2. list'[l] = Invalidated(p, l)
    BY <1>1, <1>4, <2>1 DEF CreateSettles
  <2>3. p \in Query /\ Follows(p, list[l], {})
    <3>1. CASE mutation[m].status = "done" /\ list[l].data # None
      <4>1. mutation[m].id \in Issues /\ mutation[m].answer \in Entity
        BY <1>4, <3>1, CallSettles DEF CreateSettles, CallShape
      <4>2. AddCard(list[l].data, mutation[m].id, mutation[m].answer) \in Data
        BY <1>1, <3>1, <4>1, QueryParts, AddCardType
      <4>3. {} \in SUBSET Races
        OBVIOUS
      <4>. QED
        BY <1>1, <2>1, <3>1, <4>2, <4>3, SetType, FollowsSet
    <3>2. CASE ~(mutation[m].status = "done" /\ list[l].data # None)
      BY <1>1, <2>1, <3>2, FollowsOn
    <3>. QED
      BY <3>1, <3>2
  <2>4. Follows(list'[l], p, {}) /\ ~Calm(list'[l])
    BY <2>2, <2>3, FollowsInvalidated
  <2>. QED
    BY <2>3, <2>4, FollowsOn
<1>. QED
  BY <1>2, <1>3, <1>4

-----------------------------------------------------------------------------
(* What is always so, step by step                                         *)

\* Who has begun, of the calls that nothing happens to.
LEMMA CallsKept ==
    ASSUME Base, TypeInv', Grows, Handled <= Handled', UNCHANGED mutation,
           \A n \in Len(log) + 1 .. Len(log') : log'[n].by = None
    PROVE  Ledger' /\ Contexts' /\ \A k \in Mutations : Started(k) => Started(k)'
<1>1. \A k \in Mutations : Started(k) => Started(k)'
  BY DEF Started
<1>2. ASSUME NEW m \in Mutations PROVE LedgerOf(m)'
  <2>1. m # None /\ TypeInv /\ LedgerOf(m)
    BY MutationsAssumption DEF Base, Ledger
  <2>. QED
    BY <2>1, LedgerKept
<1>3. ASSUME NEW m \in Mutations PROVE ContextOf(m)'
  <2>1. TypeInv /\ ContextOf(m)
    BY DEF Base, Contexts
  <2>. QED
    BY <1>1, <2>1, ContextKept
<1>. QED
  BY <1>1, <1>2, <1>3 DEF Ledger, Contexts

\* One call goes on, and the others do not.
LEMMA OneCallGoesOn ==
    ASSUME Base, TypeInv', Grows, Handled <= Handled', NEW m \in Mutations,
           \A k \in Mutations \ {m} : mutation'[k] = mutation[k],
           \A n \in Len(log) + 1 .. Len(log') : log'[n].by = m,
           Started(m) => Started(m)', LedgerOf(m)',
           (\A k \in Mutations : Started(k) => Started(k)') => ContextOf(m)'
    PROVE  Ledger' /\ Contexts' /\ \A k \in Mutations : Started(k) => Started(k)'
<1>1. \A k \in Mutations : Started(k) => Started(k)'
  BY DEF Started
<1>2. ASSUME NEW k \in Mutations \ {m} PROVE LedgerOf(k)' /\ ContextOf(k)'
  <2>1. TypeInv /\ LedgerOf(k) /\ ContextOf(k)
    BY DEF Base, Ledger, Contexts
  <2>2. LedgerOf(k)'
    BY <1>2, <2>1, LedgerKept
  <2>3. ContextOf(k)'
    BY <1>1, <1>2, <2>1, ContextKept
  <2>. QED
    BY <2>2, <2>3
<1>. QED
  BY <1>1, <1>2 DEF Ledger, Contexts

\* A commit leaves no more than one entry, by whoever made it.
LEMMA CommitParts ==
    ASSUME Base, TypeInv', NEW i \in Issues, NEW now \in Entity \cup {None},
           NEW by \in Mutations \cup {None}, Commit(i, now, by),
           Now[i] = None => now # None /\ \A k \in 1 .. Len(log) : log[k].id # i
    PROVE  /\ Grows /\ LogInv' /\ WireInv' /\ FramesExact' /\ Handled <= Handled'
           /\ log' = Append(log, [id |-> i, now |-> now, by |-> by])
           /\ \A n \in Len(log) + 1 .. Len(log') : log'[n].by = by
           /\ \A l \in Lists : Follows(list'[l], list[l], {})
<1>. DEFINE e == [id |-> i, now |-> now, by |-> by]
<1>1. TypeInv /\ LogInv /\ WireInv /\ FramesExact
  BY DEF Base
<1>2. e \in Entry /\ e.by = by
  BY DEF Entry
<1>3. log' = Append(log, e) /\ Publish(Len(log) + 1) /\ UNCHANGED socket
  BY DEF Commit
<1>4. LogInv' /\ Grows
  BY <1>1, <1>3, LogCommits
<1>5. WireInv' /\ FramesExact' /\ Handled <= Handled'
  <2>. HIDE DEF e
  <2>. QED
    BY <1>1, <1>2, <1>3, WireCommits
<1>6. \A n \in Len(log) + 1 .. Len(log') : log'[n].by = by
  <2>1. log \in Seq(Entry)
    BY <1>1, Lengths
  <2>. HIDE DEF e
  <2>. QED
    BY <1>2, <1>3, <2>1, Appended
<1>7. \A l \in Lists : Follows(list'[l], list[l], {})
  BY <1>1, CommitFollows
<1>. QED
  BY <1>3, <1>4, <1>5, <1>6, <1>7

\* A commit of others is about an issue that is there or never was.
LEMMA OthersCommit ==
    ASSUME TypeInv, Others
    PROVE  \E i \in Issues, now \in Entity \cup {None} :
             /\ Commit(i, now, None) /\ UNCHANGED mutation
             /\ Now[i] = None => now # None /\ \A k \in 1 .. Len(log) : log[k].id # i
<1>1. PICK i \in Issues : \/ \E e \in Drafts : OthersCreate(i, e)
                          \/ \E p \in OneField : OthersUpdate(i, p)
                          \/ OthersDelete(i)
  BY DEF Others
<1>2. CASE \E e \in Drafts : OthersCreate(i, e)
  BY <1>2, StartAssumption, NoneAssumption DEF OthersCreate, Unborn
<1>3. CASE \E p \in OneField : OthersUpdate(i, p)
  <2>1. PICK p \in OneField : OthersUpdate(i, p)
    BY <1>3
  <2>2. p \in Patches /\ Now[i] \in Entity
    BY <2>1, NowType DEF OneField, OthersUpdate, TypeInv
  <2>3. Merged(Now[i], p) \in Entity
    BY <2>2, Merging
  <2>. QED
    BY <2>1, <2>3, NoneAssumption DEF OthersUpdate
<1>4. CASE OthersDelete(i)
  BY <1>4 DEF OthersDelete
<1>. QED
  BY <1>1, <1>2, <1>3, <1>4

\* The commits of others.
LEMMA OthersBase == ASSUME Base, TypeInv', Others PROVE Base'
<1>1. TypeInv
  BY DEF Base
<1>2. PICK i \in Issues, now \in Entity \cup {None} :
        /\ Commit(i, now, None) /\ UNCHANGED mutation
        /\ Now[i] = None => now # None /\ \A k \in 1 .. Len(log) : log[k].id # i
  BY <1>1, OthersCommit
<1>3. /\ Grows /\ LogInv' /\ WireInv' /\ FramesExact' /\ Handled <= Handled'
      /\ \A n \in Len(log) + 1 .. Len(log') : log'[n].by = None
      /\ \A l \in Lists : Follows(list'[l], list[l], {})
  BY <1>2, CommitParts
<1>4. Ledger' /\ Contexts' /\ \A k \in Mutations : Started(k) => Started(k)'
  BY <1>2, <1>3, CallsKept
<1>5. Sights' /\ Reads'
  <2>1. Sights /\ Reads
    BY DEF Base
  <2>. QED
    BY <1>1, <1>3, <1>4, <2>1, ListsFollow
<1>. QED
  BY <1>3, <1>4, <1>5 DEF Base

\* What a step that changes neither the log nor a call has to keep.
LEMMA StillBase ==
    ASSUME Base, TypeInv', UNCHANGED <<log, mutation>>, WireInv', FramesExact', Handled <= Handled',
           (\A k \in Mutations : Started(k) => Started(k)') => Sights' /\ Reads'
    PROVE  Base'
<1>1. TypeInv /\ LogInv
  BY DEF Base
<1>2. log \in Seq(Entry) /\ Len(log) \in Nat
  BY <1>1, Lengths
<1>3. Grows /\ Len(log) + 1 .. Len(log') = {}
  BY <1>2, Ungrown
<1>4. LogInv'
  BY <1>1, LogKept
<1>5. Ledger' /\ Contexts' /\ \A k \in Mutations : Started(k) => Started(k)'
  BY <1>3, CallsKept
<1>. QED
  BY <1>4, <1>5 DEF Base

\* The same, of a step after which every list follows what it was.
LEMMA FollowingBase ==
    ASSUME Base, TypeInv', UNCHANGED <<log, mutation>>, WireInv', FramesExact', Handled <= Handled',
           \A l \in Lists : Follows(list'[l], list[l], {})
    PROVE  Base'
<1>1. TypeInv /\ Sights /\ Reads /\ Grows
  BY Lengths, Ungrown DEF Base
<1>2. (\A k \in Mutations : Started(k) => Started(k)') => Sights' /\ Reads'
  BY <1>1, ListsFollow
<1>. QED
  BY <1>2, StillBase

\* The connection.
LEMMA ConnectionBase == ASSUME Base, TypeInv', Connection PROVE Base'
<1>1. TypeInv /\ WireInv /\ FramesExact
  BY DEF Base
<1>2. /\ UNCHANGED <<log, mutation>>
      /\ Opens \/ ServerRegisters \/ Closes \/ ReconnectTimer \/ Disconnects \/ NewInstance
  BY DEF Connection, IsUp, Registers, Quietly, Drops, Retries, Leaves, Returns
<1>3. WireInv' /\ FramesExact' /\ Handled <= Handled'
  BY <1>1, <1>2, WireConnects
<1>4. \A l \in Lists : Follows(list'[l], list[l], {})
  BY <1>1, ConnectionFollows
<1>. QED
  BY <1>2, <1>3, <1>4, FollowingBase

\* The events.
LEMMA EventsBase == ASSUME Base, TypeInv', Events PROVE Base'
<1>1. TypeInv /\ WireInv /\ FramesExact
  BY DEF Base
<1>2. HandleFrame
  BY DEF Events, IssueCreated, IssueUpdated, IssueDeleted
<1>3. UNCHANGED <<log, mutation>>
  BY <1>2 DEF HandleFrame
<1>4. WireInv' /\ FramesExact' /\ Handled <= Handled'
  <2>1. WireInv' /\ FramesExact' /\ Handled' = Handled + 1 /\ Handled \in 0 .. Len(log)
    BY <1>1, <1>2, WireHandles, Lengths
  <2>2. Handled \in Int
    BY <2>1
  <2>. QED
    BY <2>1, <2>2
<1>5. \A l \in Lists : Follows(list'[l], list[l], {})
  BY <1>1, EventFollows
<1>. QED
  BY <1>3, <1>4, <1>5, FollowingBase

\* A list that is replaced alone.
LEMMA OneListReplaced ==
    ASSUME Base, TypeInv', UNCHANGED <<socketVars, log, mutation>>, NEW l \in Lists,
           \A k \in Lists \ {l} : list'[k] = list[k], SeenBy(l)', ReadOf(l)'
    PROVE  Base'
<1>1. TypeInv /\ WireInv /\ FramesExact /\ Sights /\ Reads
  BY DEF Base
<1>2. Grows /\ Handled \in Nat
  BY <1>1, Lengths, Ungrown
<1>3. WireInv' /\ FramesExact' /\ Handled' = Handled
  BY <1>1, WireQuiet
<1>4. ASSUME \A k \in Mutations : Started(k) => Started(k)', NEW k \in Lists \ {l}
      PROVE  SeenBy(k)' /\ ReadOf(k)'
  <2>1. SeenBy(k) /\ ReadOf(k)
    BY <1>1 DEF Sights, Reads
  <2>2. SeenBy(k)'
    BY <1>1, <1>2, <1>4, <2>1, SightKept
  <2>3. ReadOf(k)'
    BY <1>1, <1>2, <2>1, ReadKept
  <2>. QED
    BY <2>2, <2>3
<1>5. (\A k \in Mutations : Started(k) => Started(k)') => Sights' /\ Reads'
  BY <1>4 DEF Sights, Reads
<1>6. Handled <= Handled'
  BY <1>2, <1>3
<1>. QED
  BY <1>3, <1>5, <1>6, StillBase

\* A page is read.
LEMMA ReadPageBase ==
    ASSUME Base, TypeInv', NEW l \in Lists, NEW s \in Statuses, ReadPage(l, s)
    PROVE  Base'
<1>1. TypeInv /\ Sights /\ Reads
  BY DEF Base
<1>2. list[l] \in Query /\ list \in [Lists -> Query] /\ list[l].fetch # None
  BY <1>1, ListParts DEF TypeInv, ClientInv, ReadPage
<1>3. PICK f : f = list[l].fetch
  OBVIOUS
<1>4. f \in Fetch /\ f.pages \in [Statuses -> Bucket \cup {None}] /\ f.first \in Nat /\ f.last \in Nat
  <2>1. f \in Fetch
    BY <1>2, <1>3, QueryParts
  <2>. QED
    BY <2>1, BoundAssumption DEF Fetch, Commits
<1>5. PICK g : g = [pages |-> [f.pages EXCEPT ![s] = Page(Now, l, s, 0)],
                    first |-> IF f = NoPages THEN Len(log) ELSE f.first, last |-> Len(log)]
  OBVIOUS
<1>6. PICK q : q = [list[l] EXCEPT !.fetch = g]
  OBVIOUS
<1>7. /\ UNCHANGED <<socketVars, log, mutation>>
      /\ list'[l] = q /\ \A k \in Lists \ {l} : list'[k] = list[k]
  BY <1>2, <1>3, <1>5, <1>6 DEF ReadPage
<1>8. q.fetch = g /\ q.since = list[l].since /\ q.own = list[l].own
  BY <1>2, <1>6 DEF Query
<1>9. Grows /\ Len(log) \in Nat
  BY <1>1, <1>7, Lengths, Ungrown
<1>10. SeenBy(l)'
  <2>1. \A k \in Mutations : Started(k) => Started(k)'
    BY <1>7 DEF Started
  <2>2. SeenBy(l) /\ {} \in SUBSET Mutations
    BY <1>1 DEF Sights
  <2>3. list'[l].since = list[l].since /\ list'[l].own \subseteq list[l].own \cup {}
    BY <1>7, <1>8
  <2>. QED
    BY <1>1, <1>9, <2>1, <2>2, <2>3, SightKept
<1>11. f.first <= f.last /\ f.last <= Len(log)
  BY <1>1, <1>2, <1>3 DEF Reads, ReadOf
<1>12. /\ g.first <= g.last /\ g.last = Len(log) /\ g.first \in Nat
       /\ g.pages = [f.pages EXCEPT ![s] = Page(Now, l, s, 0)]
       /\ f # NoPages => g.first = f.first
  BY <1>4, <1>5, <1>9, <1>11
<1>13. ASSUME NEW r \in Statuses, g.pages[r] # None
       PROVE  \E k \in g.first .. g.last : g.pages[r] = Page(StateAt(k), l, r, 0)
  <2>1. CASE r = s
    <3>1. g.pages[r] = Page(StateAt(Len(log)), l, r, 0)
      BY <1>4, <1>12, <2>1 DEF Now
    <3>2. Len(log) \in g.first .. g.last
      BY <1>9, <1>12
    <3>. QED
      BY <3>1, <3>2
  <2>2. CASE r # s
    <3>1. g.pages[r] = f.pages[r]
      BY <1>4, <1>12, <2>2
    <3>2. f # NoPages
      BY <1>13, <3>1 DEF NoPages
    <3>3. PICK k \in f.first .. f.last : f.pages[r] = Page(StateAt(k), l, r, 0)
      BY <1>1, <1>2, <1>3, <1>13, <3>1 DEF Reads, ReadOf
    <3>4. k \in g.first .. g.last
      BY <1>4, <1>9, <1>11, <1>12, <3>2
    <3>. QED
      BY <3>1, <3>3, <3>4
  <2>. QED
    BY <2>1, <2>2
<1>14. log' = log
  BY <1>7
<1>15. \A k : StateAt(k)' = StateAt(k)
  BY <1>14 DEF StateAt
<1>16. ReadOf(l)'
  <2>1. list'[l].fetch = g
    BY <1>7, <1>8
  <2>2. ASSUME NEW r \in Statuses, g.pages[r] # None
        PROVE  \E k \in g.first .. g.last : g.pages[r] = Page(StateAt(k)', l, r, 0)
    <3>1. PICK k \in g.first .. g.last : g.pages[r] = Page(StateAt(k), l, r, 0)
      BY <1>13, <2>2
    <3>2. StateAt(k)' = StateAt(k)
      BY <1>15
    <3>. QED
      BY <3>1, <3>2
  <2>3. g.first <= g.last /\ g.last <= Len(log')
    BY <1>9, <1>12, <1>14
  <2>. QED
    BY <2>1, <2>2, <2>3 DEF ReadOf
<1>. QED
  BY <1>7, <1>10, <1>16, OneListReplaced

\* A load is complete.
LEMMA LoadedBase == ASSUME Base, TypeInv', NEW l \in Lists, Loaded(l) PROVE Base'
<1>1. TypeInv /\ Reads
  BY DEF Base
<1>2. list \in [Lists -> Query] /\ list[l].fetch # None
  BY <1>1 DEF TypeInv, ClientInv, Loaded
<1>3. PICK f : f = list[l].fetch
  OBVIOUS
<1>4. f.first <= f.last /\ f.last <= Len(log) /\ f.first \in Nat /\ f.last \in Nat /\ Len(log) \in Nat
  <2>1. f \in Fetch
    BY <1>1, <1>2, <1>3, QueryParts
  <2>. QED
    BY <1>1, <1>2, <1>3, <2>1, BoundAssumption, Lengths DEF Reads, ReadOf, Fetch, Commits
<1>5. /\ UNCHANGED <<socketVars, log, mutation>> /\ \A k \in Lists \ {l} : list'[k] = list[k]
      /\ list'[l].fetch = None /\ list'[l].since = f.first /\ list'[l].own = {}
  BY <1>2, <1>3 DEF Loaded
<1>6. SeenBy(l)' /\ ReadOf(l)'
  BY <1>4, <1>5 DEF SeenBy, ReadOf
<1>. QED
  BY <1>5, <1>6, OneListReplaced

\* The loads.
LEMMA LoadsBase == ASSUME Base, TypeInv', Loads PROVE Base'
<1>1. TypeInv /\ WireInv /\ FramesExact
  BY DEF Base
<1>2. ASSUME NEW l \in Lists, View(l) \/ LoadFails(l) PROVE Base'
  <2>1. \A k \in Lists : Follows(list'[k], list[k], {})
    BY <1>1, <1>2, LoadFollows
  <2>2. UNCHANGED <<socketVars, log, mutation>>
    BY <1>2 DEF View, LoadFails
  <2>3. WireInv' /\ FramesExact' /\ Handled <= Handled'
    <3>1. Handled \in Nat
      BY <1>1, Lengths
    <3>. QED
      BY <1>1, <2>2, <3>1, WireQuiet
  <2>. QED
    BY <2>1, <2>2, <2>3, FollowingBase
<1>3. ASSUME NEW i \in Issues, AskDetail(i) \/ DetailArrives(i) PROVE Base'
  <2>1. UNCHANGED <<socketVars, log, mutation, list>>
    BY <1>3 DEF AskDetail, DetailArrives
  <2>2. \A k \in Lists : Follows(list'[k], list[k], {})
    BY <2>1, FollowsOn
  <2>3. WireInv' /\ FramesExact' /\ Handled <= Handled'
    <3>1. Handled \in Nat
      BY <1>1, Lengths
    <3>. QED
      BY <1>1, <2>1, <3>1, WireQuiet
  <2>. QED
    BY <2>1, <2>2, <2>3, FollowingBase
<1>. QED
  BY <1>2, <1>3, ReadPageBase, LoadedBase DEF Loads

\* What is left to show of a call that goes on without a commit.
LEMMA CallBase ==
    ASSUME Base, TypeInv', UNCHANGED <<socketVars, log>>, NEW m \in Mutations,
           \A k \in Mutations \ {m} : mutation'[k] = mutation[k],
           Started(m) => Started(m)', LedgerOf(m)',
           (\A k \in Mutations : Started(k) => Started(k)') => ContextOf(m)',
           NEW new \in SUBSET Mutations, \A k \in new : Started(k)' /\ Of(k) = {},
           \A l \in Lists : Follows(list'[l], list[l], new)
    PROVE  Base'
<1>1. TypeInv /\ WireInv /\ FramesExact /\ LogInv /\ Sights /\ Reads
  BY DEF Base
<1>2. log \in Seq(Entry) /\ Len(log) \in Nat /\ Handled \in Nat
  BY <1>1, Lengths
<1>3. Grows /\ Len(log) + 1 .. Len(log') = {}
  BY <1>2, Ungrown
<1>4. LogInv' /\ WireInv' /\ FramesExact' /\ Handled' = Handled
  BY <1>1, LogKept, WireQuiet
<1>5. Handled <= Handled'
  BY <1>2, <1>4
<1>6. Ledger' /\ Contexts' /\ \A k \in Mutations : Started(k) => Started(k)'
  BY <1>3, <1>5, OneCallGoesOn
<1>7. \A k \in new : Started(k)' /\ Of(k)' = {}
  BY DEF Of
<1>8. Sights' /\ Reads'
  BY <1>1, <1>3, <1>6, <1>7, ListsFollow
<1>. QED
  BY <1>4, <1>6, <1>8 DEF Base

\* A change of the user begins.
LEMMA StartUpdateBase ==
    ASSUME Base, TypeInv', NEW m \in Mutations, NEW i \in Issues, NEW patch \in Patches,
           StartUpdate(m, i, patch)
    PROVE  Base'
<1>1. TypeInv /\ LedgerOf(m) /\ Sights
  BY DEF Base, Ledger
<1>2. /\ UNCHANGED <<socketVars, log, viewed>> /\ mutation[m].kind = "none"
      /\ \A k \in Mutations \ {m} : mutation'[k] = mutation[k]
      /\ mutation'[m].kind = "update" /\ mutation'[m].status = "sent"
      /\ mutation'[m].id = i /\ mutation'[m].patch = patch /\ mutation'[m].at = Handled
  BY <1>1, StartUpdateCall
<1>3. Of(m) = {}
  BY <1>1, <1>2 DEF LedgerOf
<1>4. Started(m)'
  BY <1>2 DEF Started
<1>5. LedgerOf(m)'
  BY <1>1, <1>2, <1>3, LedgerBegins
<1>6. \A l \in Lists : Follows(list'[l], list[l], {m})
  BY <1>1, StartUpdateList
<1>7. ASSUME \A k \in Mutations : Started(k) => Started(k)' PROVE ContextOf(m)'
  <2>1. mutation'[m].at <= Handled'
    <3>1. Handled \in Nat /\ Handled' = Handled
      BY <1>1, <1>2, Lengths DEF Handled, socketVars
    <3>. QED
      BY <1>2, <3>1
  <2>2. ASSUME NEW l \in Lists, mutation'[m].saved[l] # None
        PROVE  /\ mutation'[m].wrote[l] # None /\ mutation'[m].wrote[l].data # None
               /\ m \in mutation'[m].wrote[l].own /\ mutation'[m].saved[l].data # None
               /\ \A k \in mutation'[m].wrote[l].own : Started(k)'
    <3>1. Edits(l, i, patch) /\ mutation'[m].saved[l] = list[l] /\ mutation'[m].wrote[l] = list'[l]
      BY <1>1, <2>2, StartUpdateSaved
    <3>2. list[l].data # None /\ list[l].data \in Data /\ list[l].own \in SUBSET Mutations
      BY <1>1, <3>1, ListParts DEF Edits
    <3>3. list'[l] \in Query
      BY DEF TypeInv, ClientInv
    <3>4. list'[l].own = list[l].own \cup {m} /\ list'[l].data = Edit(l, i, patch).data
      BY <1>1, <3>1, StartUpdateList
    <3>5. Edit(l, i, patch).data \in Data
      BY <1>1, <3>2, ChangeType DEF Edit, TypeInv, ClientInv
    <3>6. list'[l].data # None /\ list'[l] # None
      BY <3>3, <3>4, <3>5, QueryAssumption
    <3>7. \A k \in list[l].own : Started(k)
      BY <1>1 DEF Sights, SeenBy
    <3>. QED
      BY <1>4, <1>7, <3>1, <3>2, <3>4, <3>6, <3>7
  <2>. QED
    BY <1>2, <2>1, <2>2 DEF ContextOf
<1>8. {m} \in SUBSET Mutations /\ \A k \in {m} : Started(k)' /\ Of(k) = {}
  BY <1>3, <1>4
<1>. QED
  BY <1>2, <1>4, <1>5, <1>6, <1>7, <1>8, CallBase

\* A deletion of the user begins.
LEMMA StartDeleteBase ==
    ASSUME Base, TypeInv', NEW m \in Mutations, NEW i \in Issues, StartDelete(m, i)
    PROVE  Base'
<1>1. TypeInv /\ LedgerOf(m) /\ Sights
  BY DEF Base, Ledger
<1>2. /\ UNCHANGED <<socketVars, log, viewed>> /\ mutation[m].kind = "none"
      /\ \A k \in Mutations \ {m} : mutation'[k] = mutation[k]
      /\ mutation'[m].kind = "delete" /\ mutation'[m].status = "sent"
      /\ mutation'[m].id = i /\ mutation'[m].at = Handled /\ mutation'[m].stale = {}
      /\ \A l \in Lists :
            /\ list[l].data # None => /\ mutation'[m].saved[l] = list[l]
                                      /\ mutation'[m].wrote[l] = list'[l]
            /\ list[l].data = None => /\ mutation'[m].saved[l] = None
                                      /\ mutation'[m].wrote[l] = None
  BY <1>1, StartDeleteCall
<1>3. Of(m) = {}
  BY <1>1, <1>2 DEF LedgerOf
<1>4. Started(m)'
  BY <1>2 DEF Started
<1>5. LedgerOf(m)'
  BY <1>1, <1>2, <1>3, LedgerBegins
<1>6. \A l \in Lists : Follows(list'[l], list[l], {m})
  BY <1>1, StartDeleteList
<1>7. ASSUME \A k \in Mutations : Started(k) => Started(k)' PROVE ContextOf(m)'
  <2>1. mutation'[m].at <= Handled'
    <3>1. Handled \in Nat /\ Handled' = Handled
      BY <1>1, <1>2, Lengths DEF Handled, socketVars
    <3>. QED
      BY <1>2, <3>1
  <2>2. ASSUME NEW l \in Lists, mutation'[m].saved[l] # None
        PROVE  /\ mutation'[m].wrote[l] # None /\ mutation'[m].wrote[l].data # None
               /\ m \in mutation'[m].wrote[l].own /\ mutation'[m].saved[l].data # None
               /\ \A k \in mutation'[m].wrote[l].own : Started(k)'
    <3>1. list[l].data # None /\ mutation'[m].saved[l] = list[l] /\ mutation'[m].wrote[l] = list'[l]
      BY <1>2, <2>2
    <3>2. list[l].data # None /\ list[l].data \in Data /\ list[l].own \in SUBSET Mutations
      BY <1>1, <3>1, ListParts
    <3>3. list'[l] \in Query
      BY DEF TypeInv, ClientInv
    <3>4. list'[l].own = list[l].own \cup {m} /\ list'[l].data = RemoveCard(list[l].data, i)
      BY <1>1, <3>1, StartDeleteList
    <3>5. RemoveCard(list[l].data, i) \in Data
      BY <3>2, RemoveCardType
    <3>6. list'[l].data # None /\ list'[l] # None
      BY <3>3, <3>4, <3>5, QueryAssumption
    <3>7. \A k \in list[l].own : Started(k)
      BY <1>1 DEF Sights, SeenBy
    <3>. QED
      BY <1>4, <1>7, <3>1, <3>2, <3>4, <3>6, <3>7
  <2>. QED
    BY <1>2, <2>1, <2>2 DEF ContextOf
<1>8. {m} \in SUBSET Mutations /\ \A k \in {m} : Started(k)' /\ Of(k) = {}
  BY <1>3, <1>4
<1>. QED
  BY <1>2, <1>4, <1>5, <1>6, <1>7, <1>8, CallBase

\* A creation begins.
LEMMA StartCreateBase ==
    ASSUME Base, TypeInv', NEW m \in Mutations, NEW e \in Drafts, StartCreate(m, e)
    PROVE  Base'
<1>1. TypeInv /\ LedgerOf(m) /\ mutation \in [Mutations -> Call]
  BY DEF Base, Ledger, TypeInv, CallsInv
<1>2. PICK c : c = [NoCall EXCEPT !.kind = "create", !.answer = e]
  OBVIOUS
<1>3. c.kind = "create" /\ c.status = "sent" /\ c.stale = {} /\ \A l \in Lists : c.saved[l] = None
  BY <1>2 DEF NoCall
<1>4. /\ UNCHANGED <<socketVars, log, list>> /\ mutation[m].kind = "none"
      /\ mutation'[m] = c /\ \A k \in Mutations \ {m} : mutation'[k] = mutation[k]
  BY <1>1, <1>2 DEF StartCreate, Begin
<1>5. Of(m) = {}
  BY <1>1, <1>4 DEF LedgerOf
<1>6. LedgerOf(m)'
  BY <1>1, <1>3, <1>4, <1>5, LedgerBegins
<1>7. ~Started(m) /\ ContextOf(m)'
  BY <1>3, <1>4 DEF Started, ContextOf
<1>8. \A l \in Lists : Follows(list'[l], list[l], {})
  BY <1>4, FollowsOn
<1>. QED
  BY <1>4, <1>6, <1>7, <1>8, CallBase

\* A call that is refused.
LEMMA RefusedBase ==
    ASSUME Base, TypeInv', NEW m \in Mutations, ServerRefuses(m) \/ RequestFails(m)
    PROVE  Base'
<1>1. TypeInv /\ LedgerOf(m) /\ ContextOf(m) /\ mutation \in [Mutations -> Call]
  BY DEF Base, Ledger, Contexts, TypeInv, CallsInv
<1>2. PICK c : c = mutation[m]
  OBVIOUS
<1>3. PICK d : d = [c EXCEPT !.status = "refused"]
  OBVIOUS
<1>4. /\ d.kind = c.kind /\ d.id = c.id /\ d.patch = c.patch /\ d.answer = c.answer
      /\ d.stale = c.stale /\ d.at = c.at /\ d.saved = c.saved /\ d.wrote = c.wrote
      /\ d.status = "refused"
  BY <1>1, <1>2, <1>3 DEF Call
<1>5. /\ UNCHANGED <<socketVars, log, list>>
      /\ mutation'[m] = d /\ \A k \in Mutations \ {m} : mutation'[k] = mutation[k]
  BY <1>1, <1>2, <1>3 DEF ServerRefuses, RequestFails, Refused, client
<1>6. Grows /\ Len(log) \in Nat /\ Handled \in Nat
  BY <1>1, <1>5, Lengths, Ungrown
<1>7. Len(log) + 1 .. Len(log') = {} /\ Handled <= Handled'
  BY <1>5, <1>6 DEF Handled, socketVars
<1>8. LedgerOf(m)'
  BY <1>1, <1>2, <1>4, <1>5, <1>6, <1>7, LedgerKept
<1>9. Started(m) => Started(m)'
  BY <1>2, <1>4, <1>5 DEF Started
<1>10. (\A k \in Mutations : Started(k) => Started(k)') => ContextOf(m)'
  BY <1>1, <1>2, <1>4, <1>5, <1>7, ContextKept
<1>11. \A l \in Lists : Follows(list'[l], list[l], {})
  BY <1>5, FollowsOn
<1>. QED
  BY <1>5, <1>8, <1>9, <1>10, <1>11, CallBase

\* A call that settles.
LEMMA SettledBase ==
    ASSUME Base, TypeInv', NEW m \in Mutations,
           UpdateSucceeds(m) \/ UpdateFails(m) \/ CreateSettles(m) \/ DeleteSucceeds(m) \/ DeleteFails(m)
    PROVE  Base'
<1>1. TypeInv /\ LedgerOf(m) /\ ContextOf(m) /\ mutation \in [Mutations -> Call]
  BY DEF Base, Ledger, Contexts, TypeInv, CallsInv
<1>2. /\ UNCHANGED <<socketVars, log>>
      /\ mutation'[m] = Over /\ \A k \in Mutations \ {m} : mutation'[k] = mutation[k]
  BY <1>1 DEF UpdateSucceeds, UpdateFails, CreateSettles, DeleteSucceeds, DeleteFails, Settle
<1>3. LedgerOf(m)' /\ ContextOf(m)'
  BY <1>1, <1>2, LedgerEnds, ContextEnds
<1>4. Started(m)'
  BY <1>2 DEF Started, Over, NoCall
<1>5. \A l \in Lists : Follows(list'[l], list[l], {})
  BY <1>1, UpdateSucceedsList, FailsList, OthersSettleList
<1>. QED
  BY <1>2, <1>3, <1>4, <1>5, CallBase

\* What is left to show of a call that the server does.
LEMMA DoneBase ==
    ASSUME Base, TypeInv', NEW m \in Mutations, NEW i \in Issues, NEW now \in Entity \cup {None},
           Commit(i, now, m), Done(m, i, now), mutation[m].status = "sent",
           mutation[m].kind \in {"update", "create", "delete"},
           Now[i] = None => now # None /\ \A k \in 1 .. Len(log) : log[k].id # i,
           mutation[m].kind = "update" => Now[i] # None /\ now = Merged(Now[i], mutation[m].patch),
           mutation[m].kind = "delete" => now = None
    PROVE  Base'
<1>1. TypeInv /\ LedgerOf(m) /\ ContextOf(m) /\ mutation \in [Mutations -> Call] /\ Sights /\ Reads
  BY DEF Base, Ledger, Contexts, TypeInv, CallsInv
<1>2. PICK c : c = mutation[m]
  OBVIOUS
<1>3. PICK d : d = [c EXCEPT !.status = "done", !.id = i, !.answer = now]
  OBVIOUS
<1>4. /\ d.kind = c.kind /\ d.patch = c.patch
      /\ d.stale = c.stale /\ d.at = c.at /\ d.saved = c.saved /\ d.wrote = c.wrote
      /\ d.status = "done" /\ d.id = i /\ d.answer = now
  BY <1>1, <1>2, <1>3 DEF Call
<1>5. mutation'[m] = d /\ \A k \in Mutations \ {m} : mutation'[k] = mutation[k]
  BY <1>1, <1>2, <1>3 DEF Done
<1>6. /\ Grows /\ LogInv' /\ WireInv' /\ FramesExact' /\ Handled <= Handled'
      /\ log' = Append(log, [id |-> i, now |-> now, by |-> m])
      /\ \A n \in Len(log) + 1 .. Len(log') : log'[n].by = m
      /\ \A l \in Lists : Follows(list'[l], list[l], {})
  BY CommitParts
<1>7. Of(m) = {}
  BY <1>1 DEF LedgerOf
<1>8. LedgerOf(m)'
  BY <1>1, <1>2, <1>4, <1>5, <1>6, <1>7, LedgerDone
<1>9. Started(m) => Started(m)'
  BY <1>2, <1>4, <1>5 DEF Started
<1>10. (\A k \in Mutations : Started(k) => Started(k)') => ContextOf(m)'
  BY <1>1, <1>2, <1>4, <1>5, <1>6, ContextKept
<1>11. Ledger' /\ Contexts' /\ \A k \in Mutations : Started(k) => Started(k)'
  BY <1>5, <1>6, <1>8, <1>9, <1>10, OneCallGoesOn
<1>12. Sights' /\ Reads'
  <2>1. {} \in SUBSET Mutations /\ \A k \in {} : Started(k)' /\ Of(k)' = {}
    OBVIOUS
  <2>2. TypeInv /\ Sights /\ Reads
    BY <1>1
  <2>. QED
    BY <1>6, <1>11, <2>1, <2>2, ListsFollow
<1>. QED
  BY <1>6, <1>11, <1>12 DEF Base

\* What the server does with a call.
ServerDoes(m, i, now) ==
    /\ Commit(i, now, m) /\ Done(m, i, now)
    /\ mutation[m].status = "sent" /\ mutation[m].kind \in {"update", "create", "delete"}
    /\ Now[i] = None => now # None /\ \A k \in 1 .. Len(log) : log[k].id # i
    /\ mutation[m].kind = "update" => Now[i] # None /\ now = Merged(Now[i], mutation[m].patch)
    /\ mutation[m].kind = "delete" => now = None
    /\ mutation[m].kind # "create" => mutation[m].id = i

\* The server does what a call asks for.
LEMMA ServerDoing ==
    ASSUME TypeInv, NEW m \in Mutations,
           \/ ServerUpdates(m) \/ ServerDeletes(m) \/ \E i \in Issues : ServerCreates(m, i)
    PROVE  \E i \in Issues, now \in Entity \cup {None} : ServerDoes(m, i, now)
<1>1. TypeInv /\ CallShape(mutation[m]) /\ mutation[m].status = "sent"
  BY DEF TypeInv, CallsInv, ServerUpdates, ServerDeletes, ServerCreates, Sent
<1>2. Now \in [Issues -> Entity \cup {None}]
  BY <1>1, NowType DEF TypeInv
<1>3. CASE ServerUpdates(m)
  <2>1. mutation[m].id \in Issues /\ mutation[m].patch \in Patches /\ mutation[m].kind = "update"
    BY <1>1, <1>3 DEF ServerUpdates, Sent, CallShape
  <2>2. PICK i \in Issues : i = mutation[m].id
    BY <2>1
  <2>3. Now[i] \in Entity /\ Now[i] # None
    BY <1>2, <1>3, <2>2 DEF ServerUpdates
  <2>4. PICK now \in Entity : now = Merged(Now[i], mutation[m].patch)
    BY <2>1, <2>3, Merging
  <2>5. Commit(i, now, m) /\ Done(m, i, now)
    BY <1>3, <2>2, <2>4 DEF ServerUpdates
  <2>. QED
    BY <1>1, <2>1, <2>2, <2>3, <2>4, <2>5 DEF ServerDoes
<1>4. CASE ServerDeletes(m)
  <2>1. mutation[m].id \in Issues /\ mutation[m].kind = "delete"
    BY <1>1, <1>4 DEF ServerDeletes, Sent, CallShape
  <2>2. PICK i \in Issues : i = mutation[m].id
    BY <2>1
  <2>3. Commit(i, None, m) /\ Done(m, i, None) /\ Now[i] # None
    BY <1>4, <2>2 DEF ServerDeletes
  <2>. QED
    BY <1>1, <2>1, <2>2, <2>3 DEF ServerDoes
<1>5. ASSUME NEW i \in Issues, ServerCreates(m, i) PROVE \E now \in Entity \cup {None} : ServerDoes(m, i, now)
  <2>1. mutation[m].answer \in Entity /\ mutation[m].kind = "create"
    BY <1>1, <1>5 DEF ServerCreates, Sent, CallShape
  <2>2. PICK now \in Entity : now = mutation[m].answer
    BY <2>1
  <2>3. Commit(i, now, m) /\ Done(m, i, now) /\ now # None
    BY <1>5, <2>2, NoneAssumption DEF ServerCreates
  <2>4. \A k \in 1 .. Len(log) : log[k].id # i
    BY <1>5 DEF ServerCreates, Unborn
  <2>. QED
    BY <1>1, <2>1, <2>3, <2>4 DEF ServerDoes
<1>. QED
  BY <1>3, <1>4, <1>5

\* The same, of what is always so.
LEMMA ServerBase ==
    ASSUME Base, TypeInv', NEW m \in Mutations,
           \/ ServerUpdates(m) \/ ServerDeletes(m) \/ \E i \in Issues : ServerCreates(m, i)
    PROVE  Base'
<1>1. PICK i \in Issues, now \in Entity \cup {None} : ServerDoes(m, i, now)
  BY ServerDoing DEF Base
<1>. QED
  BY <1>1, DoneBase DEF ServerDoes

\* The calls of the user.
LEMMA CallsBase == ASSUME Base, TypeInv', Calls PROVE Base'
<1>1. PICK m \in Mutations :
        \/ \E i \in Issues : \/ \E p \in OneField : StartUpdate(m, i, p)
                             \/ StartDelete(m, i)
                             \/ ServerCreates(m, i)
        \/ \E e \in Drafts : StartCreate(m, e)
        \/ ServerUpdates(m) \/ ServerDeletes(m) \/ ServerRefuses(m) \/ RequestFails(m)
        \/ UpdateSucceeds(m) \/ UpdateFails(m) \/ CreateSettles(m)
        \/ DeleteSucceeds(m) \/ DeleteFails(m)
  BY DEF Calls
<1>2. CASE \E i \in Issues : \E p \in OneField : StartUpdate(m, i, p)
  BY <1>2, StartUpdateBase DEF OneField
<1>3. CASE \E i \in Issues : StartDelete(m, i)
  BY <1>3, StartDeleteBase
<1>4. CASE \E e \in Drafts : StartCreate(m, e)
  BY <1>4, StartCreateBase
<1>5. CASE ServerUpdates(m) \/ ServerDeletes(m) \/ \E i \in Issues : ServerCreates(m, i)
  BY <1>5, ServerBase
<1>6. CASE ServerRefuses(m) \/ RequestFails(m)
  BY <1>6, RefusedBase
<1>7. CASE UpdateSucceeds(m) \/ UpdateFails(m) \/ CreateSettles(m) \/ DeleteSucceeds(m) \/ DeleteFails(m)
  BY <1>7, SettledBase
<1>. QED
  BY <1>1, <1>2, <1>3, <1>4, <1>5, <1>6, <1>7

\* It is so at the start.
LEMMA BaseInit == ASSUME Init PROVE Base
<1>1. TypeInv
  BY TypeInit
<1>2. Len(log) = 0 /\ Len(frames) = 0 /\ 1 .. 0 = {}
  BY EmptySeq DEF Init, SocketInit
<1>3. WireInv /\ FramesExact /\ LogInv
  BY <1>2 DEF Init, SocketInit, WireInv, FramesExact, LogInv
<1>4. NoCall.kind = "none" /\ NoCall.stale = {} /\ \A l \in Lists : NoCall.saved[l] = None
  BY DEF NoCall
<1>5. Ledger
  BY <1>2, <1>4 DEF Init, Ledger, LedgerOf, Of
<1>6. Contexts
  BY <1>4 DEF Init, Contexts, ContextOf
<1>7. Unloaded.since = 0 /\ Unloaded.own = {} /\ Unloaded.fetch = None
  BY DEF Unloaded
<1>8. Sights /\ Reads
  BY <1>2, <1>7 DEF Init, Sights, SeenBy, Reads, ReadOf
<1>. QED
  BY <1>1, <1>3, <1>5, <1>6, <1>8 DEF Base

\* And every step keeps it.
LEMMA BaseStep == ASSUME Base, [Next]_vars PROVE Base'
<1>1. TypeInv /\ TypeInv'
  BY TypeStep DEF Base
<1>2. CASE Next
  BY <1>1, <1>2, ConnectionBase, EventsBase, LoadsBase, OthersBase, CallsBase DEF Next
<1>3. CASE UNCHANGED vars
  <2>1. UNCHANGED <<socketVars, log, mutation, list>>
    BY <1>3 DEF vars, client
  <2>2. \A l \in Lists : Follows(list'[l], list[l], {})
    BY <2>1, FollowsOn
  <2>3. WireInv' /\ FramesExact' /\ Handled <= Handled'
    <3>1. Handled \in Nat
      BY <1>1, Lengths
    <3>. QED
      BY <2>1, <3>1, WireQuiet DEF Base
  <2>. QED
    BY <1>1, <2>1, <2>2, <2>3, FollowingBase
<1>. QED
  BY <1>2, <1>3

-----------------------------------------------------------------------------
(* What a list that is right holds: each issue has a place or none, a      *)
(* total counts the issues of its place, and a card is in its issue's one  *)

Counted(P, s) == {i \in Issues : P[i] = s}

Fits(data, P) ==
    /\ \A s \in Statuses : data[s].total = Cardinality(Counted(P, s))
    /\ \A s \in Statuses : \A c \in data[s].cards : P[c.id] = s /\ c.status = s
    /\ \A s \in Statuses : \A c, d \in data[s].cards : c.id = d.id => c = d

Column == Statuses \cup {None}
Columns == [Issues -> Column]

\* The copy of an issue in a list, if it has one.
Seen(data, i) == IF Shows(data, i) THEN Copy(data, i) ELSE None

\* One issue is in another place, with another copy, and no other is.
Turns(after, data, i, P, p, copy) ==
    /\ Fits(after, [P EXCEPT ![i] = p])
    /\ Seen(after, i) = copy
    /\ \A j \in Issues \ {i} : Seen(after, j) = Seen(data, j)

\* Counting the issues of a place when one issue moves.
LEMMA Recounted ==
    ASSUME NEW P \in Columns, NEW i \in Issues, NEW p \in Column, NEW s \in Statuses
    PROVE  LET Q == [P EXCEPT ![i] = p] IN
           /\ Cardinality(Counted(P, s)) \in Nat
           /\ P[i] = s /\ p # s => /\ Cardinality(Counted(P, s)) >= 1
                                   /\ Cardinality(Counted(Q, s)) = Cardinality(Counted(P, s)) - 1
           /\ P[i] # s /\ p = s => Cardinality(Counted(Q, s)) = Cardinality(Counted(P, s)) + 1
           /\ (P[i] = s <=> p = s) => Cardinality(Counted(Q, s)) = Cardinality(Counted(P, s))
<1>. DEFINE Q == [P EXCEPT ![i] = p]
<1>1. PICK S \in SUBSET Issues : S = Counted(P, s)
  BY DEF Counted
<1>2. PICK T \in SUBSET Issues : T = Counted(Q, s)
  BY DEF Counted
<1>3. IsFiniteSet(S) /\ Cardinality(S) \in Nat
  BY IssuesAssumption, FS_Subset, FS_CardinalityType
<1>4. Q[i] = p /\ \A j \in Issues \ {i} : Q[j] = P[j]
  BY DEF Columns
<1>5. ASSUME P[i] = s, p # s
      PROVE  Cardinality(S) >= 1 /\ Cardinality(T) = Cardinality(S) - 1
  <2>1. T = S \ {i} /\ i \in S
    BY <1>1, <1>2, <1>4, <1>5 DEF Counted
  <2>2. IsFiniteSet(T) /\ Cardinality(T) = Cardinality(S) - 1
    BY <1>3, <2>1, FS_RemoveElement
  <2>3. Cardinality(T) \in Nat
    BY <2>2, FS_CardinalityType
  <2>. QED
    BY <1>3, <2>2, <2>3
<1>6. ASSUME P[i] # s, p = s PROVE Cardinality(T) = Cardinality(S) + 1
  <2>1. T = S \cup {i} /\ i \notin S
    BY <1>1, <1>2, <1>4, <1>6 DEF Counted
  <2>. QED
    BY <1>3, <2>1, FS_AddElement
<1>7. ASSUME P[i] = s <=> p = s PROVE Cardinality(T) = Cardinality(S)
  <2>1. T = S
    BY <1>1, <1>2, <1>4, <1>7 DEF Counted
  <2>. QED
    BY <2>1
<1>. HIDE DEF Q
<1>8. /\ Cardinality(Counted(P, s)) = Cardinality(S) /\ Cardinality(Counted(Q, s)) = Cardinality(T)
  BY <1>1, <1>2
<1>9. /\ Cardinality(Counted(P, s)) \in Nat
      /\ P[i] = s /\ p # s => /\ Cardinality(Counted(P, s)) >= 1
                              /\ Cardinality(Counted(Q, s)) = Cardinality(Counted(P, s)) - 1
      /\ P[i] # s /\ p = s => Cardinality(Counted(Q, s)) = Cardinality(Counted(P, s)) + 1
      /\ (P[i] = s <=> p = s) => Cardinality(Counted(Q, s)) = Cardinality(Counted(P, s))
  BY <1>3, <1>5, <1>6, <1>7, <1>8
<1>. QED
  BY <1>9 DEF Q

\* A card is in its issue's place.
LEMMA CardAt ==
    ASSUME NEW data \in Data, NEW P \in Columns, Fits(data, P),
           NEW s \in Statuses, NEW c \in data[s].cards
    PROVE  /\ Shows(data, c.id) /\ Located(data, c.id) = s /\ Places(data, c.id) = {s}
           /\ P[c.id] = s
<1>1. PICK i \in Issues : i = c.id
  BY Buckets DEF Card
<1>2. P[i] = s
  BY <1>1 DEF Fits
<1>3. Places(data, i) = {s}
  BY <1>1, <1>2 DEF Places, Fits
<1>4. Shows(data, i) /\ Located(data, i) = s
  <2>1. {s} \in SUBSET Statuses /\ {s} # {}
    OBVIOUS
  <2>2. Lowest({s}) \in {s}
    BY <2>1, LowestIsOne
  <2>. QED
    BY <1>3, <2>2 DEF Shows, Located
<1>. QED
  BY <1>1, <1>2, <1>3, <1>4

\* It is what its issue is seen as.
LEMMA CardSeen ==
    ASSUME NEW data \in Data, NEW P \in Columns, Fits(data, P),
           NEW s \in Statuses, NEW c \in data[s].cards
    PROVE  Seen(data, c.id) = [status |-> c.status, owner |-> c.owner]
<1>1. PICK i \in Issues : i = c.id
  BY Buckets DEF Card
<1>2. Shows(data, i) /\ Located(data, i) = s
  BY <1>1, CardAt
<1>3. PICK d : d = CHOOSE x \in data[s].cards : x.id = i
  OBVIOUS
<1>4. d \in data[s].cards /\ d.id = i
  BY <1>1, <1>3
<1>5. d = c
  BY <1>1, <1>4 DEF Fits
<1>6. Copy(data, i) = [status |-> c.status, owner |-> c.owner]
  BY <1>2, <1>3, <1>5 DEF Copy
<1>. QED
  BY <1>1, <1>2, <1>6 DEF Seen

\* An issue that is seen has its card.
LEMMA SeenCard ==
    ASSUME NEW data \in Data, NEW P \in Columns, Fits(data, P), NEW i \in Issues, Shows(data, i)
    PROVE  /\ P[i] \in Statuses /\ Located(data, i) = P[i] /\ Places(data, i) = {P[i]}
           /\ Copy(data, i) \in Entity /\ Copy(data, i).status = P[i]
           /\ Seen(data, i) = Copy(data, i)
           /\ CardOf(i, Copy(data, i)) \in data[P[i]].cards
<1>1. PICK s \in Statuses : \E c \in data[s].cards : c.id = i
  BY DEF Shows, Places
<1>2. PICK c \in data[s].cards : c.id = i
  BY <1>1
<1>3. Located(data, i) = s /\ Places(data, i) = {s} /\ P[i] = s
  BY <1>2, CardAt
<1>4. c.status = s /\ c \in Card
  BY <1>2, Buckets DEF Fits
<1>5. Copy(data, i) \in Entity /\ Seen(data, i) = Copy(data, i)
  BY FoundCard DEF Seen
<1>6. PICK e : e = Copy(data, i)
  OBVIOUS
<1>7. e = [status |-> c.status, owner |-> c.owner]
  <2>1. Seen(data, c.id) = [status |-> c.status, owner |-> c.owner]
    BY CardSeen
  <2>. QED
    BY <1>2, <1>5, <1>6, <2>1
<1>8. e.status = s /\ CardOf(i, e) = c
  BY <1>2, <1>4, <1>7 DEF Card, CardOf
<1>. QED
  BY <1>2, <1>3, <1>5, <1>6, <1>8

\* An issue without a card is not seen.
LEMMA NotSeen ==
    ASSUME NEW data \in Data, NEW i \in Issues
    PROVE  /\ Shows(data, i) <=> Seen(data, i) # None
           /\ ~Shows(data, i) => \A s \in Statuses : \A c \in data[s].cards : c.id # i
           /\ (\A s \in Statuses : \A c \in data[s].cards : c.id # i) => Seen(data, i) = None
           /\ Seen(data, i) \in Entity \cup {None}
<1>1. Shows(data, i) => Copy(data, i) \in Entity
  BY FoundCard
<1>. QED
  BY <1>1, NoneAssumption DEF Seen, Shows, Places

\* One issue's cards are replaced by one or none, and the totals are counted again.
LEMMA FitsAfter ==
    ASSUME NEW data \in Data, NEW after \in Data, NEW P \in Columns, Fits(data, P),
           NEW i \in Issues, NEW p \in Column, NEW copy \in Entity \cup {None},
           copy # None => p = copy.status,
           \A s \in Statuses : after[s].cards =
               Without(data[s].cards, i) \cup (IF copy # None /\ s = p THEN {CardOf(i, copy)} ELSE {}),
           \A s \in Statuses : after[s].total = Cardinality(Counted([P EXCEPT ![i] = p], s))
    PROVE  Turns(after, data, i, P, p, copy)
<1>1. PICK Q \in Columns : Q = [P EXCEPT ![i] = p]
  BY DEF Columns
<1>2. Q[i] = p /\ \A j \in Issues \ {i} : Q[j] = P[j]
  BY <1>1 DEF Columns
<1>3. ASSUME NEW s \in Statuses, NEW c \in after[s].cards
      PROVE  \/ c \in data[s].cards /\ c.id # i /\ c \in Card
             \/ c = CardOf(i, copy) /\ copy # None /\ s = p
  <2>1. c \in Without(data[s].cards, i) \/ (c = CardOf(i, copy) /\ copy # None /\ s = p)
    OBVIOUS
  <2>. QED
    BY <2>1, Buckets DEF Without
<1>4. CardOf(i, copy).id = i /\ CardOf(i, copy).status = copy.status /\ CardOf(i, copy).owner = copy.owner
  BY DEF CardOf
<1>5. Fits(after, Q)
  <2>1. ASSUME NEW s \in Statuses, NEW c \in after[s].cards PROVE Q[c.id] = s /\ c.status = s
    <3>1. CASE c \in data[s].cards /\ c.id # i /\ c \in Card
      <4>1. c.id \in Issues \ {i}
        BY <3>1 DEF Card
      <4>. QED
        BY <1>2, <3>1, <4>1 DEF Fits
    <3>2. CASE c = CardOf(i, copy) /\ copy # None /\ s = p
      BY <1>2, <1>4, <3>2
    <3>. QED
      BY <1>3, <3>1, <3>2
  <2>2. ASSUME NEW s \in Statuses, NEW c \in after[s].cards, NEW d \in after[s].cards, c.id = d.id
        PROVE  c = d
    <3>1. \/ c \in data[s].cards /\ c.id # i
          \/ c = CardOf(i, copy)
      BY <1>3
    <3>2. \/ d \in data[s].cards /\ d.id # i
          \/ d = CardOf(i, copy)
      BY <1>3
    <3>. QED
      BY <1>4, <2>2, <3>1, <3>2 DEF Fits
  <2>. QED
    BY <1>1, <2>1, <2>2 DEF Fits
<1>6. Seen(after, i) = copy
  <2>1. CASE copy = None
    <3>1. \A s \in Statuses : \A c \in after[s].cards : c.id # i
      BY <1>3, <2>1
    <3>. QED
      BY <2>1, <3>1, NotSeen
  <2>2. CASE copy # None
    <3>1. p \in Statuses /\ copy \in Entity
      BY <2>2 DEF Entity
    <3>2. PICK c \in after[p].cards : c = CardOf(i, copy)
      BY <2>2, <3>1
    <3>3. Seen(after, c.id) = [status |-> c.status, owner |-> c.owner]
      BY <1>5, <3>1, CardSeen
    <3>4. [status |-> c.status, owner |-> c.owner] = copy
      BY <1>4, <3>1, <3>2 DEF Entity
    <3>. QED
      BY <1>4, <3>2, <3>3, <3>4
  <2>. QED
    BY <2>1, <2>2
<1>7. ASSUME NEW j \in Issues \ {i} PROVE Seen(after, j) = Seen(data, j)
  <2>1. CASE Shows(data, j)
    <3>1. PICK e \in Entity : e = Copy(data, j)
      BY <2>1, SeenCard
    <3>2. PICK s \in Statuses : s = P[j] /\ CardOf(j, e) \in data[s].cards
      BY <2>1, <3>1, SeenCard
    <3>3. PICK c : c = CardOf(j, e)
      OBVIOUS
    <3>4. c.id = j /\ c.status = e.status /\ c.owner = e.owner
      BY <3>3 DEF CardOf
    <3>5. c \in after[s].cards
      BY <3>2, <3>3, <3>4 DEF Without
    <3>6. Seen(after, c.id) = [status |-> c.status, owner |-> c.owner]
      BY <1>5, <3>5, CardSeen
    <3>7. [status |-> c.status, owner |-> c.owner] = e
      BY <3>4 DEF Entity
    <3>8. Seen(data, j) = e
      BY <2>1, <3>1 DEF Seen
    <3>. QED
      BY <3>4, <3>6, <3>7, <3>8
  <2>2. CASE ~Shows(data, j)
    <3>1. \A s \in Statuses : \A c \in data[s].cards : c.id # j
      BY <2>2, NotSeen
    <3>2. \A s \in Statuses : \A c \in after[s].cards : c.id # j
      BY <1>3, <1>4, <3>1
    <3>. QED
      BY <2>2, <3>2, NotSeen DEF Seen
  <2>. QED
    BY <2>1, <2>2
<1>. QED
  BY <1>1, <1>5, <1>6, <1>7 DEF Turns

\* An issue that is in no bucket of its own.
LEMMA WithoutOne ==
    ASSUME NEW data \in Data, NEW P \in Columns, Fits(data, P), NEW i \in Issues,
           NEW s \in Statuses, s # P[i]
    PROVE  Without(data[s].cards, i) = data[s].cards
BY DEF Without, Fits

\* A total loses one, or gains one.
LEMMA Fewer == ASSUME NEW n \in Nat, n >= 1 PROVE Less(n) = n - 1
BY DEF Less

\* The card is taken out.
LEMMA RemoveTurns ==
    ASSUME NEW data \in Data, NEW P \in Columns, Fits(data, P), NEW i \in Issues, Shows(data, i)
    PROVE  Turns(RemoveCard(data, i), data, i, P, None, None)
<1>1. PICK from \in Statuses : from = P[i] /\ Located(data, i) = from
  BY SeenCard
<1>2. PICK after \in Data : after = RemoveCard(data, i)
  BY RemoveCardType
<1>3. after = [data EXCEPT ![from] = [cards |-> Without(data[from].cards, i),
                                      total |-> Less(data[from].total)]]
  BY <1>1, <1>2 DEF RemoveCard
<1>4. /\ after[from].cards = Without(data[from].cards, i) /\ after[from].total = Less(data[from].total)
      /\ \A s \in Statuses \ {from} : after[s] = data[s]
  BY <1>3 DEF Data
<1>5. None \in Column /\ None \notin Statuses
  BY NoneAssumption DEF Column
<1>6. \A s \in Statuses : after[s].cards = Without(data[s].cards, i) \cup
                            (IF None # None /\ s = None THEN {CardOf(i, None)} ELSE {})
  BY <1>1, <1>4, WithoutOne
<1>7. ASSUME NEW s \in Statuses
      PROVE  after[s].total = Cardinality(Counted([P EXCEPT ![i] = None], s))
  <2>1. data[s].total = Cardinality(Counted(P, s))
    BY DEF Fits
  <2>2. CASE s = from
    <3>1. /\ Cardinality(Counted(P, s)) \in Nat /\ Cardinality(Counted(P, s)) >= 1
          /\ Cardinality(Counted([P EXCEPT ![i] = None], s)) = Cardinality(Counted(P, s)) - 1
      BY <1>1, <1>5, <2>2, Recounted
    <3>. QED
      BY <1>4, <2>1, <2>2, <3>1, Fewer
  <2>3. CASE s # from
    BY <1>1, <1>4, <1>5, <2>1, <2>3, Recounted
  <2>. QED
    BY <2>2, <2>3
<1>8. Turns(after, data, i, P, None, None)
  BY <1>5, <1>6, <1>7, FitsAfter
<1>. QED
  BY <1>2, <1>8

\* The card is changed, and moved if its status is.
LEMMA PatchTurns ==
    ASSUME NEW data \in Data, NEW P \in Columns, Fits(data, P), NEW i \in Issues, Shows(data, i),
           NEW patch \in Patches
    PROVE  LET e == Merged(Copy(data, i), patch)
           IN  Turns(PatchCard(data, i, patch), data, i, P, e.status, e)
<1>1. PICK from \in Statuses : from = P[i] /\ Located(data, i) = from /\ Copy(data, i).status = from
  BY SeenCard
<1>2. PICK e \in Entity : e = Merged(Copy(data, i), patch)
  BY SeenCard, Merging
<1>3. PICK to \in Statuses : to = IF patch.status = None THEN from ELSE patch.status
  BY Merging, SeenCard
<1>4. e.status = to
  BY <1>1, <1>2, <1>3 DEF Merged
<1>5. PICK after \in Data : after = PatchCard(data, i, patch)
  BY PatchCardType
<1>6. after = IF to = from
              THEN [data EXCEPT ![from] = [cards |-> Without(data[from].cards, i) \cup {CardOf(i, e)},
                                           total |-> data[from].total]]
              ELSE [data EXCEPT ![from] = [cards |-> Without(data[from].cards, i),
                                           total |-> Less(data[from].total)],
                                ![to] = [cards |-> data[to].cards \cup {CardOf(i, e)},
                                         total |-> data[to].total + 1]]
  BY <1>1, <1>2, <1>3, <1>5 DEF PatchCard
<1>7. to \in Column /\ e # None /\ (e # None => to = e.status)
  BY <1>4, NoneAssumption DEF Column
<1>8. \A s \in Statuses : data[s].total = Cardinality(Counted(P, s))
  BY DEF Fits
<1>9. CASE to = from
  <2>1. /\ after[from].cards = Without(data[from].cards, i) \cup {CardOf(i, e)}
        /\ after[from].total = data[from].total
        /\ \A s \in Statuses \ {from} : after[s] = data[s]
    BY <1>6, <1>9 DEF Data
  <2>2. \A s \in Statuses : after[s].cards = Without(data[s].cards, i) \cup
                              (IF e # None /\ s = to THEN {CardOf(i, e)} ELSE {})
    BY <1>1, <1>7, <1>9, <2>1, WithoutOne
  <2>3. \A s \in Statuses : after[s].total = Cardinality(Counted([P EXCEPT ![i] = to], s))
    BY <1>1, <1>7, <1>8, <1>9, <2>1, Recounted
  <2>4. Turns(after, data, i, P, to, e)
    BY <1>7, <2>2, <2>3, FitsAfter
  <2>. QED
    BY <1>2, <1>4, <1>5, <2>4
<1>10. CASE to # from
  <2>1. /\ after[from].cards = Without(data[from].cards, i)
        /\ after[from].total = Less(data[from].total)
        /\ after[to].cards = data[to].cards \cup {CardOf(i, e)}
        /\ after[to].total = data[to].total + 1
        /\ \A s \in Statuses \ {from, to} : after[s] = data[s]
    BY <1>6, <1>10 DEF Data
  <2>2. \A s \in Statuses : after[s].cards = Without(data[s].cards, i) \cup
                              (IF e # None /\ s = to THEN {CardOf(i, e)} ELSE {})
    BY <1>1, <1>7, <1>10, <2>1, WithoutOne
  <2>3. ASSUME NEW s \in Statuses
        PROVE  after[s].total = Cardinality(Counted([P EXCEPT ![i] = to], s))
    <3>1. CASE s = from
      <4>1. /\ Cardinality(Counted(P, s)) \in Nat /\ Cardinality(Counted(P, s)) >= 1
            /\ Cardinality(Counted([P EXCEPT ![i] = to], s)) = Cardinality(Counted(P, s)) - 1
        BY <1>1, <1>7, <1>10, <3>1, Recounted
      <4>. QED
        BY <1>8, <2>1, <3>1, <4>1, Fewer
    <3>2. CASE s = to
      BY <1>1, <1>7, <1>8, <1>10, <2>1, <3>2, Recounted
    <3>3. CASE s \notin {from, to}
      BY <1>1, <1>7, <1>8, <2>1, <3>3, Recounted
    <3>. QED
      BY <3>1, <3>2, <3>3
  <2>4. Turns(after, data, i, P, to, e)
    BY <1>7, <2>2, <2>3, FitsAfter
  <2>. QED
    BY <1>2, <1>4, <1>5, <2>4
<1>. QED
  BY <1>9, <1>10

\* A card is put in that was not there.
LEMMA AddTurns ==
    ASSUME NEW data \in Data, NEW P \in Columns, Fits(data, P), NEW i \in Issues, ~Shows(data, i),
           P[i] = None, NEW e \in Entity
    PROVE  Turns(AddCard(data, i, e), data, i, P, e.status, e)
<1>1. PICK to \in Statuses : to = e.status
  BY DEF Entity
<1>2. PICK after \in Data : after = AddCard(data, i, e)
  BY AddCardType
<1>3. after = [data EXCEPT ![to] = [cards |-> data[to].cards \cup {CardOf(i, e)},
                                    total |-> data[to].total + 1]]
  BY <1>1, <1>2 DEF AddCard, Shows
<1>4. /\ after[to].cards = data[to].cards \cup {CardOf(i, e)} /\ after[to].total = data[to].total + 1
      /\ \A s \in Statuses \ {to} : after[s] = data[s]
  BY <1>3 DEF Data
<1>5. to \in Column /\ None \notin Statuses /\ e # None /\ (e # None => to = e.status)
  BY <1>1, NoneAssumption DEF Column
<1>6. \A s \in Statuses : after[s].cards = Without(data[s].cards, i) \cup
                            (IF e # None /\ s = to THEN {CardOf(i, e)} ELSE {})
  BY <1>4, <1>5, WithoutOne
<1>7. ASSUME NEW s \in Statuses
      PROVE  after[s].total = Cardinality(Counted([P EXCEPT ![i] = to], s))
  <2>1. data[s].total = Cardinality(Counted(P, s))
    BY DEF Fits
  <2>. QED
    BY <1>4, <1>5, <2>1, Recounted
<1>8. Turns(after, data, i, P, to, e)
  BY <1>5, <1>6, <1>7, FitsAfter
<1>. QED
  BY <1>1, <1>2, <1>8

\* A total loses an issue that has no card.
LEMMA DropTurns ==
    ASSUME NEW data \in Data, NEW P \in Columns, Fits(data, P), NEW i \in Issues, ~Shows(data, i),
           NEW from \in Statuses, P[i] = from
    PROVE  Turns(DropTotal(data, from), data, i, P, None, None)
<1>1. PICK after \in Data : after = DropTotal(data, from)
  BY MoveTotalType
<1>2. /\ after[from].cards = data[from].cards /\ after[from].total = Less(data[from].total)
      /\ \A s \in Statuses \ {from} : after[s] = data[s]
  BY <1>1 DEF DropTotal, Data
<1>3. None \in Column /\ None \notin Statuses
  BY NoneAssumption DEF Column
<1>4. \A s \in Statuses : Without(data[s].cards, i) = data[s].cards
  BY NotSeen DEF Without
<1>5. \A s \in Statuses : after[s].cards = Without(data[s].cards, i) \cup
                            (IF None # None /\ s = None THEN {CardOf(i, None)} ELSE {})
  BY <1>2, <1>4
<1>6. ASSUME NEW s \in Statuses
      PROVE  after[s].total = Cardinality(Counted([P EXCEPT ![i] = None], s))
  <2>1. data[s].total = Cardinality(Counted(P, s))
    BY DEF Fits
  <2>2. CASE s = from
    <3>1. /\ Cardinality(Counted(P, s)) \in Nat /\ Cardinality(Counted(P, s)) >= 1
          /\ Cardinality(Counted([P EXCEPT ![i] = None], s)) = Cardinality(Counted(P, s)) - 1
      BY <1>3, <2>2, Recounted
    <3>. QED
      BY <1>2, <2>1, <2>2, <3>1, Fewer
  <2>3. CASE s # from
    BY <1>2, <1>3, <2>1, <2>3, Recounted
  <2>. QED
    BY <2>2, <2>3
<1>7. Turns(after, data, i, P, None, None)
  BY <1>3, <1>5, <1>6, FitsAfter
<1>. QED
  BY <1>1, <1>7

\* The column in which an entity belongs in a list, if any.
Place(l, e) ==
    IF e = None \/ (l # Board /\ e.owner \notin ListOwners[l]) THEN None ELSE e.status

\* The entity belongs in the list or it does not.
LEMMA Placing ==
    ASSUME NEW l \in Lists, NEW e \in Entity \cup {None}
    PROVE  /\ Place(l, e) \in Column
           /\ Place(l, e) # None <=> e # None /\ (l # Board => e.owner \in ListOwners[l])
           /\ Place(l, e) # None => Place(l, e) = e.status
<1>1. e # None => e.status \in Statuses
  BY DEF Entity
<1>. QED
  BY <1>1, NoneAssumption DEF Place, Column

\* The members of a page's column belong in it.
LEMMA MembersPlaced ==
    ASSUME NEW state \in [Issues -> Entity \cup {None}], NEW l \in Lists, NEW s \in Statuses,
           NEW P, \A i \in Issues : P[i] = Place(l, state[i])
    PROVE  Members(state, l, s) = Counted(P, s)
<1>1. ASSUME NEW i \in Issues
      PROVE  /\ state[i] # None /\ state[i].status = s /\ (l # Board => state[i].owner \in ListOwners[l])
             <=> P[i] = s
  <2>1. PICK e \in Entity \cup {None} : e = state[i]
    OBVIOUS
  <2>2. P[i] = Place(l, e)
    BY <2>1
  <2>. QED
    BY <2>1, <2>2, NoneAssumption DEF Place
<1>. QED
  BY <1>1 DEF Members, Counted

\* What the server has read for a whole list is right.
LEMMA PagesFit ==
    ASSUME NEW state \in [Issues -> Entity \cup {None}], NEW l \in Lists, NEW data \in Data,
           \A s \in Statuses : data[s] = Page(state, l, s, 0)
    PROVE  \E P \in Columns :
              /\ Fits(data, P)
              /\ \A i \in Issues : P[i] = Place(l, state[i])
              /\ \A i \in Issues : Seen(data, i) # None => Seen(data, i) = state[i] /\ P[i] # None
<1>1. PICK P : P = [i \in Issues |-> Place(l, state[i])]
  OBVIOUS
<1>2. P \in Columns /\ \A i \in Issues : P[i] = Place(l, state[i])
  <2>1. \A i \in Issues : Place(l, state[i]) \in Column
    BY Placing
  <2>. QED
    BY <1>1, <2>1 DEF Columns
<1>3. ASSUME NEW s \in Statuses
      PROVE  /\ data[s].total = Cardinality(Counted(P, s))
             /\ \A c \in data[s].cards : \E i \in Counted(P, s) : c = CardOf(i, state[i])
  <2>. DEFINE members == Members(state, l, s)
              before(i) == Cardinality({j \in members : j < i})
              shown == {j \in members : 0 <= before(j) /\ before(j) < 0 + PageSize}
  <2>1. Page(state, l, s, 0) = [cards |-> {CardOf(i, state[i]) : i \in shown},
                               total |-> Cardinality(members)]
    BY DEF Page
  <2>2. members = Counted(P, s)
    BY <1>2, MembersPlaced
  <2>3. shown \subseteq members
    OBVIOUS
  <2>. HIDE DEF members, shown
  <2>4. data[s].total = Cardinality(members) /\ data[s].cards = {CardOf(i, state[i]) : i \in shown}
    BY <2>1
  <2>. QED
    BY <2>2, <2>3, <2>4
<1>4. ASSUME NEW s \in Statuses, NEW c \in data[s].cards
      PROVE  /\ c.id \in Issues /\ P[c.id] = s /\ c = CardOf(c.id, state[c.id])
             /\ state[c.id] \in Entity /\ c.status = s
  <2>1. PICK i \in Counted(P, s) : c = CardOf(i, state[i])
    BY <1>3
  <2>2. PICK e \in Entity \cup {None} : e = state[i] /\ i \in Issues /\ P[i] = s
    BY <2>1 DEF Counted
  <2>3. c.id = i /\ c.status = e.status
    BY <2>1, <2>2 DEF CardOf
  <2>4. Place(l, e) = s /\ s # None
    BY <1>2, <2>2, NoneAssumption
  <2>5. e # None /\ e.status = s
    BY <2>4, Placing
  <2>. QED
    BY <2>1, <2>2, <2>3, <2>5
<1>5. Fits(data, P)
  <2>1. \A s \in Statuses : data[s].total = Cardinality(Counted(P, s))
    BY <1>3
  <2>2. \A s \in Statuses : \A c \in data[s].cards : P[c.id] = s /\ c.status = s
    BY <1>4
  <2>3. ASSUME NEW s \in Statuses, NEW c \in data[s].cards, NEW d \in data[s].cards, c.id = d.id
        PROVE  c = d
    <3>1. c = CardOf(c.id, state[c.id]) /\ d = CardOf(d.id, state[d.id])
      BY <1>4
    <3>. QED
      BY <2>3, <3>1
  <2>. QED
    BY <2>1, <2>2, <2>3 DEF Fits
<1>6. ASSUME NEW i \in Issues, Seen(data, i) # None
      PROVE  Seen(data, i) = state[i] /\ P[i] # None
  <2>1. Shows(data, i)
    BY <1>6, NotSeen
  <2>2. PICK e \in Entity : e = Copy(data, i) /\ Seen(data, i) = e
    BY <1>2, <1>5, <2>1, SeenCard
  <2>3. PICK s \in Statuses : s = P[i] /\ CardOf(i, e) \in data[s].cards
    BY <1>2, <1>5, <2>1, <2>2, SeenCard
  <2>4. PICK c : c = CardOf(i, e)
    OBVIOUS
  <2>5. c.id = i /\ c.status = e.status /\ c.owner = e.owner
    BY <2>4 DEF CardOf
  <2>6. c = CardOf(i, state[i]) /\ state[i] \in Entity
    BY <1>4, <2>3, <2>4, <2>5
  <2>7. PICK g \in Entity : g = state[i]
    BY <2>6
  <2>8. c.status = g.status /\ c.owner = g.owner
    BY <2>6, <2>7 DEF CardOf
  <2>9. e = g
    <3>1. e.status = g.status /\ e.owner = g.owner
      BY <2>5, <2>8
    <3>2. e = [status |-> e.status, owner |-> e.owner] /\ g = [status |-> g.status, owner |-> g.owner]
      BY DEF Entity
    <3>. QED
      BY <3>1, <3>2
  <2>. QED
    BY <2>2, <2>3, <2>7, <2>9, NoneAssumption
<1>. QED
  BY <1>2, <1>5, <1>6

\* A list in which each issue is where the server has it is right.
LEMMA FittingIsRight ==
    ASSUME NEW state \in [Issues -> Entity \cup {None}], NEW l \in Lists, NEW data \in Data,
           NEW P \in Columns, Fits(data, P),
           \A i \in Issues : IF Seen(data, i) # None
                             THEN Seen(data, i) = state[i] /\ Place(l, state[i]) # None
                             ELSE P[i] = Place(l, state[i])
    PROVE  \A s \in Statuses :
              /\ data[s].total = Cardinality(Members(state, l, s))
              /\ data[s].cards \subseteq {CardOf(i, state[i]) : i \in Members(state, l, s)}
<1>1. ASSUME NEW i \in Issues PROVE P[i] = Place(l, state[i])
  <2>1. CASE Seen(data, i) # None
    <3>1. Shows(data, i)
      BY <2>1, NotSeen
    <3>2. PICK e \in Entity : e = Copy(data, i) /\ e.status = P[i] /\ Seen(data, i) = e
      BY <3>1, SeenCard
    <3>3. e = state[i] /\ Place(l, e) # None
      BY <2>1, <3>2
    <3>4. Place(l, e) = e.status
      BY <3>3, Placing
    <3>. QED
      BY <3>2, <3>3, <3>4
  <2>. QED
    BY <2>1
<1>2. ASSUME NEW s \in Statuses
      PROVE  /\ data[s].total = Cardinality(Members(state, l, s))
             /\ data[s].cards \subseteq {CardOf(i, state[i]) : i \in Members(state, l, s)}
  <2>1. Members(state, l, s) = Counted(P, s)
    BY <1>1, MembersPlaced
  <2>2. data[s].total = Cardinality(Members(state, l, s))
    BY <2>1 DEF Fits
  <2>3. ASSUME NEW c \in data[s].cards
        PROVE  \E i \in Members(state, l, s) : c = CardOf(i, state[i])
    <3>1. c \in Card /\ P[c.id] = s
      BY Buckets DEF Fits
    <3>2. PICK i \in Issues : i = c.id
      BY <3>1 DEF Card
    <3>3. PICK e : e = [status |-> c.status, owner |-> c.owner]
      OBVIOUS
    <3>4. Seen(data, c.id) = e
      BY <3>3, CardSeen
    <3>5. e \in Entity /\ e # None
      BY <3>1, <3>3, NoneAssumption DEF Card, Entity
    <3>6. state[i] = e
      BY <3>2, <3>4, <3>5
    <3>7. c = CardOf(i, e)
      BY <3>1, <3>2, <3>3 DEF CardOf, Card
    <3>8. i \in Members(state, l, s)
      BY <2>1, <3>1, <3>2 DEF Counted
    <3>. QED
      BY <3>6, <3>7, <3>8
  <2>. QED
    BY <2>2, <2>3
<1>. QED
  BY <1>2

-----------------------------------------------------------------------------
(* Why a list with nothing wrong in its history may still not be what the  *)
(* server has: what it lacks is on its way to it                           *)

\* An event about an issue that was there is still to come.
Owed(i, h) == \E k \in h + 1 .. Len(log) : log[k].id = i /\ StateAt(k - 1)[i] # None

\* The issue is as one of the user's changes has left it, of which no event has come.
Changing(m, l, i, h) ==
    /\ mutation[m].kind = "update" /\ mutation[m].id = i /\ mutation[m].saved[l] # None
    /\ \A n \in Of(m) : n > h

\* The user has deleted it, and the server has not answered.
Removing(m, l, i) ==
    mutation[m].kind = "delete" /\ mutation[m].id = i /\ mutation[m].saved[l] # None

\* The user has put it out of the list.
Leaving(m, l, i, h) ==
    \/ /\ Changing(m, l, i, h)
       /\ mutation[m].patch.owner # None /\ Judged(l, mutation[m].patch.owner) = "no"
    \/ \E n \in Of(m) : n > h /\ log[n].id = i /\ Place(l, log[n].now) = None

\* A change of the user that leaves the issue, as the list knows it, in its place.
Neutral(m, l, i, h) ==
    LET was == StateAt(h)[i] IN
    /\ mutation[m].kind = "update" /\ mutation[m].id = i /\ was # None =>
           Place(l, Merged(was, mutation[m].patch)) = Place(l, was)
    /\ \A n \in Of(m) :
           /\ n > h /\ log[n].id = i /\ log[n].now # None
           /\ \A k \in h + 1 .. n - 1 : log[k].id # i
           => Place(l, log[n].now) = Place(l, was)

\* What one issue has in a list is what the server had when the list was loaded or has at
\* the last event since, but for the user's own changes and for events to come.
Explains(l, i, copy, p, t, h, own) ==
    /\ StateAt(t)[i] = None => p = None
    /\ copy # None =>
           /\ Place(l, StateAt(t)[i]) # None
           /\ copy = Now[i] \/ Owed(i, h) \/ \E m \in own : Changing(m, l, i, h)
    /\ copy = None =>
           \/ /\ p \in {Place(l, StateAt(t)[i]), Place(l, StateAt(h)[i])}
              /\ \A m \in own : Neutral(m, l, i, h)
           \/ \E m \in own : Removing(m, l, i)
           \/ p = None /\ \E m \in own : Leaving(m, l, i, h)

Explained(l, data, since, own) == \E P \in Columns :
    /\ Fits(data, P)
    /\ \A i \in Issues : Explains(l, i, Seen(data, i), P[i], Later(since), Handled, own)

\* No load of the list is needed or coming.
Quiet(l) ==
    /\ Calm(list[l])
    /\ socket.phase \in {"opening", "up", "waiting"} /\ (socket.phase # "up" => ~socket.met)
    /\ \A m \in Mutations : l \notin mutation[m].stale

ListOf(l) == Quiet(l) => Explained(l, list[l].data, list[l].since, list[l].own)

\* What a rollback would put back is explained without the change.
SavedOf(m, l) ==
    LET c == mutation[m] IN
    /\ c.saved[l] # None /\ Quiet(l) /\ Handled = c.at
    /\ list[l].since = c.wrote[l].since /\ c.wrote[l].own \subseteq list[l].own
    => Explained(l, c.saved[l].data, list[l].since, c.wrote[l].own \ {m})

\* What the server had is what it has, or an event is coming about it.
LEMMA OwedNow ==
    ASSUME TypeInv, NEW t \in 0 .. Len(log), NEW h \in 0 .. t, NEW i \in Issues,
           StateAt(t)[i] # None
    PROVE  StateAt(t)[i] = Now[i] \/ Owed(i, h)
<1>1. log \in Seq(Entry) /\ Len(log) \in Nat /\ Now = StateAt(Len(log)) /\ Len(log) \in 0 .. Len(log)
  BY Lengths, NowIs
<1>2. CASE \A k \in t + 1 .. Len(log) : log[k].id # i
  <2>1. t \in 0 .. Len(log)
    OBVIOUS
  <2>. QED
    BY <1>1, <1>2, <2>1, StateSame
<1>3. ASSUME NEW some \in t + 1 .. Len(log), log[some].id = i PROVE Owed(i, h)
  <2>. DEFINE S == {k \in t + 1 .. Len(log) : log[k].id = i}
  <2>1. S \in SUBSET Nat /\ S # {} /\ S \subseteq 1 .. Len(log)
    BY <1>1, <1>3
  <2>2. IsFiniteSet(S)
    <3>1. IsFiniteSet(1 .. Len(log))
      BY <1>1, FS_Interval
    <3>. QED
      BY <2>1, <3>1, FS_Subset
  <2>3. PICK k \in S : \A d \in S : k <= d
    BY <2>1, <2>2, SmallestExists
  <2>4. /\ k \in t + 1 .. Len(log) /\ log[k].id = i
        /\ \A d \in t + 1 .. k - 1 : log[d].id # i
    BY <1>1, <2>3
  <2>5. k - 1 \in 0 .. Len(log) /\ t \in 0 .. k - 1
    BY <1>1, <2>4
  <2>6. PICK b \in 0 .. Len(log) : b = k - 1
    BY <2>5
  <2>7. t \in 0 .. b /\ \A d \in t + 1 .. b : log[d].id # i
    BY <2>4, <2>5, <2>6
  <2>8. StateAt(t)[i] = StateAt(b)[i]
    BY <1>1, <2>7, StateSame
  <2>9. k \in h + 1 .. Len(log)
    BY <1>1, <2>4
  <2>. QED
    BY <2>4, <2>6, <2>8, <2>9 DEF Owed
<1>. QED
  BY <1>2, <1>3

\* A commit is on the wire as long as it has not been heard of.
LEMMA PendingIs ==
    ASSUME TypeInv, FramesExact, NEW n \in 1 .. Len(log)
    PROVE  Pending(n) <=> n > Handled
<1>1. /\ Len(log) \in Nat /\ Handled \in 0 .. Len(log) /\ Len(frames) = Len(log) - Handled
  BY Lengths
<1>2. ASSUME Pending(n) PROVE n > Handled
  <2>1. PICK k \in 1 .. Len(frames) : frames[k] = n
    BY <1>2 DEF Pending
  <2>2. n = Handled + k
    BY <2>1 DEF FramesExact
  <2>. QED
    BY <1>1, <2>1, <2>2
<1>3. ASSUME n > Handled PROVE Pending(n)
  <2>1. PICK k \in 1 .. Len(frames) : k = n - Handled
    BY <1>1, <1>3
  <2>2. frames[k] = Handled + k
    BY DEF FramesExact
  <2>. QED
    BY <1>1, <2>1, <2>2 DEF Pending
<1>. QED
  BY <1>2, <1>3

\* What stays as it is with the log.
LEMMA Unlogged ==
    ASSUME UNCHANGED log
    PROVE  /\ \A n : StateAt(n)' = StateAt(n)
           /\ Now' = Now /\ \A m : Of(m)' = Of(m)
           /\ \A i, h : Owed(i, h)' = Owed(i, h)
<1>1. \A n : StateAt(n)' = StateAt(n)
  BY DEF StateAt
<1>2. Now' = Now /\ \A m : Of(m)' = Of(m)
  BY <1>1 DEF Now, Of
<1>3. \A i, h : Owed(i, h)' = Owed(i, h)
  BY <1>1 DEF Owed
<1>. QED
  BY <1>1, <1>2, <1>3

-----------------------------------------------------------------------------
(* An explanation stays one when the server goes on                        *)

\* A call of which a list has had the change goes on, or is over without having changed
\* the list or with its work done.
Goes(m, l) ==
    \/ /\ mutation'[m].kind = mutation[m].kind /\ mutation'[m].id = mutation[m].id
       /\ mutation'[m].patch = mutation[m].patch /\ mutation'[m].saved[l] = mutation[m].saved[l]
       /\ mutation[m].kind = "over" => Of(m)' = Of(m)
    \/ /\ mutation'[m].kind = "over" /\ Of(m)' = Of(m)
       /\ mutation[m].saved[l] = None \/ (mutation[m].kind = "update" /\ mutation[m].status = "done")

\* The log has at most one commit more, and the client has heard of none.
Advances == Grows /\ Len(log') <= Len(log) + 1 /\ Handled' = Handled

\* What that says of the types.
LEMMA Advancing ==
    ASSUME Base, Base', Advances
    PROVE  /\ log \in Seq(Entry) /\ log' \in Seq(Entry) /\ Grows
           /\ Len(log) \in Nat /\ Len(log') \in Nat /\ Len(log) <= Len(log')
           /\ Len(log') <= Len(log) + 1
           /\ Handled \in 0 .. Len(log) /\ Handled' = Handled
           /\ \A n \in 1 .. Len(log) : log'[n] = log[n] /\ n \in 1 .. Len(log')
           /\ \A n \in 0 .. Len(log) : StateAt(n)' = StateAt(n)
<1>1. /\ log \in Seq(Entry) /\ Len(log) \in Nat /\ Handled \in 0 .. Len(log)
  BY Lengths DEF Base
<1>2. log' \in Seq(Entry) /\ Len(log') \in Nat
  BY DEF Base, TypeInv, ServerInv
<1>3. Grows /\ Len(log') <= Len(log) + 1 /\ Handled' = Handled /\ Len(log) <= Len(log')
  BY DEF Advances, Grows
<1>4. \A n \in 1 .. Len(log) : log'[n] = log[n] /\ n \in 1 .. Len(log')
  BY <1>1, <1>2, <1>3 DEF Grows
<1>5. \A n \in 0 .. Len(log) : StateAt(n)' = StateAt(n)
  BY <1>1, <1>2, <1>3, PastStays
<1>. QED
  BY <1>1, <1>2, <1>3, <1>4, <1>5

\* An event that is to come is still to come.
LEMMA OwedStays ==
    ASSUME Base, Base', Advances, NEW i \in Issues, NEW h \in 0 .. Len(log), Owed(i, h)
    PROVE  Owed(i, h)'
<1>1. PICK k \in h + 1 .. Len(log) : log[k].id = i /\ StateAt(k - 1)[i] # None
  BY DEF Owed
<1>2. k \in 1 .. Len(log) /\ k - 1 \in 0 .. Len(log) /\ k \in h + 1 .. Len(log')
  BY Advancing
<1>3. log'[k].id = i /\ StateAt(k - 1)'[i] # None
  BY <1>1, <1>2, Advancing
<1>. QED
  BY <1>2, <1>3 DEF Owed

\* A commit about another issue does not change what this one is.
LEMMA NowSame ==
    ASSUME log \in Seq(Entry), Grows, log' \in Seq(Entry), Len(log') = Len(log) + 1,
           NEW i \in Issues, log'[Len(log')].id # i
    PROVE  Now'[i] = Now[i]
<1>. DEFINE last == {k \in 1 .. Len(log) : log[k].id = i}
            newest == CHOOSE k \in last : \A m \in last : m <= k
<1>1. Now[i] = LET was == {k \in 1 .. Len(log) : log[k].id = i}
               IN  IF was = {} THEN Start[i]
                   ELSE log[CHOOSE k \in was : \A m \in was : m <= k].now
  BY DEF Now, StateAt
<1>2. Now'[i] = LET was == {k \in 1 .. Len(log') : log'[k].id = i}
                IN  IF was = {} THEN Start[i]
                    ELSE log'[CHOOSE k \in was : \A m \in was : m <= k].now
  BY DEF Now, StateAt
<1>3. Len(log) \in Nat /\ \A k \in 1 .. Len(log) : log'[k] = log[k]
  BY DEF Grows
<1>4. {k \in 1 .. Len(log') : log'[k].id = i} = last
  <2>1. \A k \in 1 .. Len(log') : k \in 1 .. Len(log) \/ k = Len(log')
    BY <1>3
  <2>2. \A k \in 1 .. Len(log) : k \in 1 .. Len(log')
    BY <1>3
  <2>. QED
    BY <1>3, <2>1, <2>2
<1>5. CASE last = {}
  BY <1>1, <1>2, <1>4, <1>5
<1>6. CASE last # {}
  <2>1. PICK some \in 1 .. Len(log) : log[some].id = i
    BY <1>6
  <2>2. Len(log) \in 0 .. Len(log)
    BY <1>3
  <2>3. PICK k : Last(k, 1, Len(log), i)
    BY <2>1, <2>2, LastCommit
  <2>4. k \in last /\ \A m \in last : m <= k
    BY <2>3 DEF Last
  <2>5. newest \in last
    BY <2>4
  <2>6. newest \in 1 .. Len(log)
    BY <2>5
  <2>7. Now[i] = log[newest].now /\ Now'[i] = log'[newest].now
    BY <1>1, <1>2, <1>4, <1>6
  <2>. QED
    BY <1>3, <2>6, <2>7
<1>. QED
  BY <1>5, <1>6

\* A copy of what is now, or the event that will replace it.
LEMMA CopyStays ==
    ASSUME Base, Base', Advances, NEW i \in Issues, NEW h \in 0 .. Len(log), Now[i] # None
    PROVE  Now'[i] = Now[i] \/ Owed(i, h)'
<1>1. Now = StateAt(Len(log)) /\ Len(log) \in 0 .. Len(log)
  BY Advancing DEF Now
<1>2. CASE Len(log') = Len(log)
  <2>1. PICK n \in 0 .. Len(log) : n = Len(log) /\ n = Len(log')
    BY <1>1, <1>2
  <2>2. Now' = StateAt(n)'
    BY <2>1 DEF Now, StateAt
  <2>. QED
    BY <1>1, <2>1, <2>2, Advancing
<1>3. CASE Len(log') = Len(log) + 1
  <2>1. PICK n \in 1 .. Len(log') : n = Len(log') /\ n = Len(log) + 1 /\ n - 1 = Len(log)
    BY <1>3, Advancing
  <2>2. PICK b \in 0 .. Len(log) : b = Len(log) /\ b = n - 1
    BY <1>1, <2>1
  <2>3. StateAt(b)' = StateAt(b)
    BY Advancing
  <2>4. StateAt(n - 1)' = Now
    BY <1>1, <2>2, <2>3
  <2>5. CASE log'[n].id = i
    <3>1. n \in h + 1 .. Len(log')
      BY <2>1, Advancing
    <3>2. log'[n].id = i /\ StateAt(n - 1)'[i] # None
      BY <2>4, <2>5
    <3>. QED
      BY <3>1, <3>2 DEF Owed
  <2>6. CASE log'[n].id # i
    BY <1>3, <2>1, <2>6, Advancing, NowSame
  <2>. QED
    BY <2>5, <2>6
<1>. QED
  BY <1>2, <1>3, Advancing

\* What a call commits when it goes on.
LEMMA OfGoes ==
    ASSUME Base, Base', Advances, NEW m \in Mutations, NEW l, Started(m), Goes(m, l),
           NEW n \in Of(m)'
    PROVE  \/ n \in Of(m) /\ n \in 1 .. Len(log) /\ log'[n] = log[n]
           \/ /\ n = Len(log) + 1 /\ n \in 1 .. Len(log')
              /\ mutation[m].kind \in {"update", "delete"}
              /\ mutation'[m].kind = mutation[m].kind /\ mutation'[m].id = mutation[m].id
              /\ mutation'[m].patch = mutation[m].patch /\ mutation'[m].saved[l] = mutation[m].saved[l]
<1>1. n \in 1 .. Len(log') /\ log'[n].by = m
  BY DEF Of
<1>2. CASE n \in 1 .. Len(log)
  <2>1. log'[n] = log[n]
    BY <1>2, Advancing
  <2>. QED
    BY <1>1, <1>2, <2>1 DEF Of
<1>3. CASE n \notin 1 .. Len(log)
  <2>1. n = Len(log) + 1
    BY <1>1, <1>3, Advancing
  <2>2. n \notin Of(m)
    BY <1>3 DEF Of
  <2>3. Of(m)' # Of(m)
    BY <2>2
  <2>. QED
    BY <1>1, <2>1, <2>3 DEF Goes, Started
<1>. QED
  BY <1>2, <1>3

\* What a call has committed stays so.
LEMMA OfStays ==
    ASSUME Base, Base', Advances, NEW m, NEW n \in Of(m)
    PROVE  n \in Of(m)' /\ n \in 1 .. Len(log) /\ log'[n] = log[n]
<1>1. n \in 1 .. Len(log) /\ log[n].by = m
  BY DEF Of
<1>2. log'[n] = log[n] /\ n \in 1 .. Len(log')
  BY <1>1, Advancing
<1>. QED
  BY <1>1, <1>2 DEF Of

\* What a call that is done has committed.
LEMMA DoneIs ==
    ASSUME Base, NEW m \in Mutations, mutation[m].kind = "update", mutation[m].status = "done"
    PROVE  \E n \in 1 .. Len(log) :
              /\ n \in Of(m) /\ log[n].id = mutation[m].id
              /\ StateAt(n - 1)[mutation[m].id] # None
              /\ log[n].now = Merged(StateAt(n - 1)[mutation[m].id], mutation[m].patch)
BY DEF Base, Ledger, LedgerOf, Of

\* A change that no event has come of yet.
LEMMA ChangingStays ==
    ASSUME Base, Base', Advances, NEW m \in Mutations, NEW l \in Lists, Started(m), Goes(m, l),
           NEW i \in Issues, NEW h \in 0 .. Len(log), Changing(m, l, i, h)
    PROVE  Changing(m, l, i, h)' \/ Owed(i, h)'
<1>1. mutation[m].kind = "update" /\ mutation[m].id = i /\ mutation[m].saved[l] # None
  BY DEF Changing
<1>2. CASE mutation'[m].kind = "update"
  <2>1. mutation'[m].id = i /\ mutation'[m].saved[l] # None
    BY <1>1, <1>2 DEF Goes
  <2>2. ASSUME NEW n \in Of(m)' PROVE n > h
    <3>1. n \in Of(m) \/ n = Len(log) + 1
      BY <2>2, OfGoes
    <3>. QED
      BY <3>1, Advancing DEF Changing
  <2>. QED
    BY <1>2, <2>1, <2>2 DEF Changing
<1>3. CASE mutation'[m].kind # "update"
  <2>1. mutation[m].status = "done"
    BY <1>1, <1>3 DEF Goes
  <2>2. PICK n \in 1 .. Len(log) : n \in Of(m) /\ log[n].id = i /\ StateAt(n - 1)[i] # None
    BY <1>1, <2>1, DoneIs
  <2>3. n > h
    BY <2>2 DEF Changing
  <2>4. n \in h + 1 .. Len(log)
    BY <2>3, Advancing
  <2>5. Owed(i, h)
    BY <2>2, <2>4 DEF Owed
  <2>. QED
    BY <2>5, OwedStays
<1>. QED
  BY <1>2, <1>3

\* An owner that is not the list's.
LEMMA Outside ==
    ASSUME NEW l \in Lists, NEW e, NEW o, Judged(l, o) = "no"
    PROVE  l # Board /\ o \notin ListOwners[l] /\ (e.owner = o => Place(l, e) = None)
<1>1. l # Board /\ o \notin ListOwners[l]
  BY DEF Judged
<1>. QED
  BY <1>1 DEF Place

\* An issue that the user has put out of the list.
LEMMA LeavingStays ==
    ASSUME Base, Base', Advances, NEW m \in Mutations, NEW l \in Lists, Started(m), Goes(m, l),
           NEW i \in Issues, NEW h \in 0 .. Len(log), Leaving(m, l, i, h)
    PROVE  Leaving(m, l, i, h)'
<1>1. ASSUME NEW n \in Of(m), n > h, log[n].id = i, Place(l, log[n].now) = None
      PROVE  Leaving(m, l, i, h)'
  <2>1. n \in Of(m)' /\ log'[n] = log[n]
    BY <1>1, OfStays
  <2>. QED
    BY <1>1, <2>1 DEF Leaving
<1>2. ASSUME Changing(m, l, i, h), mutation[m].patch.owner # None,
             Judged(l, mutation[m].patch.owner) = "no"
      PROVE  Leaving(m, l, i, h)'
  <2>1. mutation[m].kind = "update" /\ mutation[m].id = i /\ mutation[m].saved[l] # None
    BY <1>2 DEF Changing
  <2>2. CASE mutation'[m].kind = "update"
    <3>1. mutation'[m].id = i /\ mutation'[m].saved[l] # None /\ mutation'[m].patch = mutation[m].patch
      BY <2>1, <2>2 DEF Goes
    <3>2. ASSUME NEW n \in Of(m)' PROVE n > h
      <4>1. n \in Of(m) \/ n = Len(log) + 1
        BY <3>2, OfGoes
      <4>. QED
        BY <1>2, <4>1, Advancing DEF Changing
    <3>. QED
      BY <1>2, <2>2, <3>1, <3>2 DEF Leaving, Changing
  <2>3. CASE mutation'[m].kind # "update"
    <3>1. mutation[m].status = "done"
      BY <2>1, <2>3 DEF Goes
    <3>2. PICK n \in 1 .. Len(log) :
              /\ n \in Of(m) /\ log[n].id = i
              /\ log[n].now = Merged(StateAt(n - 1)[i], mutation[m].patch)
      BY <2>1, <3>1, DoneIs
    <3>3. n > h
      BY <1>2, <3>2 DEF Changing
    <3>4. log[n].now.owner = mutation[m].patch.owner
      BY <1>2, <3>2 DEF Merged
    <3>5. Place(l, log[n].now) = None
      BY <1>2, <3>4, Outside
    <3>. QED
      BY <1>1, <3>2, <3>3, <3>5
  <2>. QED
    BY <2>2, <2>3
<1>. QED
  BY <1>1, <1>2 DEF Leaving

\* An issue that the user has deleted.
LEMMA RemovingStays ==
    ASSUME NEW m \in Mutations, NEW l \in Lists, Goes(m, l), NEW i \in Issues, Removing(m, l, i)
    PROVE  Removing(m, l, i)'
BY DEF Removing, Goes

\* A change that leaves the issue in its place.
LEMMA NeutralStays ==
    ASSUME Base, Base', Advances, NEW m \in Mutations, NEW l \in Lists, Started(m), Goes(m, l),
           NEW i \in Issues, NEW h \in 0 .. Len(log), Neutral(m, l, i, h)
    PROVE  Neutral(m, l, i, h)'
<1>1. PICK was : was = StateAt(h)[i]
  OBVIOUS
<1>2. StateAt(h)'[i] = was
  BY <1>1, Advancing
<1>3. ASSUME mutation'[m].kind = "update", mutation'[m].id = i, was # None
      PROVE  Place(l, Merged(was, mutation'[m].patch)) = Place(l, was)
  BY <1>1, <1>3 DEF Goes, Neutral
<1>4. ASSUME NEW n \in Of(m)', n > h, log'[n].id = i, log'[n].now # None,
             \A k \in h + 1 .. n - 1 : log'[k].id # i
      PROVE  Place(l, log'[n].now) = Place(l, was)
  <2>1. CASE n \in Of(m) /\ n \in 1 .. Len(log) /\ log'[n] = log[n]
    <3>1. \A k \in h + 1 .. n - 1 : log'[k] = log[k]
      BY <2>1, Advancing
    <3>. QED
      BY <1>1, <1>4, <2>1, <3>1 DEF Neutral
  <2>2. CASE /\ n = Len(log) + 1 /\ n \in 1 .. Len(log')
             /\ mutation[m].kind \in {"update", "delete"}
             /\ mutation'[m].kind = mutation[m].kind
    <3>1. PICK b \in 0 .. Len(log) : b = Len(log) /\ b = n - 1
      BY <2>2, Advancing
    <3>2. ASSUME NEW k \in h + 1 .. b PROVE log[k].id # i
      <4>1. k \in h + 1 .. n - 1
        BY <3>1
      <4>2. k \in 1 .. Len(log)
        BY <3>1, Advancing
      <4>3. log'[k] = log[k]
        BY <4>2, Advancing
      <4>. QED
        BY <1>4, <4>1, <4>3
    <3>3. StateAt(h)[i] = StateAt(b)[i]
      BY <3>1, <3>2, Advancing, StateSame
    <3>4. StateAt(n - 1)'[i] = was
      BY <1>1, <3>1, <3>3, Advancing
    <3>5. LedgerOf(m)'
      BY DEF Base, Ledger
    <3>6. CASE mutation'[m].kind = "delete"
      BY <1>4, <3>5, <3>6 DEF LedgerOf
    <3>7. CASE mutation'[m].kind = "update"
      <4>1. /\ log'[n].id = mutation'[m].id /\ StateAt(n - 1)'[mutation'[m].id] # None
            /\ log'[n].now = Merged(StateAt(n - 1)'[mutation'[m].id], mutation'[m].patch)
        BY <3>5, <3>7 DEF LedgerOf
      <4>. QED
        BY <1>3, <1>4, <3>4, <3>7, <4>1
    <3>. QED
      BY <2>2, <3>6, <3>7
  <2>. QED
    BY <1>4, <2>1, <2>2, OfGoes
<1>. QED
  BY <1>2, <1>3, <1>4 DEF Neutral

\* What explains an issue in a list still does.
LEMMA ExplainsOn ==
    ASSUME Base, Base', Advances, NEW l \in Lists, NEW i \in Issues,
           NEW copy \in Entity \cup {None}, NEW p,
           NEW t \in 0 .. Len(log), NEW h \in 0 .. Len(log), NEW own \in SUBSET Mutations,
           \A m \in own : Started(m) /\ Goes(m, l),
           Explains(l, i, copy, p, t, h, own)
    PROVE  Explains(l, i, copy, p, t, h, own)'
<1>1. PICK was, then : was = StateAt(t)[i] /\ then = StateAt(h)[i]
  OBVIOUS
<1>2. StateAt(t)'[i] = was /\ StateAt(h)'[i] = then
  BY <1>1, Advancing
<1>3. was = None => p = None
  BY <1>1 DEF Explains
<1>4. ASSUME copy # None
      PROVE  /\ Place(l, was) # None
             /\ copy = Now'[i] \/ Owed(i, h)' \/ \E m \in own : Changing(m, l, i, h)'
  <2>1. Place(l, was) # None /\ (copy = Now[i] \/ Owed(i, h) \/ \E m \in own : Changing(m, l, i, h))
    BY <1>1, <1>4 DEF Explains
  <2>2. CASE copy = Now[i]
    BY <1>4, <2>1, <2>2, CopyStays
  <2>3. CASE Owed(i, h)
    BY <2>1, <2>3, OwedStays
  <2>4. ASSUME NEW m \in own, Changing(m, l, i, h) PROVE Changing(m, l, i, h)' \/ Owed(i, h)'
    BY <2>4, ChangingStays
  <2>. QED
    BY <2>1, <2>2, <2>3, <2>4
<1>5. ASSUME copy = None
      PROVE  \/ p \in {Place(l, was), Place(l, then)} /\ \A m \in own : Neutral(m, l, i, h)'
             \/ \E m \in own : Removing(m, l, i)'
             \/ p = None /\ \E m \in own : Leaving(m, l, i, h)'
  <2>1. \/ p \in {Place(l, was), Place(l, then)} /\ \A m \in own : Neutral(m, l, i, h)
        \/ \E m \in own : Removing(m, l, i)
        \/ p = None /\ \E m \in own : Leaving(m, l, i, h)
    BY <1>1, <1>5 DEF Explains
  <2>2. \A m \in own : /\ Neutral(m, l, i, h) => Neutral(m, l, i, h)'
                       /\ Removing(m, l, i) => Removing(m, l, i)'
                       /\ Leaving(m, l, i, h) => Leaving(m, l, i, h)'
    BY NeutralStays, RemovingStays, LeavingStays
  <2>. QED
    BY <2>1, <2>2
<1>. QED
  BY <1>2, <1>3, <1>4, <1>5 DEF Explains

\* What explains a list still does.
LEMMA ExplainedOn ==
    ASSUME Base, Base', Advances, NEW l \in Lists, NEW data \in Data,
           NEW since \in 0 .. Len(log), NEW own \in SUBSET Mutations,
           \A m \in own : Started(m) /\ Goes(m, l),
           Explained(l, data, since, own)
    PROVE  Explained(l, data, since, own)'
<1>1. PICK P \in Columns :
        /\ Fits(data, P)
        /\ \A i \in Issues : Explains(l, i, Seen(data, i), P[i], Later(since), Handled, own)
  BY DEF Explained
<1>2. PICK h \in 0 .. Len(log) : h = Handled /\ h = Handled'
  BY Advancing
<1>3. PICK t \in 0 .. Len(log) : t = Later(since) /\ t = Later(since)'
  BY <1>2 DEF Later
<1>4. ASSUME NEW i \in Issues PROVE Explains(l, i, Seen(data, i), P[i], t, h, own)'
  <2>1. PICK copy \in Entity \cup {None} : copy = Seen(data, i)
    BY NotSeen
  <2>2. PICK p : p = P[i]
    OBVIOUS
  <2>3. Explains(l, i, copy, p, t, h, own)
    BY <1>1, <1>2, <1>3, <2>1, <2>2
  <2>4. Explains(l, i, copy, p, t, h, own)'
    BY <2>3, ExplainsOn
  <2>. QED
    BY <2>1, <2>2, <2>4
<1>. QED
  BY <1>1, <1>2, <1>3, <1>4 DEF Explained

-----------------------------------------------------------------------------
(* The lists at rest, step by step                                         *)

Hold(l) == ListOf(l) /\ \A m \in Mutations : SavedOf(m, l)

\* A list that is loaded again has nothing to hold until it is.
LEMMA Noisy == ASSUME NEW l, ~Quiet(l)' PROVE Hold(l)'
BY DEF Hold, ListOf, SavedOf

\* A list at rest, and the calls of which it has had the change, while the server goes on.
Still(l) ==
    /\ Advances /\ Quiet(l)
    /\ list'[l].since = list[l].since
    /\ \A m \in list[l].own : m \in list'[l].own => Goes(m, l)

\* What is saved is kept, or it is not needed any more.
SavedKept(l) == \A m \in Mutations : mutation'[m].saved[l] # None =>
    /\ mutation'[m].saved[l] = mutation[m].saved[l] /\ mutation'[m].wrote[l] = mutation[m].wrote[l]
    /\ mutation'[m].at = mutation[m].at

\* What is saved stays explained.
LEMMA SavedStays ==
    ASSUME Base, Base', NEW l \in Lists, Still(l), NEW m \in Mutations, SavedOf(m, l),
           mutation'[m].saved[l] # None =>
               /\ mutation'[m].saved[l] = mutation[m].saved[l]
               /\ mutation'[m].wrote[l] = mutation[m].wrote[l]
               /\ mutation'[m].at = mutation[m].at,
           \A k \in list'[l].own : k \in list[l].own \/ ~Started(k)
    PROVE  SavedOf(m, l)'
<1>. SUFFICES ASSUME mutation'[m].saved[l] # None, Handled' = mutation'[m].at,
                     list'[l].since = mutation'[m].wrote[l].since,
                     mutation'[m].wrote[l].own \subseteq list'[l].own
              PROVE  SavedOf(m, l)'
  BY DEF SavedOf
<1>1. /\ mutation'[m].saved[l] = mutation[m].saved[l] /\ mutation'[m].wrote[l] = mutation[m].wrote[l]
      /\ mutation'[m].at = mutation[m].at /\ Advances /\ Quiet(l) /\ list'[l].since = list[l].since
  BY DEF Still
<1>2. TypeInv /\ ContextOf(m) /\ mutation[m].saved[l] # None
  BY <1>1 DEF Base, Contexts
<1>3. PICK saved \in Query, wrote \in Query : saved = mutation[m].saved[l] /\ wrote = mutation[m].wrote[l]
  BY <1>2, CallParts DEF ContextOf
<1>4. PICK data \in Data : data = saved.data
  BY <1>2, <1>3, QueryParts DEF ContextOf
<1>5. PICK own \in SUBSET Mutations : own = wrote.own \ {m}
  BY QueryParts
<1>6. \A k \in wrote.own : Started(k) /\ k \in list[l].own /\ k \in list'[l].own
  BY <1>1, <1>2, <1>3 DEF ContextOf
<1>7. PICK since \in 0 .. Len(log) : since = list[l].since
  <2>1. SeenBy(l)
    BY DEF Base, Sights
  <2>2. list[l].since \in Nat /\ Len(log) \in Nat
    BY <1>2, ListParts, Lengths
  <2>. QED
    BY <2>1, <2>2 DEF SeenBy
<1>8. Explained(l, data, since, own)
  <2>1. Handled = mutation[m].at
    BY <1>1 DEF Advances
  <2>2. wrote.own \subseteq list[l].own
    BY <1>6
  <2>. QED
    BY <1>1, <1>2, <1>3, <1>4, <1>5, <1>7, <2>1, <2>2 DEF SavedOf
<1>9. \A k \in own : Started(k) /\ Goes(k, l)
  BY <1>5, <1>6 DEF Still
<1>10. Explained(l, data, since, own)'
  BY <1>1, <1>8, <1>9, ExplainedOn
<1>. QED
  BY <1>1, <1>3, <1>4, <1>5, <1>7, <1>10 DEF SavedOf

\* A list to which nothing happens stays explained.
LEMMA ListStays ==
    ASSUME Base, Base', NEW l \in Lists, Still(l), ListOf(l), SavedKept(l),
           list'[l].data = list[l].data, list'[l].own = list[l].own
    PROVE  ListOf(l)'
<1>1. Advances /\ Quiet(l) /\ list'[l].since = list[l].since /\ TypeInv
  BY DEF Still, Base
<1>2. PICK data \in Data : data = list[l].data
  BY <1>1, ListParts DEF Quiet, Calm
<1>3. PICK own \in SUBSET Mutations : own = list[l].own
  BY <1>1, ListParts
<1>4. SeenBy(l)
  BY DEF Base, Sights
<1>5. PICK since \in 0 .. Len(log) : since = list[l].since
  <2>1. list[l].since \in Nat /\ Len(log) \in Nat
    BY <1>1, ListParts, Lengths
  <2>. QED
    BY <1>4, <2>1 DEF SeenBy
<1>6. \A k \in own : Started(k) /\ Goes(k, l)
  BY <1>3, <1>4 DEF SeenBy, Still
<1>7. Explained(l, data, since, own)
  BY <1>1, <1>2, <1>3, <1>5 DEF ListOf
<1>8. Explained(l, data, since, own)'
  BY <1>1, <1>6, <1>7, ExplainedOn
<1>. QED
  BY <1>1, <1>2, <1>3, <1>5, <1>8 DEF ListOf

\* Both.
LEMMA StillHolds ==
    ASSUME Base, Base', NEW l \in Lists, Still(l), Hold(l), SavedKept(l),
           list'[l].data = list[l].data, list'[l].own = list[l].own
    PROVE  Hold(l)'
<1>1. ListOf(l)'
  BY ListStays DEF Hold
<1>2. ASSUME NEW m \in Mutations PROVE SavedOf(m, l)'
  BY SavedStays DEF Hold, SavedKept
<1>. QED
  BY <1>1, <1>2 DEF Hold

\* Nothing is heard of and no call goes on.
LEMMA NothingHolds ==
    ASSUME Base, Base', UNCHANGED <<frames, log, mutation>>, NEW l \in Lists, Hold(l),
           Quiet(l)' => Quiet(l) /\ list'[l] = list[l]
    PROVE  Hold(l)'
<1>1. CASE ~Quiet(l)'
  BY <1>1, Noisy
<1>2. CASE Quiet(l)'
  <2>1. log \in Seq(Entry) /\ Len(log) \in Nat
    BY Lengths DEF Base
  <2>2. Advances
    BY <2>1, Ungrown DEF Advances, Handled
  <2>3. \A m : Goes(m, l)
    BY Unlogged DEF Goes
  <2>4. Still(l) /\ SavedKept(l)
    BY <1>2, <2>2, <2>3 DEF Still, SavedKept
  <2>. QED
    BY <1>2, <2>4, StillHolds
<1>. QED
  BY <1>1, <1>2

\* The connection.
LEMMA ConnectionHolds ==
    ASSUME Base, Base', NEW l \in Lists, Hold(l), Connection
    PROVE  Hold(l)'
<1>1. TypeInv /\ WireInv /\ UNCHANGED <<log, mutation>>
  BY DEF Base, Connection, IsUp, Registers, Quietly, Drops, Retries, Leaves, Returns
<1>2. socket \in Socket /\ list[l] \in Query
  BY <1>1, ListParts DEF TypeInv, SocketInv
<1>3. CASE ~Quiet(l)'
  BY <1>3, Noisy
<1>4. CASE Quiet(l)'
  <2>1. list'[l] = list[l] /\ Calm(list[l]) /\ \A m \in Mutations : l \notin mutation[m].stale
    BY <1>1, <1>4, ConnectionFollows DEF Quiet, Follows
  <2>2. /\ socket'.phase \in {"opening", "up", "waiting"}
        /\ socket'.phase # "up" => ~socket'.met
    BY <1>4 DEF Quiet
  <2>3. ~Calm(Invalidated(list[l], l))
    BY <1>2, FollowsInvalidated
  <2>4. list' # AllInvalidated
    BY <1>4, <2>3 DEF AllInvalidated, Quiet
  <2>5. /\ frames' = frames
        /\ socket.phase \in {"opening", "up", "waiting"} /\ (socket.phase # "up" => ~socket.met)
    <3>1. CASE IsUp
      BY <1>2, <2>4, <3>1 DEF IsUp, Opens, Recovers, Socket
    <3>2. CASE Registers
      BY <3>2 DEF Registers, ServerRegisters
    <3>3. CASE Drops
      <4>1. /\ socket.phase \in {"opening", "up"} /\ frames' = <<>>
            /\ socket'.phase = "waiting" /\ socket'.met = socket.met
        BY <1>2, <3>3 DEF Drops, Closes, Socket
      <4>2. ~socket.met /\ socket.phase # "up" /\ frames = <<>>
        BY <1>1, <2>2, <4>1 DEF WireInv
      <4>. QED
        BY <4>1, <4>2
    <3>4. CASE Retries
      BY <1>2, <2>2, <3>4 DEF Retries, ReconnectTimer, Socket
    <3>5. CASE Leaves
      BY <1>2, <2>2, <3>5 DEF Leaves, Disconnects, Socket
    <3>6. CASE Returns
      BY <2>4, <3>6 DEF Returns
    <3>. QED
      BY <3>1, <3>2, <3>3, <3>4, <3>5, <3>6 DEF Connection
  <2>6. Quiet(l)
    BY <2>1, <2>5 DEF Quiet
  <2>. QED
    BY <1>1, <2>1, <2>5, <2>6, NothingHolds
<1>. QED
  BY <1>3, <1>4

\* A list is at rest after a step only if it was before.
LEMMA QuietBefore ==
    ASSUME UNCHANGED socket, NEW l, Calm(list[l]),
           \A m \in Mutations : mutation[m].stale # {} =>
               l \notin mutation[m].stale \/ mutation'[m].stale = mutation[m].stale,
           Quiet(l)'
    PROVE  Quiet(l)
BY DEF Quiet

\* A commit, for a list at rest.
LEMMA CommitStill ==
    ASSUME Base, Base', NEW i \in Issues, NEW now \in Entity \cup {None},
           NEW by \in Mutations \cup {None}, Commit(i, now, by),
           \A m \in Mutations : mutation'[m].stale = mutation[m].stale,
           NEW l \in Lists, Quiet(l)'
    PROVE  /\ Advances /\ Quiet(l) /\ list'[l].since = list[l].since
           /\ list'[l].data = list[l].data /\ list'[l].own = list[l].own
           /\ \A m : m # by => Of(m)' = Of(m)
<1>. DEFINE e == [id |-> i, now |-> now, by |-> by]
<1>1. TypeInv /\ WireInv /\ FramesExact /\ TypeInv'
  BY DEF Base
<1>2. /\ Follows(list'[l], list[l], {}) /\ list'[l].data = list[l].data /\ list'[l].own = list[l].own
      /\ Unrecovered /\ list[l].data # None => ~Calm(list'[l])
  BY <1>1, CommitFollows
<1>3. UNCHANGED socket /\ log' = Append(log, e) /\ Publish(Len(log) + 1)
  BY DEF Commit
<1>4. e \in Entry /\ e.by = by
  BY DEF Entry
<1>5. log \in Seq(Entry) /\ log' \in Seq(Entry)
  BY <1>1, Lengths DEF TypeInv, ServerInv
<1>6. Calm(list[l]) /\ Calm(list'[l])
  BY <1>2 DEF Quiet, Follows
<1>7. Quiet(l)
  BY <1>3, <1>6, QuietBefore
<1>8. socket.registered
  BY <1>2, <1>6, <1>7 DEF Unrecovered, Quiet, Calm
<1>. HIDE DEF e
<1>9. Grows /\ Len(log') = Len(log) + 1 /\ log'[Len(log) + 1] = e
      /\ \A n \in Len(log) + 1 .. Len(log') : n = Len(log) + 1
  BY <1>3, <1>4, <1>5, Appended
<1>10. Handled' = Handled
  BY <1>1, <1>3, <1>4, <1>8, WireCommits
<1>11. Advances
  <2>1. Len(log') <= Len(log) + 1
    BY <1>5, <1>9
  <2>. QED
    BY <1>9, <1>10, <2>1 DEF Advances
<1>12. \A m : m # by => Of(m)' = Of(m)
  <2>1. ASSUME NEW m, m # by PROVE Of(m)' = Of(m)
    <3>1. \A n \in Len(log) + 1 .. Len(log') : log'[n].by # m
      BY <1>4, <1>9, <2>1
    <3>. QED
      BY <1>5, <1>9, <3>1, OfSame
  <2>. QED
    BY <2>1
<1>. QED
  BY <1>2, <1>7, <1>11, <1>12 DEF Follows

\* The commits of others.
LEMMA OthersHold ==
    ASSUME Base, Base', NEW l \in Lists, Hold(l), Others
    PROVE  Hold(l)'
<1>1. PICK i \in Issues, now \in Entity \cup {None} :
        /\ Commit(i, now, None) /\ UNCHANGED mutation
        /\ Now[i] = None => now # None /\ \A k \in 1 .. Len(log) : log[k].id # i
  BY OthersCommit DEF Base
<1>2. CASE ~Quiet(l)'
  BY <1>2, Noisy
<1>3. CASE Quiet(l)'
  <2>1. /\ Advances /\ Quiet(l) /\ list'[l].since = list[l].since
        /\ list'[l].data = list[l].data /\ list'[l].own = list[l].own
        /\ \A m : m # None => Of(m)' = Of(m)
    BY <1>1, <1>3, CommitStill
  <2>2. list[l].own \in SUBSET Mutations
    BY ListParts DEF Base
  <2>3. \A m \in Mutations : Goes(m, l)
    BY <1>1, <2>1, MutationsAssumption DEF Goes
  <2>4. Still(l) /\ SavedKept(l)
    BY <1>1, <2>1, <2>2, <2>3 DEF Still, SavedKept
  <2>. QED
    BY <2>1, <2>4, StillHolds
<1>. QED
  BY <1>2, <1>3

\* The server does what a call asks for.
LEMMA ServerHolds ==
    ASSUME Base, Base', NEW l \in Lists, Hold(l), NEW m \in Mutations,
           \/ ServerUpdates(m) \/ ServerDeletes(m) \/ \E i \in Issues : ServerCreates(m, i)
    PROVE  Hold(l)'
<1>1. PICK i \in Issues, now \in Entity \cup {None} : ServerDoes(m, i, now)
  BY ServerDoing DEF Base
<1>2. PICK c \in Call : c = mutation[m] /\ mutation \in [Mutations -> Call]
  BY DEF Base, TypeInv, CallsInv
<1>3. PICK d : d = [c EXCEPT !.status = "done", !.id = i, !.answer = now]
  OBVIOUS
<1>4. /\ d.kind = c.kind /\ d.patch = c.patch
      /\ d.stale = c.stale /\ d.at = c.at /\ d.saved = c.saved /\ d.wrote = c.wrote /\ d.id = i
  BY <1>2, <1>3 DEF Call
<1>5. mutation'[m] = d /\ \A k \in Mutations \ {m} : mutation'[k] = mutation[k]
  BY <1>1, <1>2, <1>3 DEF ServerDoes, Done
<1>6. ASSUME NEW k \in list[l].own, Advances, \A j : j # m => Of(j)' = Of(j) PROVE Goes(k, l)
  <2>1. k \in Mutations /\ Started(k)
    BY <1>6, ListParts DEF Base, Sights, SeenBy
  <2>2. CASE k # m
    BY <1>5, <1>6, <2>1, <2>2 DEF Goes
  <2>3. CASE k = m
    BY <1>1, <1>2, <1>4, <1>5, <2>1, <2>3 DEF Goes, ServerDoes, Started
  <2>. QED
    BY <2>2, <2>3
<1>7. \A k \in Mutations : mutation'[k].stale = mutation[k].stale
  BY <1>2, <1>4, <1>5
<1>8. CASE ~Quiet(l)'
  BY <1>8, Noisy
<1>9. CASE Quiet(l)'
  <2>1. /\ Advances /\ Quiet(l) /\ list'[l].since = list[l].since
        /\ list'[l].data = list[l].data /\ list'[l].own = list[l].own
        /\ \A k : k # m => Of(k)' = Of(k)
    <3>1. /\ Commit(i, now, m) /\ m \in Mutations \cup {None}
      BY <1>1 DEF ServerDoes
    <3>. QED
      BY <1>7, <1>9, <3>1, CommitStill
  <2>2. Still(l)
    BY <1>6, <2>1 DEF Still
  <2>3. SavedKept(l)
    BY <1>2, <1>4, <1>5 DEF SavedKept
  <2>. QED
    BY <2>1, <2>2, <2>3, StillHolds
<1>. QED
  BY <1>8, <1>9

\* A load that is not complete, or of something else.
LEMMA LoadHolds ==
    ASSUME Base, Base', NEW l \in Lists, Hold(l), Loads, ~Loaded(l)
    PROVE  Hold(l)'
<1>1. TypeInv
  BY DEF Base
<1>2. UNCHANGED <<socketVars, log, mutation>>
  BY DEF Loads, View, Loaded, LoadFails, ReadPage, AskDetail, DetailArrives
<1>3. Calm(list'[l]) => list'[l] = list[l]
  <2>1. CASE \E k \in Lists : View(k) \/ LoadFails(k)
    BY <1>1, <2>1, LoadFollows
  <2>2. CASE \E k \in Lists : \E s \in Statuses : ReadPage(k, s)
    <3>1. PICK k \in Lists, s \in Statuses : ReadPage(k, s)
      BY <2>2
    <3>2. list \in [Lists -> Query]
      BY <1>1 DEF TypeInv, ClientInv
    <3>3. CASE k # l
      BY <3>1, <3>2, <3>3 DEF ReadPage
    <3>4. CASE k = l
      <4>1. list[l].fetch \in Fetch
        BY <3>1, <3>2, <3>4, QueryParts DEF ReadPage
      <4>2. PICK n \in Commits :
              n = IF list[l].fetch = NoPages THEN Len(log) ELSE list[l].fetch.first
        BY <1>1, <4>1, NowType DEF TypeInv, Fetch
      <4>3. PICK b \in Bucket : b = Page(Now, l, s, 0)
        BY <1>1, NowType, PageType DEF TypeInv
      <4>4. PICK f \in Fetch : f = [pages |-> [list[l].fetch.pages EXCEPT ![s] = b],
                                    first |-> n, last |-> Len(log)]
        BY <1>1, <4>1, NowType DEF TypeInv, Fetch
      <4>5. list' = [list EXCEPT ![l].fetch = f]
        BY <3>1, <3>4, <4>2, <4>3, <4>4 DEF ReadPage
      <4>6. list'[l].fetch = f
        BY <3>2, <4>5 DEF Query
      <4>. QED
        BY <4>6, QueryAssumption DEF Calm
    <3>. QED
      BY <3>3, <3>4
  <2>3. CASE \E i \in Issues : AskDetail(i) \/ DetailArrives(i)
    BY <2>3 DEF AskDetail, DetailArrives
  <2>4. CASE \E k \in Lists : Loaded(k)
    <3>1. PICK k \in Lists : Loaded(k) /\ k # l
      BY <2>4
    <3>2. list \in [Lists -> Query]
      BY <1>1 DEF TypeInv, ClientInv
    <3>. QED
      BY <3>1, <3>2 DEF Loaded
  <2>. QED
    BY <2>1, <2>2, <2>3, <2>4 DEF Loads
<1>4. Quiet(l)' => Quiet(l) /\ list'[l] = list[l]
  BY <1>2, <1>3 DEF Quiet, socketVars
<1>. QED
  BY <1>2, <1>4, NothingHolds DEF socketVars

\* A call goes on, and a list that is at rest afterwards is as it was.
LEMMA CallHolds ==
    ASSUME Base, Base', UNCHANGED <<socketVars, log>>, NEW m \in Mutations,
           \A k \in Mutations \ {m} : mutation'[k] = mutation[k],
           NEW l \in Lists, Hold(l),
           Calm(list'[l]) => list'[l] = list[l],
           mutation[m].stale # {} => l \notin mutation[m].stale \/ mutation'[m].stale = mutation[m].stale,
           Goes(m, l) \/ ~Started(m),
           mutation'[m].saved[l] # None =>
               /\ mutation'[m].saved[l] = mutation[m].saved[l]
               /\ mutation'[m].wrote[l] = mutation[m].wrote[l]
               /\ mutation'[m].at = mutation[m].at
    PROVE  Hold(l)'
<1>1. CASE ~Quiet(l)'
  BY <1>1, Noisy
<1>2. CASE Quiet(l)'
  <2>1. TypeInv /\ UNCHANGED socket /\ log \in Seq(Entry) /\ Len(log) \in Nat
    BY Lengths DEF Base, socketVars
  <2>2. list'[l] = list[l] /\ Calm(list[l])
    BY <1>2 DEF Quiet
  <2>3. \A k \in Mutations : mutation[k].stale # {} =>
            l \notin mutation[k].stale \/ mutation'[k].stale = mutation[k].stale
    OBVIOUS
  <2>4. Quiet(l)
    BY <1>2, <2>1, <2>2, <2>3, QuietBefore
  <2>5. Advances
    BY <2>1, Ungrown DEF Advances, Handled, socketVars
  <2>6. ASSUME NEW k \in list[l].own PROVE Goes(k, l)
    <3>1. k \in Mutations /\ Started(k)
      BY <2>1, <2>6, ListParts DEF Base, Sights, SeenBy
    <3>2. k # m => Goes(k, l)
      BY <3>1, Unlogged DEF Goes
    <3>. QED
      BY <3>1, <3>2
  <2>7. Still(l)
    BY <2>2, <2>4, <2>5, <2>6 DEF Still
  <2>8. SavedKept(l)
    BY DEF SavedKept
  <2>. QED
    BY <2>2, <2>7, <2>8, StillHolds
<1>. QED
  BY <1>1, <1>2

\* A creation begins.
LEMMA StartCreateHolds ==
    ASSUME Base, Base', NEW l \in Lists, Hold(l), NEW m \in Mutations, NEW e \in Drafts,
           StartCreate(m, e)
    PROVE  Hold(l)'
<1>1. ContextOf(m) /\ mutation \in [Mutations -> Call]
  BY DEF Base, Contexts, TypeInv, CallsInv
<1>2. PICK c : c = [NoCall EXCEPT !.kind = "create", !.answer = e]
  OBVIOUS
<1>3. c.saved[l] = None
  BY <1>2 DEF NoCall
<1>4. /\ UNCHANGED <<socketVars, log, list>> /\ mutation[m].kind = "none"
      /\ mutation'[m] = c /\ \A k \in Mutations \ {m} : mutation'[k] = mutation[k]
  BY <1>1, <1>2 DEF StartCreate, Begin
<1>5. ~Started(m) /\ mutation[m].stale = {}
  BY <1>1, <1>4 DEF Started, ContextOf
<1>. QED
  BY <1>3, <1>4, <1>5, CallHolds

\* A call is refused.
LEMMA RefusedHolds ==
    ASSUME Base, Base', NEW l \in Lists, Hold(l), NEW m \in Mutations,
           ServerRefuses(m) \/ RequestFails(m)
    PROVE  Hold(l)'
<1>1. PICK c \in Call : c = mutation[m] /\ mutation \in [Mutations -> Call]
  BY DEF Base, TypeInv, CallsInv
<1>2. PICK d : d = [c EXCEPT !.status = "refused"]
  OBVIOUS
<1>3. /\ d.kind = c.kind /\ d.id = c.id /\ d.patch = c.patch
      /\ d.stale = c.stale /\ d.at = c.at /\ d.saved = c.saved /\ d.wrote = c.wrote
  BY <1>1, <1>2 DEF Call
<1>4. /\ UNCHANGED <<socketVars, log, list>>
      /\ mutation'[m] = d /\ \A k \in Mutations \ {m} : mutation'[k] = mutation[k]
  BY <1>1, <1>2 DEF ServerRefuses, RequestFails, Refused, client
<1>5. Goes(m, l)
  BY <1>1, <1>3, <1>4, Unlogged DEF Goes
<1>. QED
  BY <1>1, <1>3, <1>4, <1>5, CallHolds

\* A creation is answered, or a deletion is done.
LEMMA OthersSettleHold ==
    ASSUME Base, Base', NEW l \in Lists, Hold(l), NEW m \in Mutations,
           CreateSettles(m) \/ DeleteSucceeds(m)
    PROVE  Hold(l)'
<1>1. TypeInv /\ ContextOf(m) /\ mutation \in [Mutations -> Call]
  BY DEF Base, Contexts, TypeInv, CallsInv
<1>2. /\ UNCHANGED <<socketVars, log>> /\ mutation[m].kind \in {"create", "delete"}
      /\ CreateSettles(m) => mutation[m].kind = "create"
      /\ mutation'[m] = Over /\ \A k \in Mutations \ {m} : mutation'[k] = mutation[k]
  BY <1>1 DEF CreateSettles, DeleteSucceeds, Settle
<1>3. mutation[m].stale = {} /\ Over.saved[l] = None /\ Over.kind = "over"
  BY <1>1, <1>2 DEF ContextOf, Over, NoCall
<1>4. Calm(list'[l]) => CreateSettles(m) /\ list'[l] = list[l]
  BY <1>1, OthersSettleList
<1>5. CASE ~Quiet(l)'
  BY <1>5, Noisy
<1>6. CASE Quiet(l)'
  <2>1. ~Started(m)
    BY <1>2, <1>4, <1>6 DEF Quiet, Started
  <2>. QED
    BY <1>2, <1>3, <1>4, <2>1, CallHolds
<1>. QED
  BY <1>5, <1>6

\* A change has failed, and each list it wrote is put back.
LEMMA FailsHold ==
    ASSUME Base, Base', NEW l \in Lists, Hold(l), NEW m \in Mutations,
           UpdateFails(m) \/ DeleteFails(m)
    PROVE  Hold(l)'
<1>1. TypeInv /\ ContextOf(m) /\ mutation \in [Mutations -> Call] /\ FramesExact
  BY DEF Base, Contexts, TypeInv, CallsInv
<1>2. /\ UNCHANGED <<socketVars, log>> /\ mutation[m].kind \in {"update", "delete"}
      /\ mutation'[m] = Over /\ \A k \in Mutations \ {m} : mutation'[k] = mutation[k]
  BY <1>1 DEF UpdateFails, DeleteFails, Settle
<1>3. Over.saved[l] = None /\ Over.kind = "over"
  BY DEF Over, NoCall
<1>4. /\ Follows(list'[l], list[l], {})
      /\ Calm(list'[l]) =>
           /\ l \notin mutation[m].stale
           /\ mutation[m].saved[l] = None => list'[l] = list[l]
           /\ mutation[m].saved[l] # None =>
                /\ list'[l].own = list[l].own \ {m}
                /\ list'[l].data = mutation[m].saved[l].data
                /\ Undisturbed(list[l], m, l)
  BY <1>1, FailsList
<1>5. CASE ~Quiet(l)'
  BY <1>5, Noisy
<1>6. CASE Quiet(l)' /\ mutation[m].saved[l] = None
  <2>1. list'[l] = list[l] /\ l \notin mutation[m].stale
    BY <1>4, <1>6 DEF Quiet
  <2>2. Goes(m, l)
    BY <1>2, <1>3, <1>6, Unlogged DEF Goes
  <2>. QED
    BY <1>2, <1>3, <2>1, <2>2, CallHolds
<1>7. CASE Quiet(l)' /\ mutation[m].saved[l] # None
  <2>1. /\ list'[l].own = list[l].own \ {m} /\ list'[l].data = mutation[m].saved[l].data
        /\ Undisturbed(list[l], m, l) /\ l \notin mutation[m].stale
        /\ list'[l].since = list[l].since /\ Calm(list[l])
    BY <1>4, <1>7 DEF Quiet, Follows
  <2>2. log \in Seq(Entry) /\ Len(log) \in Nat /\ Handled \in 0 .. Len(log)
    BY <1>1, Lengths
  <2>3. Advances
    BY <1>2, <2>2, Ungrown DEF Advances, Handled, socketVars
  <2>4. Quiet(l)
    <3>1. \A k \in Mutations : mutation[k].stale # {} =>
              l \notin mutation[k].stale \/ mutation'[k].stale = mutation[k].stale
      BY <1>2, <2>1
    <3>. QED
      BY <1>2, <1>7, <2>1, <3>1, QuietBefore DEF socketVars
  <2>5. \A k \in Mutations \ {m} : Goes(k, l)
    BY <1>2, Unlogged DEF Goes
  <2>6. \A k \in list[l].own : k \in Mutations /\ Started(k)
    BY <1>1, ListParts DEF Base, Sights, SeenBy
  <2>7. Still(l)
    BY <2>1, <2>3, <2>4, <2>5, <2>6 DEF Still
  <2>8. ASSUME NEW k \in Mutations PROVE SavedOf(k, l)'
    <3>1. SavedOf(k, l)
      BY DEF Hold
    <3>2. \A j \in list'[l].own : j \in list[l].own
      BY <2>1
    <3>. QED
      BY <1>2, <1>3, <2>7, <3>1, <3>2, SavedStays
  <2>9. PICK saved \in Query, wrote \in Query : saved = mutation[m].saved[l] /\ wrote = mutation[m].wrote[l]
    BY <1>1, <1>7, CallParts DEF ContextOf
  <2>10. PICK data \in Data : data = saved.data
    BY <1>1, <1>7, <2>9, QueryParts DEF ContextOf
  <2>11. wrote.own = list[l].own /\ wrote.since = list[l].since
    BY <2>1, <2>9 DEF Undisturbed
  <2>12. PICK own \in SUBSET Mutations : own = list[l].own \ {m}
    BY <2>6
  <2>13. PICK since \in 0 .. Len(log) : since = list[l].since
    <3>1. list[l].since \in Nat /\ SeenBy(l)
      BY <1>1, ListParts DEF Base, Sights
    <3>. QED
      BY <2>2, <3>1 DEF SeenBy
  <2>14. Handled = mutation[m].at
    <3>1. mutation[m].at \in Nat /\ mutation[m].at <= Handled
      BY <1>1, <1>2, BoundAssumption DEF ContextOf, Call, Commits
    <3>2. ASSUME mutation[m].at < Handled PROVE FALSE
      <4>1. PICK k \in 1 .. Len(log) : k = mutation[m].at + 1
        BY <2>2, <3>1, <3>2
      <4>2. k \in mutation[m].at + 1 .. Len(log) /\ k <= Handled
        BY <2>2, <3>1, <3>2, <4>1
      <4>3. Pending(k)
        BY <2>1, <4>2 DEF Undisturbed
      <4>. QED
        BY <1>1, <2>2, <4>2, <4>3, PendingIs
    <3>. QED
      BY <2>2, <3>1, <3>2
  <2>15. Explained(l, data, since, own)
    <3>1. SavedOf(m, l)
      BY DEF Hold
    <3>. QED
      BY <1>7, <2>4, <2>9, <2>10, <2>11, <2>12, <2>13, <2>14, <3>1 DEF SavedOf
  <2>16. \A k \in own : Started(k) /\ Goes(k, l)
    BY <2>5, <2>6, <2>12
  <2>17. Explained(l, data, since, own)'
    BY <2>3, <2>15, <2>16, ExplainedOn
  <2>18. ListOf(l)'
    BY <2>1, <2>9, <2>10, <2>12, <2>13, <2>17 DEF ListOf
  <2>. QED
    BY <2>8, <2>18 DEF Hold
<1>. QED
  BY <1>5, <1>6, <1>7

-----------------------------------------------------------------------------
(* The user's own changes, for a list at rest                              *)

\* A list is explained when one issue has turned.
LEMMA ExplainedBy ==
    ASSUME NEW l \in Lists, NEW data \in Data, NEW after \in Data, NEW P \in Columns,
           NEW i \in Issues, NEW p \in Column, NEW copy, Turns(after, data, i, P, p, copy),
           NEW since, NEW own, NEW t, NEW h, t = Later(since)', h = Handled',
           \A j \in Issues \ {i} : Explains(l, j, Seen(data, j), P[j], t, h, own)',
           Explains(l, i, copy, p, t, h, own)'
    PROVE  Explained(l, after, since, own)'
<1>1. PICK Q \in Columns : Q = [P EXCEPT ![i] = p]
  BY DEF Columns
<1>2. Q[i] = p /\ \A j \in Issues \ {i} : Q[j] = P[j]
  BY <1>1 DEF Columns
<1>3. /\ Fits(after, Q) /\ Seen(after, i) = copy
      /\ \A j \in Issues \ {i} : Seen(after, j) = Seen(data, j)
  BY <1>1 DEF Turns
<1>4. ASSUME NEW j \in Issues PROVE Explains(l, j, Seen(after, j), Q[j], t, h, own)'
  <2>1. CASE j = i
    BY <1>2, <1>3, <2>1
  <2>2. CASE j # i
    <3>1. Q[j] = P[j] /\ Seen(after, j) = Seen(data, j)
      BY <1>2, <1>3, <2>2
    <3>2. Explains(l, j, Seen(data, j), P[j], t, h, own)'
      BY <2>2
    <3>. QED
      BY <3>1, <3>2
  <2>. QED
    BY <2>1, <2>2
<1>. QED
  BY <1>3, <1>4 DEF Explained

\* One more change that leaves an issue in its place.
LEMMA OneMore ==
    ASSUME NEW l, NEW i, NEW copy, NEW p, NEW t, NEW h, NEW own, NEW m,
           Explains(l, i, copy, p, t, h, own)', Neutral(m, l, i, h)'
    PROVE  Explains(l, i, copy, p, t, h, own \cup {m})'
<1>1. ASSUME copy # None
      PROVE  /\ Place(l, StateAt(t)'[i]) # None
             /\ copy = Now'[i] \/ Owed(i, h)' \/ \E k \in own \cup {m} : Changing(k, l, i, h)'
  BY <1>1 DEF Explains
<1>2. ASSUME copy = None
      PROVE  \/ /\ p \in {Place(l, StateAt(t)'[i]), Place(l, StateAt(h)'[i])}
                /\ \A k \in own \cup {m} : Neutral(k, l, i, h)'
             \/ \E k \in own \cup {m} : Removing(k, l, i)'
             \/ p = None /\ \E k \in own \cup {m} : Leaving(k, l, i, h)'
  BY <1>2 DEF Explains
<1>3. StateAt(t)'[i] = None => p = None
  BY DEF Explains
<1>. QED
  BY <1>1, <1>2, <1>3 DEF Explains

\* A change begins, of a list at rest: all is as it was until then.
LEMMA BeginsStill ==
    ASSUME Base, Base', NEW l \in Lists, Hold(l), Quiet(l)', NEW m \in Mutations,
           UNCHANGED <<socketVars, log>>, mutation[m].kind = "none",
           \A k \in Mutations \ {m} : mutation'[k] = mutation[k],
           Follows(list'[l], list[l], {m}), list'[l].own = list[l].own \cup {m},
           mutation'[m].kind \in {"update", "delete"}, mutation'[m].at = Handled,
           mutation'[m].saved[l] # None =>
               mutation'[m].saved[l] = list[l] /\ mutation'[m].wrote[l] = list'[l]
    PROVE  /\ Quiet(l) /\ Of(m) = {} /\ Of(m)' = {}
           /\ \A k \in Mutations : SavedOf(k, l)'
           /\ \E data \in Data, since \in 0 .. Len(log), own \in SUBSET Mutations :
                /\ data = list[l].data /\ since = list[l].since /\ since = list'[l].since
                /\ own = list[l].own /\ list'[l].own = own \cup {m}
                /\ Explained(l, data, since, own)'
<1>1. TypeInv /\ ContextOf(m) /\ LedgerOf(m) /\ SeenBy(l) /\ mutation[m].stale = {}
  BY DEF Base, Contexts, Ledger, Sights, ContextOf
<1>2. log \in Seq(Entry) /\ Len(log) \in Nat /\ list[l].since \in Nat
  BY <1>1, Lengths, ListParts
<1>3. Of(m) = {} /\ Of(m)' = {}
  <2>1. Of(m) = {}
    BY <1>1 DEF LedgerOf
  <2>. QED
    BY <2>1, Unlogged
<1>4. Advances
  BY <1>2, Ungrown DEF Advances, Handled, socketVars
<1>5. Quiet(l)
  <2>1. Calm(list[l])
    BY DEF Quiet, Follows
  <2>2. \A k \in Mutations : mutation[k].stale # {} =>
            l \notin mutation[k].stale \/ mutation'[k].stale = mutation[k].stale
    BY <1>1
  <2>. QED
    BY <2>1, <2>2, QuietBefore DEF socketVars
<1>6. PICK data \in Data : data = list[l].data
  BY <1>1, <1>5, ListParts DEF Quiet, Calm
<1>7. PICK own \in SUBSET Mutations : own = list[l].own
  BY <1>1, ListParts
<1>8. m \notin own /\ \A k \in own : Started(k)
  BY <1>1, <1>7 DEF SeenBy, Started
<1>9. \A k \in Mutations \ {m} : Goes(k, l)
  BY Unlogged DEF Goes
<1>10. PICK since \in 0 .. Len(log) : since = list[l].since /\ since = list'[l].since
  BY <1>1, <1>2 DEF SeenBy, Follows
<1>11. Explained(l, data, since, own)'
  <2>1. Explained(l, data, since, own)
    BY <1>5, <1>6, <1>7, <1>10 DEF Hold, ListOf
  <2>2. \A k \in own : Started(k) /\ Goes(k, l)
    BY <1>8, <1>9
  <2>. QED
    BY <1>4, <2>1, <2>2, ExplainedOn
<1>12. Still(l)
  BY <1>4, <1>5, <1>7, <1>8, <1>9, <1>10 DEF Still
<1>13. ASSUME NEW k \in Mutations PROVE SavedOf(k, l)'
  <2>1. CASE k # m
    <3>1. \A j \in list'[l].own : j \in list[l].own \/ ~Started(j)
      BY DEF Started
    <3>2. SavedOf(k, l) /\ mutation'[k] = mutation[k]
      BY <2>1 DEF Hold
    <3>. QED
      BY <1>12, <3>1, <3>2, SavedStays
  <2>2. CASE k = m
    <3>1. ASSUME mutation'[m].saved[l] # None
          PROVE  Explained(l, data, since, own)' /\ mutation'[m].saved[l].data = data
                 /\ mutation'[m].wrote[l].own \ {m} = own
      BY <1>6, <1>7, <1>8, <1>11, <3>1
    <3>. QED
      BY <1>10, <2>2, <3>1 DEF SavedOf
  <2>. QED
    BY <2>1, <2>2
<1>. QED
  BY <1>3, <1>5, <1>6, <1>7, <1>10, <1>11, <1>13

\* A call without a commit changes nothing for an issue that it is not about.
LEMMA OtherNeutral ==
    ASSUME NEW m, NEW l, NEW j, NEW h, Of(m)' = {}, mutation'[m].id # j
    PROVE  Neutral(m, l, j, h)'
BY DEF Neutral

\* A list is explained when the issue that a new call is about has turned.
LEMMA BeginTurns ==
    ASSUME NEW l \in Lists, NEW data \in Data, NEW after \in Data, NEW P \in Columns,
           NEW i \in Issues, NEW p \in Column, NEW copy, Turns(after, data, i, P, p, copy),
           NEW since, NEW own, NEW t, NEW h, t = Later(since)', h = Handled',
           NEW m, Of(m)' = {}, mutation'[m].id = i,
           \A j \in Issues : Explains(l, j, Seen(data, j), P[j], t, h, own)',
           Explains(l, i, copy, p, t, h, own \cup {m})'
    PROVE  Explained(l, after, since, own \cup {m})'
<1>1. ASSUME NEW j \in Issues \ {i}
      PROVE  Explains(l, j, Seen(data, j), P[j], t, h, own \cup {m})'
  BY OtherNeutral, OneMore
<1>2. PICK new : new = own \cup {m}
  OBVIOUS
<1>3. Explained(l, after, since, new)'
  BY <1>1, <1>2, ExplainedBy
<1>. QED
  BY <1>2, <1>3

\* The same, when the list stays as it is.
LEMMA BeginStays ==
    ASSUME NEW l \in Lists, NEW data \in Data, NEW P \in Columns, Fits(data, P),
           NEW i \in Issues, NEW since, NEW own, NEW t, NEW h, t = Later(since)', h = Handled',
           NEW m, Of(m)' = {}, mutation'[m].id = i,
           \A j \in Issues : Explains(l, j, Seen(data, j), P[j], t, h, own)',
           Explains(l, i, Seen(data, i), P[i], t, h, own \cup {m})'
    PROVE  Explained(l, data, since, own \cup {m})'
<1>1. ASSUME NEW j \in Issues \ {i}
      PROVE  Explains(l, j, Seen(data, j), P[j], t, h, own \cup {m})'
  BY OtherNeutral, OneMore
<1>. QED
  BY <1>1 DEF Explained

\* A deletion begins.
LEMMA StartDeleteHolds ==
    ASSUME Base, Base', NEW l \in Lists, Hold(l), NEW m \in Mutations, NEW i \in Issues,
           StartDelete(m, i)
    PROVE  Hold(l)'
<1>1. TypeInv
  BY DEF Base
<1>2. CASE ~Quiet(l)'
  BY <1>2, Noisy
<1>3. CASE Quiet(l)'
  <2>1. /\ UNCHANGED <<socketVars, log>> /\ mutation[m].kind = "none"
        /\ \A k \in Mutations \ {m} : mutation'[k] = mutation[k]
        /\ mutation'[m].kind = "delete" /\ mutation'[m].id = i /\ mutation'[m].at = Handled
        /\ mutation'[m].saved[l] # None =>
               mutation'[m].saved[l] = list[l] /\ mutation'[m].wrote[l] = list'[l]
        /\ list[l].data # None => mutation'[m].saved[l] = list[l]
    BY <1>1, StartDeleteCall
  <2>2. /\ Follows(list'[l], list[l], {m}) /\ list'[l].own = list[l].own \cup {m}
        /\ list[l].data # None => list'[l].data = RemoveCard(list[l].data, i)
    BY <1>1, StartDeleteList
  <2>3. /\ Quiet(l) /\ Of(m)' = {}
        /\ \A k \in Mutations : SavedOf(k, l)'
        /\ \E data \in Data, since \in 0 .. Len(log), own \in SUBSET Mutations :
             /\ data = list[l].data /\ since = list[l].since /\ since = list'[l].since
             /\ own = list[l].own /\ list'[l].own = own \cup {m}
             /\ Explained(l, data, since, own)'
    BY <1>3, <2>1, <2>2, BeginsStill
  <2>4. PICK data \in Data, since \in 0 .. Len(log), own \in SUBSET Mutations :
          /\ data = list[l].data /\ since = list'[l].since /\ list'[l].own = own \cup {m}
          /\ Explained(l, data, since, own)'
    BY <2>3
  <2>5. PICK h, t : h = Handled' /\ t = Later(since)'
    OBVIOUS
  <2>6. PICK P \in Columns :
          /\ Fits(data, P)
          /\ \A j \in Issues : Explains(l, j, Seen(data, j), P[j], t, h, own)'
    BY <2>4, <2>5 DEF Explained
  <2>7. list[l].data # None /\ list[l] # None
    BY <1>1, <2>3, ListParts, QueryAssumption DEF Quiet, Calm
  <2>8. PICK after \in Data : after = RemoveCard(data, i) /\ after = list'[l].data
    BY <2>2, <2>4, <2>7, RemoveCardType
  <2>9. Removing(m, l, i)'
    BY <2>1, <2>7 DEF Removing
  <2>10. CASE Shows(data, i)
    <3>1. Turns(after, data, i, P, None, None) /\ None \in Column
      BY <2>6, <2>8, <2>10, RemoveTurns DEF Column
    <3>2. Explains(l, i, None, None, t, h, own \cup {m})'
      BY <2>9 DEF Explains
    <3>3. Explained(l, after, since, own \cup {m})'
      BY <2>1, <2>3, <2>5, <2>6, <3>1, <3>2, BeginTurns
    <3>. QED
      BY <2>3, <2>4, <2>8, <3>3 DEF Hold, ListOf
  <2>11. CASE ~Shows(data, i)
    <3>1. after = data /\ Seen(data, i) = None
      BY <2>8, <2>11 DEF RemoveCard, Seen
    <3>2. Explains(l, i, None, P[i], t, h, own)'
      BY <2>6, <3>1
    <3>3. Explains(l, i, None, P[i], t, h, own \cup {m})'
      BY <2>9, <3>2 DEF Explains
    <3>4. Explained(l, data, since, own \cup {m})'
      BY <2>1, <2>3, <2>5, <2>6, <3>1, <3>3, BeginStays
    <3>. QED
      BY <2>3, <2>4, <2>8, <3>1, <3>4 DEF Hold, ListOf
  <2>. QED
    BY <2>10, <2>11
<1>. QED
  BY <1>2, <1>3

\* A change of an issue without a card that is neither made nor left open leaves it in its place.
LEMMA UnloadedStays ==
    ASSUME NEW l \in Lists, NEW data, NEW i \in Issues, NEW patch \in Patches,
           NEW base \in Entity,
           ~UnloadedCard(l, data, i, patch, ChangedFields(patch, base), base).stale,
           ~UnloadedCard(l, data, i, patch, ChangedFields(patch, base), base).written
    PROVE  Place(l, Merged(base, patch)) = Place(l, base)
<1>1. PICK changed : changed = ChangedFields(patch, base)
  OBVIOUS
<1>2. PICK e \in Entity : e = Merged(base, patch)
  BY Merging
<1>3. /\ base.status \in Statuses /\ base.owner \in Owners
      /\ e.status \in Statuses /\ e.owner \in Owners
      /\ patch.status \in Statuses \cup {None} /\ patch.owner \in Owners \cup {None}
  BY Merging DEF Entity
<1>4. /\ e.status = IF patch.status = None THEN base.status ELSE patch.status
      /\ e.owner = IF patch.owner = None THEN base.owner ELSE patch.owner
  BY <1>2 DEF Merged
<1>5. /\ "status" \notin changed => e.status = base.status
      /\ "owner" \notin changed => e.owner = base.owner
  BY <1>1, <1>4, NoneAssumption DEF ChangedFields, Given, Fields
<1>6. base # None /\ e # None
  BY NoneAssumption
<1>7. WasMember(l, base) = Judged(l, base.owner) /\ IsMember(l, patch, base) = Judged(l, e.owner)
  BY <1>4, <1>6 DEF WasMember, IsMember
<1>8. \/ ~FilterTouched(l, changed) /\ "status" \notin changed
      \/ Judged(l, base.owner) = "no" /\ Judged(l, e.owner) = "no"
      \/ /\ Judged(l, base.owner) = "yes" /\ Judged(l, e.owner) = "yes"
         /\ ~Moves(patch, changed, base)
  <2>. DEFINE o == UnloadedCard(l, data, i, patch, changed, base)
              was == WasMember(l, base)
              is == IsMember(l, patch, base)
  <2>1. ~o.stale /\ ~o.written
    BY <1>1
  <2>2. o = IF ~FilterTouched(l, changed) /\ "status" \notin changed THEN Untouched(data)
            ELSE IF was = "no" /\ is = "no" THEN Untouched(data)
            ELSE IF was = "yes" /\ is = "yes" THEN
                IF Moves(patch, changed, base)
                THEN Outcome(MoveTotal(data, base.status, patch.status), TRUE, TRUE)
                ELSE Untouched(data)
            ELSE IF was = "yes" /\ is = "no"
            THEN Outcome(DropTotal(data, base.status), TRUE, FALSE)
            ELSE Outcome(data, FALSE, TRUE)
    BY DEF UnloadedCard
  <2>3. was = Judged(l, base.owner) /\ is = Judged(l, e.owner)
    BY <1>7
  <2>4. /\ Outcome(data, FALSE, TRUE).stale
        /\ Outcome(MoveTotal(data, base.status, patch.status), TRUE, TRUE).stale
        /\ Outcome(DropTotal(data, base.status), TRUE, FALSE).written
    BY DEF Outcome
  <2>. HIDE DEF o, was, is
  <2>. QED
    BY <2>1, <2>2, <2>3, <2>4
<1>9. CASE ~FilterTouched(l, changed) /\ "status" \notin changed
  <2>1. e.status = base.status /\ (l = Board \/ e.owner = base.owner)
    BY <1>5, <1>9 DEF FilterTouched
  <2>. QED
    BY <1>2, <1>6, <2>1 DEF Place
<1>10. CASE Judged(l, base.owner) = "no" /\ Judged(l, e.owner) = "no"
  <2>1. Place(l, base) = None /\ Place(l, e) = None
    BY <1>10, Outside
  <2>. QED
    BY <1>2, <2>1
<1>11. CASE /\ Judged(l, base.owner) = "yes" /\ Judged(l, e.owner) = "yes"
            /\ ~Moves(patch, changed, base)
  <2>1. e.status = base.status
    BY <1>3, <1>4, <1>5, <1>11 DEF Moves
  <2>2. l # Board => base.owner \in ListOwners[l] /\ e.owner \in ListOwners[l]
    BY <1>11 DEF Judged
  <2>. QED
    BY <1>2, <1>6, <2>1, <2>2 DEF Place
<1>. QED
  BY <1>8, <1>9, <1>10, <1>11

\* One that is made, and decided, takes the issue out of the list.
LEMMA UnloadedDrops ==
    ASSUME NEW l \in Lists, NEW data, NEW i, NEW patch \in Patches, NEW base \in Entity \cup {None},
           NEW changed,
           ~UnloadedCard(l, data, i, patch, changed, base).stale,
           UnloadedCard(l, data, i, patch, changed, base).written
    PROVE  /\ UnloadedCard(l, data, i, patch, changed, base).data = DropTotal(data, base.status)
           /\ base \in Entity /\ Place(l, base) = base.status
           /\ patch.owner # None /\ Judged(l, patch.owner) = "no"
<1>1. PICK was, is : was = WasMember(l, base) /\ is = IsMember(l, patch, base)
  OBVIOUS
<1>2. PICK o : o = UnloadedCard(l, data, i, patch, changed, base)
  OBVIOUS
<1>3. PICK dropped : dropped = DropTotal(data, base.status)
  OBVIOUS
<1>4. o = IF ~FilterTouched(l, changed) /\ "status" \notin changed THEN Untouched(data)
          ELSE IF was = "no" /\ is = "no" THEN Untouched(data)
          ELSE IF was = "yes" /\ is = "yes" THEN
              IF Moves(patch, changed, base)
              THEN Outcome(MoveTotal(data, base.status, patch.status), TRUE, TRUE)
              ELSE Untouched(data)
          ELSE IF was = "yes" /\ is = "no"
          THEN Outcome(dropped, TRUE, FALSE)
          ELSE Outcome(data, FALSE, TRUE)
  BY <1>1, <1>2, <1>3 DEF UnloadedCard
<1>5. /\ ~Untouched(data).written /\ Outcome(data, FALSE, TRUE).stale
      /\ Outcome(MoveTotal(data, base.status, patch.status), TRUE, TRUE).stale
      /\ Outcome(dropped, TRUE, FALSE).data = dropped
  BY DEF Outcome, Untouched
<1>6. ~o.stale /\ o.written
  BY <1>2
<1>7. was = "yes" /\ is = "no" /\ o = Outcome(dropped, TRUE, FALSE)
  BY <1>4, <1>5, <1>6
<1>8. base \in Entity /\ base # None /\ Judged(l, base.owner) = "yes"
  BY <1>1, <1>7, NoneAssumption DEF WasMember
<1>9. patch.owner # None /\ Judged(l, patch.owner) = "no"
  BY <1>1, <1>7, <1>8 DEF IsMember
<1>10. Place(l, base) = base.status
  BY <1>8 DEF Judged, Place
<1>. QED
  BY <1>2, <1>3, <1>5, <1>7, <1>8, <1>9, <1>10

\* A change of a card, decided, takes it out of the list or is made of it.
LEMMA LoadedCases ==
    ASSUME NEW l \in Lists, NEW data, NEW i, NEW patch \in Patches, NEW base,
           NEW changed \in SUBSET Given(patch)
    PROVE  LET o == LoadedCard(l, data, i, patch, changed) IN
           /\ o.written
           /\ \/ o.data = PatchCard(data, i, patch)
              \/ /\ o.data = RemoveCard(data, i)
                 /\ patch.owner # None /\ Judged(l, patch.owner) = "no"
                 /\ "owner" \in changed /\ l # Board
<1>1. PICK o : o = LoadedCard(l, data, i, patch, changed)
  OBVIOUS
<1>2. PICK member, removed, patched :
        /\ member = Judged(l, Merged(Copy(data, i), patch).owner)
        /\ removed = RemoveCard(data, i) /\ patched = PatchCard(data, i, patch)
  OBVIOUS
<1>3. o = Outcome(IF FilterTouched(l, changed) /\ member = "no" THEN removed ELSE patched, TRUE,
                  FilterTouched(l, changed) /\ member = "unknown")
  BY <1>1, <1>2 DEF LoadedCard
<1>4. o.written /\ o.data = IF FilterTouched(l, changed) /\ member = "no" THEN removed ELSE patched
  BY <1>3 DEF Outcome
<1>5. ASSUME FilterTouched(l, changed), member = "no"
      PROVE  /\ patch.owner # None /\ Judged(l, patch.owner) = "no"
             /\ "owner" \in changed /\ l # Board
  <2>1. "owner" \in changed /\ l # Board /\ patch.owner # None
    BY <1>5 DEF FilterTouched, Given
  <2>2. Merged(Copy(data, i), patch).owner = patch.owner
    BY <2>1 DEF Merged
  <2>. QED
    BY <1>2, <1>5, <2>1, <2>2
<1>. QED
  BY <1>1, <1>2, <1>4, <1>5

\* A change begins, of an issue that the list shows.
LEMMA BeginsShown ==
    ASSUME NEW l \in Lists, NEW data \in Data, NEW P \in Columns, Fits(data, P),
           NEW i \in Issues, NEW patch \in Patches, Shows(data, i),
           NEW base, NEW after, after = LoadedCard(l, data, i, patch, ChangedFields(patch, base)).data,
           NEW since, NEW own, NEW t, NEW h, t = Later(since)', h = Handled',
           NEW m, Of(m)' = {}, mutation'[m].id = i, Changing(m, l, i, h)',
           mutation'[m].patch = patch,
           \A j \in Issues : Explains(l, j, Seen(data, j), P[j], t, h, own)'
    PROVE  Explained(l, after, since, own \cup {m})'
<1>1. /\ PatchCard(data, i, patch) \in Data /\ RemoveCard(data, i) \in Data
      /\ None \in Column
  BY PatchCardType, RemoveCardType DEF Column
<1>2. \/ after = PatchCard(data, i, patch)
      \/ after = RemoveCard(data, i) /\ patch.owner # None /\ Judged(l, patch.owner) = "no"
  <2>1. ChangedFields(patch, base) \in SUBSET Given(patch)
    BY DEF ChangedFields
  <2>. QED
    BY <2>1, LoadedCases
<1>3. CASE after = RemoveCard(data, i) /\ patch.owner # None /\ Judged(l, patch.owner) = "no"
  <2>1. Leaving(m, l, i, h)'
    BY <1>3 DEF Leaving
  <2>2. Explains(l, i, None, None, t, h, own \cup {m})'
    BY <2>1 DEF Explains
  <2>3. Turns(after, data, i, P, None, None)
    BY <1>3, RemoveTurns
  <2>. QED
    BY <1>1, <1>3, <2>2, <2>3, BeginTurns
<1>4. CASE after = PatchCard(data, i, patch)
  <2>1. PICK e \in Entity : e = Merged(Copy(data, i), patch)
    BY SeenCard, Merging
  <2>2. Turns(after, data, i, P, e.status, e) /\ e.status \in Column /\ e # None
    BY <1>4, <2>1, PatchTurns, NoneAssumption DEF Entity, Column
  <2>3. Seen(data, i) # None
    BY NotSeen
  <2>4. Place(l, StateAt(t)'[i]) # None
    BY <2>3 DEF Explains
  <2>5. StateAt(t)'[i] # None
    BY <2>4 DEF Place
  <2>6. Explains(l, i, e, e.status, t, h, own \cup {m})'
    BY <2>2, <2>4, <2>5 DEF Explains
  <2>. QED
    BY <1>1, <1>4, <2>2, <2>6, BeginTurns
<1>. QED
  BY <1>2, <1>3, <1>4

\* Of one that it does not show, and whose change is not made in it.
LEMMA BeginsUnmade ==
    ASSUME NEW l \in Lists, NEW data \in Data, NEW P \in Columns, Fits(data, P),
           NEW i \in Issues, NEW patch \in Patches, ~Shows(data, i),
           NEW base \in Entity \cup {None},
           LET o == UnloadedCard(l, data, i, patch, ChangedFields(patch, base), base)
           IN  ~o.stale /\ ~o.written,
           NEW since, NEW own, NEW t, NEW h, t = Later(since)', h = Handled',
           NEW m, Of(m)' = {}, mutation'[m].id = i, mutation'[m].patch = patch,
           StateAt(h)'[i] = base,
           \A j \in Issues : Explains(l, j, Seen(data, j), P[j], t, h, own)'
    PROVE  Explained(l, data, since, own \cup {m})'
<1>1. base # None => Place(l, Merged(base, patch)) = Place(l, base)
  BY UnloadedStays
<1>2. Neutral(m, l, i, h)'
  BY <1>1 DEF Neutral
<1>3. Explains(l, i, Seen(data, i), P[i], t, h, own \cup {m})'
  BY <1>2, OneMore
<1>. QED
  BY <1>3, BeginStays

\* Of one that it does not show, and that it has counted.
LEMMA BeginsDrop ==
    ASSUME NEW l \in Lists, NEW data \in Data, NEW P \in Columns, Fits(data, P),
           NEW i \in Issues, NEW patch \in Patches, ~Shows(data, i),
           NEW base \in Entity \cup {None}, NEW changed, NEW after,
           LET o == UnloadedCard(l, data, i, patch, changed, base)
           IN  ~o.stale /\ o.written /\ after = o.data,
           NEW since, NEW own, NEW t, NEW h, t = Later(since)', h = Handled',
           NEW m, Of(m)' = {}, mutation'[m].id = i, Changing(m, l, i, h)',
           mutation'[m].patch = patch,
           StateAt(h)'[i] = base, StateAt(t)'[i] = base,
           \A k \in own : ~Removing(k, l, i)' /\ ~Leaving(k, l, i, h)',
           \A j \in Issues : Explains(l, j, Seen(data, j), P[j], t, h, own)'
    PROVE  Explained(l, after, since, own \cup {m})'
<1>1. /\ after = DropTotal(data, base.status) /\ base \in Entity /\ Place(l, base) = base.status
      /\ patch.owner # None /\ Judged(l, patch.owner) = "no"
  BY UnloadedDrops
<1>2. base.status \in Statuses /\ None \in Column
  BY <1>1 DEF Entity, Column
<1>3. Seen(data, i) = None
  BY NotSeen
<1>4. P[i] = base.status
  <2>1. Explains(l, i, None, P[i], t, h, own)'
    BY <1>3
  <2>. QED
    BY <1>1, <2>1 DEF Explains
<1>5. Turns(after, data, i, P, None, None) /\ after \in Data
  BY <1>1, <1>2, <1>4, DropTurns, MoveTotalType
<1>6. Leaving(m, l, i, h)'
  BY <1>1 DEF Leaving
<1>7. Explains(l, i, None, None, t, h, own \cup {m})'
  BY <1>6 DEF Explains
<1>. QED
  BY <1>2, <1>5, <1>7, BeginTurns

\* A change begins.
LEMMA StartUpdateHolds ==
    ASSUME Base, Base', NEW l \in Lists, Hold(l), NEW m \in Mutations, NEW i \in Issues,
           NEW patch \in Patches, StartUpdate(m, i, patch)
    PROVE  Hold(l)'
<1>1. TypeInv /\ FramesExact
  BY DEF Base
<1>2. CASE ~Quiet(l)'
  BY <1>2, Noisy
<1>3. CASE Quiet(l)'
  <2>1. /\ UNCHANGED <<socketVars, log>> /\ mutation[m].kind = "none"
        /\ \A k \in Mutations \ {m} : mutation'[k] = mutation[k]
        /\ mutation'[m].kind = "update" /\ mutation'[m].id = i /\ mutation'[m].patch = patch
        /\ mutation'[m].at = Handled
    BY <1>1, StartUpdateCall
  <2>2. /\ Edits(l, i, patch) => mutation'[m].saved[l] = list[l] /\ mutation'[m].wrote[l] = list'[l]
        /\ ~Edits(l, i, patch) => mutation'[m].saved[l] = None
        /\ list[l].data # None /\ Edit(l, i, patch).stale => l \in mutation'[m].stale
    BY <1>1, StartUpdateSaved
  <2>3. /\ Follows(list'[l], list[l], {m}) /\ list'[l].own = list[l].own \cup {m}
        /\ Edits(l, i, patch) => list'[l].data = Edit(l, i, patch).data
        /\ ~Edits(l, i, patch) => list'[l].data = list[l].data
        /\ Calm(list'[l]) /\ ~Shows(list[l].data, i) /\ ~Edit(l, i, patch).stale =>
             /\ detail[i] = Now[i]
             /\ \A k \in 1 .. Len(log) : log[k].id = i => ~Pending(k)
             /\ Edits(l, i, patch) => \A k \in list[l].own : ~Concerns(k, i)
    BY <1>1, StartUpdateList
  <2>4. /\ Quiet(l) /\ Of(m)' = {}
        /\ \A k \in Mutations : SavedOf(k, l)'
        /\ \E data \in Data, since \in 0 .. Len(log), own \in SUBSET Mutations :
             /\ data = list[l].data /\ since = list[l].since /\ since = list'[l].since
             /\ own = list[l].own /\ list'[l].own = own \cup {m}
             /\ Explained(l, data, since, own)'
    <3>1. mutation'[m].kind \in {"update", "delete"}
      BY <2>1
    <3>2. mutation'[m].saved[l] # None =>
              mutation'[m].saved[l] = list[l] /\ mutation'[m].wrote[l] = list'[l]
      BY <2>2
    <3>. QED
      BY <1>3, <2>1, <2>3, <3>1, <3>2, BeginsStill
  <2>5. PICK data \in Data, since \in 0 .. Len(log), own \in SUBSET Mutations :
          /\ data = list[l].data /\ since = list'[l].since /\ list'[l].own = own \cup {m}
          /\ own = list[l].own
          /\ Explained(l, data, since, own)'
    BY <2>4
  <2>6. log \in Seq(Entry) /\ Len(log) \in Nat /\ Handled \in 0 .. Len(log) /\ Handled' = Handled
    BY <1>1, <2>1, Lengths DEF Handled, socketVars
  <2>7. PICK h \in 0 .. Len(log), t \in 0 .. Len(log) : h = Handled' /\ t = Later(since)' /\ h <= t
    BY <2>6 DEF Later
  <2>8. PICK P \in Columns :
          /\ Fits(data, P)
          /\ \A j \in Issues : Explains(l, j, Seen(data, j), P[j], t, h, own)'
    BY <2>5, <2>7 DEF Explained
  <2>9. list[l].data # None /\ list[l] # None
    BY <1>1, <2>4, ListParts, QueryAssumption DEF Quiet, Calm
  <2>10. PICK base \in Entity \cup {None} : base = detail[i]
    BY <1>1, ListParts DEF TypeInv, ClientInv
  <2>11. PICK changed : changed = ChangedFields(patch, base)
    OBVIOUS
  <2>12. PICK o : o = Edit(l, i, patch)
    OBVIOUS
  <2>13. o = Change(l, data, i, patch, changed, base)
    BY <2>5, <2>10, <2>11, <2>12 DEF Edit
  <2>14. /\ ~o.stale /\ (Edits(l, i, patch) <=> o.written)
         /\ o.written => list'[l].data = o.data
         /\ ~o.written => list'[l].data = data
    BY <1>3, <2>2, <2>3, <2>5, <2>9, <2>12 DEF Quiet, Edits
  <2>15. o.written => Changing(m, l, i, h)'
    BY <2>1, <2>2, <2>4, <2>9, <2>14 DEF Changing
  <2>16. CASE Shows(data, i)
    <3>1. o = LoadedCard(l, data, i, patch, ChangedFields(patch, base))
      BY <2>11, <2>13, <2>16 DEF Change
    <3>2. o.written
      <4>1. ChangedFields(patch, base) \in SUBSET Given(patch)
        BY DEF ChangedFields
      <4>. QED
        BY <3>1, <4>1, LoadedCases
    <3>3. Explained(l, o.data, since, own \cup {m})'
      <4>1. PICK after : after = o.data
        OBVIOUS
      <4>2. Explained(l, after, since, own \cup {m})'
        BY <2>1, <2>4, <2>7, <2>8, <2>15, <2>16, <3>1, <3>2, <4>1, BeginsShown
      <4>. QED
        BY <4>1, <4>2
    <3>. QED
      BY <2>4, <2>5, <2>14, <3>2, <3>3 DEF Hold, ListOf
  <2>17. CASE ~Shows(data, i)
    <3>1. o = UnloadedCard(l, data, i, patch, changed, base)
      BY <2>13, <2>17 DEF Change
    <3>2. /\ base = Now[i]
          /\ \A k \in 1 .. Len(log) : log[k].id = i => ~Pending(k)
          /\ o.written => \A k \in own : ~Concerns(k, i)
      BY <1>3, <2>3, <2>5, <2>10, <2>12, <2>14, <2>17 DEF Quiet
    <3>3. ASSUME NEW a \in h .. Len(log) PROVE StateAt(a)[i] = base /\ StateAt(a)'[i] = base
      <4>1. ASSUME NEW k \in a + 1 .. Len(log) PROVE log[k].id # i
        <5>1. k \in 1 .. Len(log) /\ k > Handled
          BY <2>6, <2>7
        <5>2. Pending(k)
          BY <1>1, <5>1, PendingIs
        <5>. QED
          BY <3>2, <5>1, <5>2
      <4>2. PICK b \in 0 .. Len(log) : b = Len(log) /\ a \in 0 .. b
        BY <2>6, <3>3
      <4>3. StateAt(a)[i] = StateAt(b)[i]
        BY <2>6, <4>1, <4>2, StateSame
      <4>4. Now = StateAt(b)
        BY <4>2 DEF Now
      <4>5. StateAt(a)' = StateAt(a)
        BY <2>1, Unlogged
      <4>. QED
        BY <3>2, <4>3, <4>4, <4>5
    <3>4. h \in h .. Len(log) /\ t \in h .. Len(log)
      BY <2>6, <2>7
    <3>5. CASE ~o.written
      <4>1. Explained(l, data, since, own \cup {m})'
        BY <2>1, <2>4, <2>7, <2>8, <2>11, <2>14, <2>17, <3>1, <3>3, <3>4, <3>5, BeginsUnmade
      <4>. QED
        BY <2>4, <2>5, <2>14, <3>5, <4>1 DEF Hold, ListOf
    <3>6. CASE o.written
      <4>1. ASSUME NEW k \in own PROVE ~Removing(k, l, i)' /\ ~Leaving(k, l, i, h)'
        <5>1. ~Concerns(k, i) /\ k # m
          <6>1. Started(k)
            BY <2>5 DEF Base, Sights, SeenBy
          <6>. QED
            BY <2>1, <3>2, <3>6, <6>1 DEF Started
        <5>2. mutation'[k] = mutation[k] /\ mutation[k].id # i /\ Of(k)' = Of(k)
          BY <2>1, <5>1, Unlogged DEF Concerns
        <5>3. \A n \in Of(k) : log'[n].id # i
          BY <2>1, <5>1 DEF Concerns, Of
        <5>. QED
          BY <5>2, <5>3 DEF Removing, Leaving, Changing
      <4>2. PICK after : after = o.data
        OBVIOUS
      <4>3. Explained(l, after, since, own \cup {m})'
        <5>1. ~o.stale /\ o.written /\ Changing(m, l, i, h)'
          BY <2>14, <2>15, <3>6
        <5>2. StateAt(h)'[i] = base /\ StateAt(t)'[i] = base
          BY <3>3, <3>4
        <5>3. LET made == UnloadedCard(l, data, i, patch, changed, base)
              IN  ~made.stale /\ made.written /\ after = made.data
          BY <3>1, <4>2, <5>1
        <5>4. mutation'[m].id = i /\ mutation'[m].patch = patch /\ Of(m)' = {}
          BY <2>1, <2>4
        <5>. QED
          BY <2>7, <2>8, <2>17, <4>1, <5>1, <5>2, <5>3, <5>4, BeginsDrop
      <4>. QED
        BY <2>4, <2>5, <2>14, <3>6, <4>2, <4>3 DEF Hold, ListOf
    <3>. QED
      BY <3>5, <3>6
  <2>. QED
    BY <2>16, <2>17
<1>. QED
  BY <1>2, <1>3

\* What an answer says of the call.
LEMMA AnswerIs ==
    ASSUME Base, NEW m \in Mutations, mutation[m].kind = "update", mutation[m].status = "done"
    PROVE  /\ Answered(m) = {} /\ mutation[m].id \in Issues /\ mutation[m].answer \in Entity
           /\ \E n \in 1 .. Len(log) :
                /\ log[n].by = m /\ log[n].id = mutation[m].id /\ log[n].now = mutation[m].answer
                /\ StateAt(n - 1)[mutation[m].id] # None
<1>1. PICK c \in Call : c = mutation[m] /\ CallShape(c)
  BY CallParts DEF Base
<1>2. c.id \in Issues /\ c.answer \in Entity
  BY <1>1 DEF CallShape
<1>3. PICK n \in 1 .. Len(log) :
        /\ n \in Of(m) /\ log[n].id = c.id /\ StateAt(n - 1)[c.id] # None
        /\ log[n].now = Merged(StateAt(n - 1)[c.id], c.patch)
  BY <1>1, DoneIs
<1>4. log[n].by = m /\ log[n].now = c.answer
  BY <1>1, <1>3 DEF Of, Base, Ledger, LedgerOf
<1>5. /\ c.patch.status # None => c.answer.status = c.patch.status
      /\ c.patch.owner # None => c.answer.owner = c.patch.owner
  BY <1>3, <1>4 DEF Merged
<1>6. Answered(m) = {}
  BY <1>1, <1>5 DEF Answered, Given, Fields
<1>. QED
  BY <1>1, <1>2, <1>3, <1>4, <1>6

\* What an answer makes of a list.
LEMMA ReplyIs ==
    ASSUME NEW m, NEW l, NEW i, NEW answer, NEW data, mutation[m].id = i,
           mutation[m].answer = answer, Answered(m) = {}, list[l].data = data
    PROVE  /\ Shows(data, i) => Reply(l, m).written /\ Reply(l, m).data = PatchCard(data, i, answer)
           /\ ~Shows(data, i) => ~Reply(l, m).written
<1>1. ~FilterTouched(l, {})
  BY DEF FilterTouched
<1>2. Reply(l, m) = Change(l, data, i, answer, {}, answer)
  BY DEF Reply
<1>3. PICK patched, member : patched = PatchCard(data, i, answer)
                             /\ member = Judged(l, Merged(Copy(data, i), answer).owner)
  OBVIOUS
<1>4. CASE Shows(data, i)
  <2>1. Reply(l, m) = LoadedCard(l, data, i, answer, {})
    BY <1>2, <1>4 DEF Change
  <2>2. LoadedCard(l, data, i, answer, {}) =
            Outcome(patched, TRUE, FilterTouched(l, {}) /\ member = "unknown")
    BY <1>1, <1>3 DEF LoadedCard
  <2>. QED
    BY <1>3, <1>4, <2>1, <2>2 DEF Outcome
<1>5. CASE ~Shows(data, i)
  <2>1. Reply(l, m) = UnloadedCard(l, data, i, answer, {}, answer)
    BY <1>2, <1>5 DEF Change
  <2>2. UnloadedCard(l, data, i, answer, {}, answer) = Untouched(data)
    BY <1>1 DEF UnloadedCard
  <2>. QED
    BY <1>5, <2>1, <2>2 DEF Untouched, Outcome
<1>. QED
  BY <1>4, <1>5

\* An answer that is not late is what is now, or the event that will replace it is coming.
LEMMA AnswerNow ==
    ASSUME Base, NEW m \in Mutations, NEW i \in Issues, NEW n \in 1 .. Len(log),
           log[n].by = m, log[n].id = i, StateAt(n - 1)[i] # None, log[n].now \in Entity,
           ~Late(i, m)
    PROVE  log[n].now = Now[i] \/ Owed(i, Handled)
<1>1. /\ TypeInv /\ FramesExact /\ log \in Seq(Entry) /\ Len(log) \in Nat
      /\ Handled \in 0 .. Len(log)
  BY Lengths DEF Base
<1>2. PICK h \in 0 .. Len(log) : h = Handled
  BY <1>1
<1>3. CASE n > h
  <2>1. n \in h + 1 .. Len(log)
    BY <1>1, <1>3
  <2>. QED
    BY <1>2, <2>1 DEF Owed
<1>4. CASE n <= h
  <2>1. ASSUME NEW k \in n + 1 .. h PROVE log[k].id # i
    <3>1. k \in 1 .. Len(log) /\ n \in 1 .. k - 1 /\ ~(k > Handled)
      BY <1>1, <1>2
    <3>2. ~Pending(k)
      BY <1>1, <3>1, PendingIs
    <3>. QED
      BY <3>1, <3>2 DEF Late
  <2>2. n \in 0 .. h /\ n \in 0 .. Len(log)
    BY <1>1, <1>4
  <2>3. StateAt(n)[i] = StateAt(h)[i]
    BY <1>1, <2>1, <2>2, StateSame
  <2>4. StateAt(n)[i] = log[n].now
    BY <1>1, StateNew
  <2>5. StateAt(h)[i] # None /\ h \in 0 .. h
    BY <2>3, <2>4, NoneAssumption
  <2>6. StateAt(h)[i] = Now[i] \/ Owed(i, h)
    BY <1>1, <2>5, OwedNow
  <2>. QED
    BY <1>2, <2>3, <2>4, <2>6
<1>. QED
  BY <1>1, <1>2, <1>3, <1>4

\* A change is answered.
LEMMA SucceedsHold ==
    ASSUME Base, Base', NEW l \in Lists, Hold(l), NEW m \in Mutations, UpdateSucceeds(m)
    PROVE  Hold(l)'
<1>1. TypeInv /\ mutation \in [Mutations -> Call]
  BY DEF Base, TypeInv, CallsInv
<1>2. /\ UNCHANGED <<socketVars, log>> /\ mutation[m].kind = "update" /\ mutation[m].status = "done"
      /\ mutation'[m] = Over /\ \A k \in Mutations \ {m} : mutation'[k] = mutation[k]
  BY <1>1 DEF UpdateSucceeds, Settle
<1>3. Over.saved[l] = None /\ Over.kind = "over"
  BY DEF Over, NoCall
<1>4. /\ Follows(list'[l], list[l], {}) /\ list'[l].own = list[l].own
      /\ Calm(list'[l]) =>
           /\ l \notin mutation[m].stale
           /\ list'[l].data = IF Reply(l, m).written THEN Reply(l, m).data ELSE list[l].data
           /\ Reply(l, m).written => ~Late(mutation[m].id, m)
  BY <1>1, UpdateSucceedsList
<1>5. CASE ~Quiet(l)'
  BY <1>5, Noisy
<1>6. CASE Quiet(l)'
  <2>1. Calm(list'[l]) /\ Calm(list[l]) /\ list'[l].since = list[l].since
    BY <1>4, <1>6 DEF Quiet, Follows
  <2>2. log \in Seq(Entry) /\ Len(log) \in Nat /\ Handled \in 0 .. Len(log)
    BY <1>1, Lengths
  <2>3. Advances
    BY <1>2, <2>2, Ungrown DEF Advances, Handled, socketVars
  <2>4. Quiet(l)
    <3>1. \A k \in Mutations : mutation[k].stale # {} =>
              l \notin mutation[k].stale \/ mutation'[k].stale = mutation[k].stale
      BY <1>2, <1>4, <2>1
    <3>. QED
      BY <1>2, <1>6, <2>1, <3>1, QuietBefore DEF socketVars
  <2>5. \A k \in Mutations : Goes(k, l)
    BY <1>2, <1>3, Unlogged DEF Goes
  <2>6. PICK own \in SUBSET Mutations : own = list[l].own /\ \A k \in own : Started(k)
    BY <1>1, ListParts DEF Base, Sights, SeenBy
  <2>7. Still(l) /\ SavedKept(l)
    BY <1>2, <1>3, <2>1, <2>3, <2>4, <2>5, <2>6 DEF Still, SavedKept
  <2>8. PICK i \in Issues, answer \in Entity : i = mutation[m].id /\ answer = mutation[m].answer
    BY <1>2, AnswerIs
  <2>9. PICK data \in Data : data = list[l].data
    BY <1>1, <2>1, ListParts DEF Calm
  <2>10. /\ Shows(data, i) => Reply(l, m).written /\ Reply(l, m).data = PatchCard(data, i, answer)
         /\ ~Shows(data, i) => ~Reply(l, m).written
    BY <1>2, <2>8, <2>9, AnswerIs, ReplyIs
  <2>11. CASE ~Shows(data, i)
    <3>1. list'[l].data = list[l].data
      BY <1>4, <2>1, <2>10, <2>11
    <3>. QED
      BY <1>4, <2>7, <3>1, StillHolds
  <2>12. CASE Shows(data, i)
    <3>1. PICK after \in Data : after = PatchCard(data, i, answer) /\ after = list'[l].data
      <4>1. answer \in Patches
        BY DEF Patches
      <4>. QED
        BY <1>4, <2>1, <2>10, <2>12, <4>1, PatchCardType
    <3>2. PICK since \in 0 .. Len(log) : since = list[l].since
      <4>1. list[l].since \in Nat /\ SeenBy(l)
        BY <1>1, ListParts DEF Base, Sights
      <4>. QED
        BY <2>2, <4>1 DEF SeenBy
    <3>3. Explained(l, data, since, own)'
      <4>1. Explained(l, data, since, own)
        BY <2>4, <2>6, <2>9, <3>2 DEF Hold, ListOf
      <4>. QED
        BY <2>3, <2>5, <2>6, <4>1, ExplainedOn
    <3>4. PICK h, t : h = Handled' /\ t = Later(since)' /\ h = Handled
      BY <2>3 DEF Advances
    <3>5. PICK P \in Columns :
            /\ Fits(data, P)
            /\ \A j \in Issues : Explains(l, j, Seen(data, j), P[j], t, h, own)'
      BY <3>3, <3>4 DEF Explained
    <3>6. Turns(after, data, i, P, answer.status, answer)
      <4>1. answer \in Patches /\ Copy(data, i) \in Entity
        BY <2>12, <3>5, SeenCard DEF Patches
      <4>2. PICK e \in Entity : e = Merged(Copy(data, i), answer)
        BY <4>1, Merging
      <4>3. answer.status # None /\ answer.owner # None
        BY NoneAssumption DEF Entity
      <4>4. e = [status |-> answer.status, owner |-> answer.owner]
        BY <4>2, <4>3 DEF Merged
      <4>5. answer = [status |-> answer.status, owner |-> answer.owner]
        BY DEF Entity
      <4>6. e = answer
        BY <4>4, <4>5
      <4>. QED
        BY <2>12, <3>1, <3>5, <4>1, <4>2, <4>6, PatchTurns
    <3>7. answer.status \in Column /\ answer # None
      BY NoneAssumption DEF Entity, Column
    <3>8. answer = Now'[i] \/ Owed(i, h)'
      <4>1. PICK n \in 1 .. Len(log) :
              /\ log[n].by = m /\ log[n].id = i /\ log[n].now = answer
              /\ StateAt(n - 1)[i] # None
        BY <1>2, <2>8, AnswerIs
      <4>2. ~Late(i, m)
        BY <1>4, <2>1, <2>8, <2>10, <2>12
      <4>3. answer = Now[i] \/ Owed(i, Handled)
        BY <4>1, <4>2, AnswerNow
      <4>. QED
        BY <1>2, <3>4, <4>3, Unlogged
    <3>9. Place(l, StateAt(t)'[i]) # None
      <4>1. Seen(data, i) # None
        BY <2>12, NotSeen
      <4>. QED
        BY <3>5, <4>1 DEF Explains
    <3>10. StateAt(t)'[i] # None
      BY <3>9 DEF Place
    <3>11. Explains(l, i, answer, answer.status, t, h, own)'
      BY <3>7, <3>8, <3>9, <3>10 DEF Explains
    <3>12. Explained(l, after, since, own)'
      BY <3>4, <3>5, <3>6, <3>7, <3>11, ExplainedBy
    <3>13. ListOf(l)'
      BY <1>4, <2>1, <2>6, <3>1, <3>2, <3>12 DEF ListOf
    <3>14. ASSUME NEW k \in Mutations PROVE SavedOf(k, l)'
      <4>1. \A j \in list'[l].own : j \in list[l].own
        BY <1>4
      <4>. QED
        BY <2>7, <4>1, SavedStays DEF Hold, SavedKept
    <3>. QED
      BY <3>13, <3>14 DEF Hold
  <2>. QED
    BY <2>11, <2>12
<1>. QED
  BY <1>5, <1>6

\* A load is complete.
LEMMA LoadedHolds ==
    ASSUME Base, Base', NEW l \in Lists, Hold(l), Loaded(l)
    PROVE  Hold(l)'
<1>1. /\ TypeInv /\ FramesExact /\ log \in Seq(Entry) /\ Len(log) \in Nat
      /\ Handled \in 0 .. Len(log) /\ list \in [Lists -> Query] /\ list[l] \in Query
  BY Lengths DEF Base, TypeInv, ClientInv
<1>2. UNCHANGED <<socketVars, log, mutation>>
  BY DEF Loaded
<1>3. PICK f \in Fetch : f = list[l].fetch /\ f # None /\ \A s \in Statuses : f.pages[s] # None
  BY <1>1, QueryParts DEF Loaded
<1>4. PICK q : q = [data |-> f.pages, marked |-> FALSE, fetch |-> None,
                    since |-> f.first, own |-> {}, races |-> LoadRaces(f)]
  OBVIOUS
<1>5. list'[l] = q
  BY <1>1, <1>3, <1>4 DEF Loaded
<1>6. q.data = f.pages /\ q.since = f.first /\ q.own = {} /\ q.races = LoadRaces(f)
  BY <1>4
<1>7. CASE ~Quiet(l)'
  BY <1>7, Noisy
<1>8. CASE Quiet(l)'
  <2>1. LoadRaces(f) = {}
    BY <1>5, <1>6, <1>8 DEF Quiet, Calm
  <2>2. f.first = f.last /\ \A n \in f.first + 1 .. Len(log) : Pending(n)
    BY <2>1 DEF LoadRaces
  <2>3. ReadOf(l)
    BY DEF Base, Reads
  <2>4. PICK t \in 0 .. Len(log) : t = f.first /\ t = f.last
    <3>1. f.first \in Nat
      BY BoundAssumption DEF Fetch, Commits
    <3>. QED
      BY <1>1, <1>3, <2>2, <2>3, <3>1 DEF ReadOf
  <2>5. PICK h \in 0 .. t : h = Handled /\ h = Handled'
    <3>1. ASSUME t < Handled PROVE FALSE
      <4>1. PICK n \in 1 .. Len(log) : n = t + 1
        BY <1>1, <3>1
      <4>2. Pending(n)
        BY <1>1, <2>2, <2>4, <4>1
      <4>3. n > Handled
        BY <1>1, <4>2, PendingIs
      <4>. QED
        BY <1>1, <3>1, <4>1, <4>3
    <3>2. Handled' = Handled
      BY <1>2 DEF Handled, socketVars
    <3>. QED
      BY <1>1, <3>1, <3>2
  <2>6. t = Later(t)'
    BY <2>5 DEF Later
  <2>7. PICK state \in [Issues -> Entity \cup {None}] : state = StateAt(t)
    BY <1>1, StateType
  <2>8. ASSUME NEW s \in Statuses PROVE f.pages[s] = Page(state, l, s, 0)
    <3>1. PICK k \in f.first .. f.last : f.pages[s] = Page(StateAt(k), l, s, 0)
      BY <1>3, <2>3 DEF ReadOf
    <3>2. k = t
      BY <2>4, <3>1
    <3>. QED
      BY <2>7, <3>1, <3>2
  <2>9. PICK data \in Data : data = f.pages
    <3>1. f.pages \in [Statuses -> Bucket \cup {None}]
      BY DEF Fetch
    <3>. QED
      BY <1>3, <3>1 DEF Data
  <2>10. PICK P \in Columns :
           /\ Fits(data, P)
           /\ \A i \in Issues : P[i] = Place(l, state[i])
           /\ \A i \in Issues : Seen(data, i) # None => Seen(data, i) = state[i] /\ P[i] # None
    BY <2>8, <2>9, PagesFit
  <2>11. ASSUME NEW i \in Issues PROVE Explains(l, i, Seen(data, i), P[i], t, h, {})'
    <3>1. StateAt(t)' = state /\ Now' = Now /\ Owed(i, h)' = Owed(i, h)
      BY <1>2, <2>7, Unlogged
    <3>2. state[i] = None => P[i] = None
      BY <2>10 DEF Place
    <3>3. ASSUME Seen(data, i) # None
          PROVE  Place(l, state[i]) # None /\ (Seen(data, i) = Now[i] \/ Owed(i, h))
      <4>1. Seen(data, i) = state[i] /\ Place(l, state[i]) # None
        BY <2>10, <3>3
      <4>2. state[i] # None
        BY <4>1 DEF Place
      <4>. QED
        BY <1>1, <2>7, <4>1, <4>2, OwedNow
    <3>4. P[i] = Place(l, state[i])
      BY <2>10
    <3>. QED
      BY <3>1, <3>2, <3>3, <3>4 DEF Explains
  <2>12. Explained(l, data, t, {})'
    BY <2>5, <2>6, <2>10, <2>11 DEF Explained
  <2>13. ListOf(l)'
    BY <1>5, <1>6, <2>4, <2>9, <2>12 DEF ListOf
  <2>14. ASSUME NEW m \in Mutations PROVE SavedOf(m, l)'
    <3>1. mutation'[m].saved[l] # None => m \in mutation'[m].wrote[l].own
      BY <1>2 DEF Base, Contexts, ContextOf
    <3>2. m \notin list'[l].own
      BY <1>5, <1>6
    <3>. QED
      BY <3>1, <3>2 DEF SavedOf
  <2>. QED
    BY <2>13, <2>14 DEF Hold
<1>. QED
  BY <1>7, <1>8

-----------------------------------------------------------------------------
(* The events, for a list at rest                                          *)

\* What an explanation says, as long as no call and no commit is made.
LEMMA ExplainsSame ==
    ASSUME UNCHANGED <<log, mutation>>, NEW l, NEW i, NEW copy, NEW p, NEW t, NEW h, NEW own,
           Explains(l, i, copy, p, t, h, own)
    PROVE  Explains(l, i, copy, p, t, h, own)'
<1>1. /\ \A n : StateAt(n)' = StateAt(n)
      /\ Now' = Now /\ \A m : Of(m)' = Of(m)
      /\ Owed(i, h)' = Owed(i, h)
  BY Unlogged
<1>2. mutation' = mutation /\ log' = log
  OBVIOUS
<1>3. \A m : /\ Changing(m, l, i, h)' = Changing(m, l, i, h)
              /\ Removing(m, l, i)' = Removing(m, l, i)
  BY <1>1, <1>2 DEF Changing, Removing
<1>4. \A m : Leaving(m, l, i, h)' = Leaving(m, l, i, h)
  BY <1>1, <1>2, <1>3 DEF Leaving
<1>5. \A m : Neutral(m, l, i, h)' = Neutral(m, l, i, h)
  BY <1>1, <1>2 DEF Neutral
<1>. QED
  BY <1>1, <1>3, <1>4, <1>5 DEF Explains

\* A change that concerns an issue, of a call that has one and began with it.
LEMMA ConcernsOne ==
    ASSUME Base, NEW m \in Mutations, Started(m), NEW i \in Issues, NEW j \in Issues, i # j,
           \/ mutation[m].id = i /\ mutation[m].kind \in {"update", "delete"}
           \/ \E k \in Of(m) : log[k].id = i
    PROVE  ~Concerns(m, j) /\ \A k \in Of(m) : log[k].id # j
<1>1. LedgerOf(m)
  BY DEF Base, Ledger
<1>2. CASE mutation[m].kind \in {"update", "delete"}
  <2>1. mutation[m].id = i /\ \A k \in Of(m) : log[k].id = i
    BY <1>1, <1>2 DEF LedgerOf
  <2>. QED
    BY <2>1 DEF Concerns, Of
<1>3. CASE mutation[m].kind = "over"
  <2>1. mutation[m].id # j
    BY <1>1, <1>3, NoneAssumption DEF LedgerOf
  <2>2. \A k \in Of(m) : log[k].id = i
    BY <1>1, <1>3 DEF LedgerOf
  <2>. QED
    BY <2>1, <2>2 DEF Concerns, Of
<1>. QED
  BY <1>2, <1>3 DEF Started

\* An event about another issue.
LEMMA ExplainsOther ==
    ASSUME Base, NEW n \in 1 .. Len(log), NEW h \in 0 .. Len(log), h = n - 1,
           NEW l \in Lists, NEW j \in Issues, log[n].id # j,
           NEW copy, NEW p, NEW t \in 0 .. Len(log), NEW u \in 0 .. Len(log),
           t = u \/ (t = h /\ u = n),
           NEW own \in SUBSET Mutations, NEW left \in SUBSET own, \A m \in own : Started(m),
           \A m \in own \ left : Concerns(m, log[n].id),
           Explains(l, j, copy, p, t, h, own)
    PROVE  Explains(l, j, copy, p, u, n, left)
<1>1. log \in Seq(Entry) /\ Len(log) \in Nat /\ n \in 0 .. Len(log)
  BY Lengths DEF Base
<1>2. PICK i \in Issues : i = log[n].id
  <2>1. log[n] \in Entry
    BY <1>1
  <2>. QED
    BY <2>1 DEF Entry
<1>3. StateAt(n)[j] = StateAt(h)[j]
  <2>1. h \in 0 .. n /\ \A k \in h + 1 .. n : log[k].id # j
    BY <1>1
  <2>. QED
    BY <1>1, <2>1, StateSame
<1>4. StateAt(u)[j] = StateAt(t)[j]
  BY <1>3
<1>5. Owed(j, h) => Owed(j, n)
  <2>1. ASSUME NEW k \in h + 1 .. Len(log), log[k].id = j PROVE k \in n + 1 .. Len(log)
    <3>1. k # n
      BY <2>1
    <3>. QED
      BY <1>1, <3>1
  <2>. QED
    BY <2>1 DEF Owed
<1>6. ASSUME NEW m \in own, Concerns(m, i),
             \/ mutation[m].id = j /\ mutation[m].kind \in {"update", "delete"}
             \/ \E k \in Of(m) : log[k].id = j
      PROVE  FALSE
  BY <1>2, <1>6, ConcernsOne
<1>7. ASSUME NEW m \in own, Changing(m, l, j, h) PROVE m \in left /\ Changing(m, l, j, n)
  <2>1. mutation[m].id = j /\ mutation[m].kind = "update"
    BY <1>7 DEF Changing
  <2>2. m \in left
    BY <1>2, <1>6, <2>1
  <2>3. ASSUME NEW k \in Of(m) PROVE k > n
    <3>1. log[k].id # i
      BY <1>2, <2>1, ConcernsOne
    <3>2. k # n /\ k > h /\ k \in 1 .. Len(log)
      BY <1>2, <1>7, <3>1 DEF Changing, Of
    <3>. QED
      BY <1>1, <3>2
  <2>. QED
    BY <1>7, <2>2, <2>3 DEF Changing
<1>8. ASSUME NEW m \in own, Removing(m, l, j) PROVE m \in left
  BY <1>2, <1>6, <1>8 DEF Removing
<1>9. ASSUME NEW m \in own, Leaving(m, l, j, h) PROVE m \in left /\ Leaving(m, l, j, n)
  <2>1. CASE Changing(m, l, j, h) /\ mutation[m].patch.owner # None
             /\ Judged(l, mutation[m].patch.owner) = "no"
    BY <1>7, <2>1 DEF Leaving
  <2>2. ASSUME NEW k \in Of(m), k > h, log[k].id = j, Place(l, log[k].now) = None
        PROVE  m \in left /\ Leaving(m, l, j, n)
    <3>1. m \in left
      BY <1>2, <1>6, <2>2
    <3>2. k # n /\ k \in 1 .. Len(log)
      BY <2>2 DEF Of
    <3>3. k > n
      BY <1>1, <2>2, <3>2
    <3>. QED
      BY <2>2, <3>1, <3>3 DEF Leaving
  <2>. QED
    BY <1>9, <2>1, <2>2 DEF Leaving
<1>10. ASSUME NEW m \in own, Neutral(m, l, j, h) PROVE Neutral(m, l, j, n)
  <2>1. ASSUME NEW k \in Of(m), k > n, log[k].id = j, log[k].now # None,
               \A d \in n + 1 .. k - 1 : log[d].id # j
        PROVE  Place(l, log[k].now) = Place(l, StateAt(h)[j])
    <3>1. k > h /\ k \in 1 .. Len(log)
      BY <1>1, <2>1 DEF Of
    <3>2. ASSUME NEW d \in h + 1 .. k - 1 PROVE log[d].id # j
      <4>1. d = n \/ d \in n + 1 .. k - 1
        BY <1>1, <3>1
      <4>. QED
        BY <2>1, <4>1
    <3>. QED
      BY <1>10, <2>1, <3>1, <3>2 DEF Neutral
  <2>. QED
    BY <1>3, <1>10, <2>1 DEF Neutral
<1>11. ASSUME copy # None
       PROVE  /\ Place(l, StateAt(u)[j]) # None
              /\ copy = Now[j] \/ Owed(j, n) \/ \E m \in left : Changing(m, l, j, n)
  BY <1>4, <1>5, <1>7, <1>11 DEF Explains
<1>12. ASSUME copy = None
       PROVE  \/ /\ p \in {Place(l, StateAt(u)[j]), Place(l, StateAt(n)[j])}
                 /\ \A m \in left : Neutral(m, l, j, n)
              \/ \E m \in left : Removing(m, l, j)
              \/ p = None /\ \E m \in left : Leaving(m, l, j, n)
  <2>1. \/ /\ p \in {Place(l, StateAt(t)[j]), Place(l, StateAt(h)[j])}
           /\ \A m \in own : Neutral(m, l, j, h)
        \/ \E m \in own : Removing(m, l, j)
        \/ p = None /\ \E m \in own : Leaving(m, l, j, h)
    BY <1>12 DEF Explains
  <2>. QED
    BY <1>3, <1>4, <1>8, <1>9, <1>10, <2>1
<1>13. StateAt(u)[j] = None => p = None
  BY <1>4 DEF Explains
<1>. QED
  BY <1>11, <1>12, <1>13 DEF Explains

\* A list that stays as it is.
LEMMA StaysTurns ==
    ASSUME NEW data, NEW P \in Columns, Fits(data, P), NEW i \in Issues
    PROVE  Turns(data, data, i, P, P[i], Seen(data, i))
<1>1. [P EXCEPT ![i] = P[i]] = P
  BY DEF Columns
<1>. QED
  BY <1>1 DEF Turns

\* A list is explained after an event if the event's issue is.
LEMMA EventTurns ==
    ASSUME Base, UNCHANGED <<log, mutation>>,
           NEW n \in 1 .. Len(log), NEW h \in 0 .. Len(log), h = n - 1, Handled' = n,
           NEW l \in Lists, NEW i \in Issues, log[n].id = i,
           NEW data \in Data, NEW after \in Data, NEW P \in Columns,
           NEW since \in 0 .. Len(log), NEW t \in 0 .. Len(log), NEW u \in 0 .. Len(log),
           t = (IF since < n THEN h ELSE since), u = (IF since < n THEN n ELSE since),
           NEW own \in SUBSET Mutations, NEW left \in SUBSET own, \A m \in own : Started(m),
           \A m \in own \ left : Concerns(m, log[n].id),
           \A j \in Issues : Explains(l, j, Seen(data, j), P[j], t, h, own),
           NEW p \in Column, NEW copy, Turns(after, data, i, P, p, copy),
           Explains(l, i, copy, p, u, n, left)
    PROVE  Explained(l, after, since, left)'
<1>1. ASSUME NEW j \in Issues \ {i} PROVE Explains(l, j, Seen(data, j), P[j], u, n, left)'
  <2>1. PICK c, q : c = Seen(data, j) /\ q = P[j]
    OBVIOUS
  <2>2. Explains(l, j, c, q, t, h, own) /\ log[n].id # j /\ j \in Issues
    BY <2>1
  <2>3. Explains(l, j, c, q, u, n, left)
    <3>1. t = u \/ (t = h /\ u = n)
      OBVIOUS
    <3>. QED
      BY <2>2, <3>1, ExplainsOther
  <2>4. Explains(l, j, c, q, u, n, left)'
    BY <2>3, ExplainsSame
  <2>. QED
    BY <2>1, <2>4
<1>2. Explains(l, i, copy, p, u, n, left)'
  BY ExplainsSame
<1>3. u = Later(since)'
  BY DEF Later
<1>. QED
  BY <1>1, <1>2, <1>3, ExplainedBy

\* An issue that is given in full.
LEMMA InFull ==
    ASSUME NEW e \in Entity, NEW now \in Entity
    PROVE  now \in Patches /\ Merged(e, now) = now
<1>1. now.status # None /\ now.owner # None
  BY NoneAssumption DEF Entity
<1>2. Merged(e, now) = [status |-> now.status, owner |-> now.owner]
  BY <1>1 DEF Merged
<1>3. now = [status |-> now.status, owner |-> now.owner]
  BY DEF Entity
<1>. QED
  BY <1>2, <1>3 DEF Patches

\* What an event makes of a card, if it is decided.
LEMMA LoadedByEvent ==
    ASSUME NEW l \in Lists, NEW data \in Data, NEW i \in Issues, Shows(data, i),
           NEW was \in Entity, NEW now \in Entity,
           ~LoadedCard(l, data, i, now, ChangedFields(now, was)).stale
    PROVE  LET o == LoadedCard(l, data, i, now, ChangedFields(now, was)) IN
           /\ o.written
           /\ \/ o.data = PatchCard(data, i, now) /\ (Place(l, was) # None => Place(l, now) # None)
              \/ o.data = RemoveCard(data, i) /\ Place(l, now) = None
<1>1. PICK changed : changed = ChangedFields(now, was)
  OBVIOUS
<1>2. PICK o : o = LoadedCard(l, data, i, now, changed)
  OBVIOUS
<1>3. PICK removed, patched : removed = RemoveCard(data, i) /\ patched = PatchCard(data, i, now)
  OBVIOUS
<1>4. Merged(Copy(data, i), now) = now
  BY FoundCard, InFull
<1>5. PICK member : member = Judged(l, now.owner)
  OBVIOUS
<1>6. o = Outcome(IF FilterTouched(l, changed) /\ member = "no" THEN removed ELSE patched, TRUE,
                  FilterTouched(l, changed) /\ member = "unknown")
  BY <1>2, <1>3, <1>4, <1>5 DEF LoadedCard
<1>7. /\ o.written /\ o.data = IF FilterTouched(l, changed) /\ member = "no" THEN removed ELSE patched
      /\ ~(FilterTouched(l, changed) /\ member = "unknown")
  <2>1. PICK leaves, open : /\ leaves = (FilterTouched(l, changed) /\ member = "no")
                            /\ open = (FilterTouched(l, changed) /\ member = "unknown")
    OBVIOUS
  <2>2. o = [data |-> IF leaves THEN removed ELSE patched, written |-> TRUE, stale |-> open]
    BY <1>6, <2>1 DEF Outcome
  <2>3. o.written /\ o.data = (IF leaves THEN removed ELSE patched) /\ o.stale = open
    BY <2>2
  <2>4. ~o.stale
    BY <1>1, <1>2
  <2>. QED
    BY <2>1, <2>3, <2>4, Zenon
<1>8. member \in {"yes", "no", "unknown"} /\ (member = "yes" => l = Board \/ now.owner \in ListOwners[l])
  BY <1>5 DEF Judged
<1>9. ~FilterTouched(l, changed) => l = Board \/ now.owner = was.owner
  <2>1. now.owner # None
    BY NoneAssumption DEF Entity
  <2>. QED
    BY <1>1, <2>1 DEF FilterTouched, ChangedFields, Given, Fields
<1>10. was # None /\ now # None
  BY NoneAssumption
<1>11. CASE FilterTouched(l, changed) /\ member = "no"
  <2>1. Place(l, now) = None
    BY <1>5, <1>11, Outside
  <2>. QED
    BY <1>1, <1>2, <1>3, <1>7, <1>11, <2>1
<1>12. CASE ~(FilterTouched(l, changed) /\ member = "no")
  <2>1. Place(l, was) # None => Place(l, now) # None
    <3>1. was \in Entity \cup {None} /\ now \in Entity \cup {None}
      OBVIOUS
    <3>2. Place(l, was) # None => l = Board \/ was.owner \in ListOwners[l]
      BY <3>1, Placing
    <3>3. Place(l, now) # None <=> (l # Board => now.owner \in ListOwners[l])
      BY <1>10, <3>1, Placing
    <3>. QED
      BY <1>7, <1>8, <1>9, <1>12, <3>2, <3>3
  <2>. QED
    BY <1>1, <1>2, <1>3, <1>7, <1>12, <2>1
<1>. QED
  BY <1>11, <1>12

\* The changes of calls that do not concern an issue leave it in its place.
LEMMA Unconcerned ==
    ASSUME NEW m, NEW l, NEW i, NEW h, ~Concerns(m, i)
    PROVE  Neutral(m, l, i, h)
BY DEF Concerns, Neutral, Of

\* What the event after the first h says.
Says(n, h, i, was, now) ==
    h = n - 1 /\ log[n].id = i /\ was = StateAt(h)[i] /\ now = log[n].now

\* From what on the list has been kept by events, before the event and after it.
Onward(t, u, h, n) == t = u \/ (t = h /\ u = n)

\* What an outcome that needs no refetch makes of a list.
Becomes(after, data, o) == ~o.stale /\ after = IF o.written THEN o.data ELSE data

Unconcerning(own, i) == \A m \in own : ~Concerns(m, i)

\* An event about an issue that the list shows.
LEMMA HeardShown ==
    ASSUME Base, NEW n \in 1 .. Len(log), NEW h \in 0 .. Len(log), NEW l \in Lists,
           NEW i \in Issues, NEW was \in Entity, NEW now \in Entity, Says(n, h, i, was, now),
           NEW data \in Data, NEW P \in Columns, Fits(data, P), Shows(data, i),
           NEW t \in 0 .. Len(log), NEW u \in 0 .. Len(log), Onward(t, u, h, n),
           NEW own, NEW left, Unconcerning(left, i),
           Explains(l, i, Seen(data, i), P[i], t, h, own),
           NEW after, after = LoadedCard(l, data, i, now, ChangedFields(now, was)).data,
           ~LoadedCard(l, data, i, now, ChangedFields(now, was)).stale
    PROVE  \E p \in Column, copy \in Entity \cup {None} :
              /\ Turns(after, data, i, P, p, copy) /\ Explains(l, i, copy, p, u, n, left)
<1>0. /\ h = n - 1 /\ log[n].id = i /\ was = StateAt(h)[i] /\ now = log[n].now
      /\ t = u \/ (t = h /\ u = n)
      /\ \A m \in left : ~Concerns(m, i)
  BY DEF Says, Onward, Unconcerning
<1>. USE <1>0
<1>1. TypeInv /\ log \in Seq(Entry) /\ Len(log) \in Nat
  BY Lengths DEF Base
<1>2. StateAt(n)[i] = now
  BY <1>1, StateNew
<1>3. Place(l, StateAt(t)[i]) # None
  <2>1. Seen(data, i) # None
    BY NotSeen
  <2>. QED
    BY <2>1 DEF Explains
<1>4. CASE after = RemoveCard(data, i) /\ Place(l, now) = None
  <2>1. Turns(after, data, i, P, None, None) /\ None \in Column
    BY <1>4, RemoveTurns DEF Column
  <2>2. Explains(l, i, None, None, u, n, left)
    BY <1>2, <1>4, Unconcerned DEF Explains
  <2>. QED
    BY <2>1, <2>2
<1>5. CASE after = PatchCard(data, i, now) /\ (Place(l, was) # None => Place(l, now) # None)
  <2>1. Merged(Copy(data, i), now) = now /\ now \in Patches
    BY FoundCard, InFull
  <2>2. Turns(after, data, i, P, now.status, now)
    BY <1>5, <2>1, PatchTurns
  <2>3. now.status \in Column /\ now # None
    BY NoneAssumption DEF Entity, Column
  <2>4. Place(l, StateAt(u)[i]) # None
    BY <1>2, <1>3, <1>5
  <2>5. StateAt(u)[i] # None
    BY <2>4 DEF Place
  <2>6. now = Now[i] \/ Owed(i, n)
    <3>1. n \in 0 .. Len(log) /\ n \in 0 .. n
      BY <1>1
    <3>. QED
      BY <1>1, <1>2, <2>3, <3>1, OwedNow
  <2>7. Explains(l, i, now, now.status, u, n, left)
    BY <2>3, <2>4, <2>5, <2>6 DEF Explains
  <2>. QED
    BY <2>2, <2>3, <2>7
<1>. QED
  BY <1>4, <1>5, LoadedByEvent

\* An event about an issue that the list does not show: where the issue was.
LEMMA HeardPlace ==
    ASSUME Base, NEW n \in 1 .. Len(log), NEW h \in 0 .. Len(log), n > h,
           NEW i \in Issues, log[n].id = i, \A k \in h + 1 .. n - 1 : log[k].id # i,
           NEW l \in Lists, log[n].now \in Entity,
           NEW p, NEW t, NEW own \in SUBSET Mutations,
           \A m \in own \ {log[n].by} : ~Concerns(m, i),
           Explains(l, i, None, p, t, h, own)
    PROVE  \/ /\ p \in {Place(l, StateAt(t)[i]), Place(l, StateAt(h)[i])}
              /\ log[n].by \in own => Place(l, log[n].now) = Place(l, StateAt(h)[i])
           \/ log[n].by \in own /\ p = None /\ Place(l, log[n].now) = None
<1>1. PICK now \in Entity : now = log[n].now
  OBVIOUS
<1>2. PICK was : was = StateAt(h)[i]
  OBVIOUS
<1>3. PICK by : by = log[n].by
  OBVIOUS
<1>4. n \in Of(by) /\ n > h
  BY <1>3 DEF Of
<1>5. now # None
  BY NoneAssumption
<1>6. CASE p \in {Place(l, StateAt(t)[i]), Place(l, was)} /\ \A m \in own : Neutral(m, l, i, h)
  <2>1. ASSUME by \in own PROVE Place(l, now) = Place(l, was)
    <3>1. Neutral(by, l, i, h)
      BY <1>6, <2>1
    <3>. QED
      BY <1>1, <1>2, <1>4, <1>5, <3>1 DEF Neutral
  <2>. QED
    BY <1>1, <1>2, <1>3, <1>6, <2>1
<1>7. ASSUME NEW m \in own, Removing(m, l, i) PROVE FALSE
  <2>1. m = by
    BY <1>3, <1>7 DEF Concerns, Removing
  <2>. QED
    BY <1>1, <1>4, <1>5, <1>7, <2>1 DEF Removing, Base, Ledger, LedgerOf
<1>8. ASSUME NEW m \in own, Leaving(m, l, i, h) PROVE by \in own /\ Place(l, now) = None
  <2>1. m = by
    BY <1>3, <1>8 DEF Concerns, Leaving, Changing, Of
  <2>2. LedgerOf(m)
    BY DEF Base, Ledger
  <2>3. CASE Changing(m, l, i, h) /\ Judged(l, mutation[m].patch.owner) = "no"
             /\ mutation[m].patch.owner # None
    <3>1. mutation[m].kind = "update" /\ mutation[m].id = i
      BY <2>3 DEF Changing
    <3>2. now = Merged(StateAt(n - 1)[i], mutation[m].patch)
      BY <1>1, <1>4, <2>1, <2>2, <3>1 DEF LedgerOf
    <3>3. now.owner = mutation[m].patch.owner
      BY <2>3, <3>2 DEF Merged
    <3>. QED
      BY <2>1, <2>3, <3>3, Outside
  <2>4. CASE \E k \in Of(m) : k > h /\ log[k].id = i /\ Place(l, log[k].now) = None
    <3>1. PICK k \in Of(m) : Place(l, log[k].now) = None
      BY <2>4
    <3>2. k = n
      BY <1>4, <2>1, <2>2 DEF LedgerOf
    <3>. QED
      BY <1>1, <1>8, <2>1, <3>1, <3>2
  <2>. QED
    BY <1>8, <2>3, <2>4 DEF Leaving
<1>9. \/ p \in {Place(l, StateAt(t)[i]), Place(l, was)} /\ \A m \in own : Neutral(m, l, i, h)
      \/ \E m \in own : Removing(m, l, i)
      \/ p = None /\ \E m \in own : Leaving(m, l, i, h)
  BY <1>2 DEF Explains
<1>. QED
  BY <1>1, <1>2, <1>3, <1>6, <1>7, <1>8, <1>9

\* What the event is for such a list if it is counted right.
Missed(l, data, n, was, now, own, cached, o) ==
    /\ o = UnloadedCard(l, data, log[n].id, now, ChangedFields(now, was), cached)
    /\ cached = was \/ log[n].by \in own
    /\ o.written => log[n].by \notin own
    /\ Unconcerning(own \ {log[n].by}, log[n].id)

\* What the event makes of the list then.
LEMMA HeardUnshown ==
    ASSUME Base, NEW n \in 1 .. Len(log), NEW h \in 0 .. Len(log), NEW l \in Lists,
           NEW i \in Issues, NEW was \in Entity, NEW now \in Entity, Says(n, h, i, was, now),
           NEW data \in Data, NEW P \in Columns, Fits(data, P), ~Shows(data, i),
           NEW t \in 0 .. Len(log), NEW u \in 0 .. Len(log), Onward(t, u, h, n),
           NEW own \in SUBSET Mutations, NEW left, Unconcerning(left, i),
           Explains(l, i, Seen(data, i), P[i], t, h, own),
           NEW cached \in Entity \cup {None}, NEW o, Missed(l, data, n, was, now, own, cached, o),
           o.written => t = h, NEW after, Becomes(after, data, o)
    PROVE  \E p \in Column, copy \in Entity \cup {None} :
              /\ Turns(after, data, i, P, p, copy) /\ Explains(l, i, copy, p, u, n, left)
<1>0. /\ h = n - 1 /\ log[n].id = i /\ was = StateAt(h)[i] /\ now = log[n].now
      /\ t = u \/ (t = h /\ u = n)
      /\ \A m \in own \ {log[n].by} : ~Concerns(m, i)
      /\ \A m \in left : ~Concerns(m, i)
      /\ o = UnloadedCard(l, data, i, now, ChangedFields(now, was), cached)
      /\ cached = was \/ log[n].by \in own
      /\ o.written => t = h /\ log[n].by \notin own
      /\ ~o.stale /\ after = IF o.written THEN o.data ELSE data
  BY DEF Says, Onward, Missed, Becomes, Unconcerning
<1>. USE <1>0
<1>1. TypeInv /\ log \in Seq(Entry) /\ Len(log) \in Nat
  BY Lengths DEF Base
<1>2. StateAt(n)[i] = now /\ now # None /\ now \in Patches /\ Merged(was, now) = now
  BY <1>1, StateNew, NoneAssumption, InFull
<1>3. Seen(data, i) = None
  BY NotSeen
<1>4. PICK p \in Column : p = P[i]
  BY DEF Columns
<1>5. Explains(l, i, None, p, t, h, own)
  BY <1>3, <1>4
<1>6. \/ /\ p \in {Place(l, StateAt(t)[i]), Place(l, was)}
         /\ log[n].by \in own => Place(l, now) = Place(l, was)
      \/ log[n].by \in own /\ p = None /\ Place(l, now) = None
  <2>1. n > h /\ \A k \in h + 1 .. n - 1 : log[k].id # i
    BY <1>1
  <2>2. log[n].now \in Entity
    OBVIOUS
  <2>3. \/ /\ p \in {Place(l, StateAt(t)[i]), Place(l, StateAt(h)[i])}
           /\ log[n].by \in own => Place(l, log[n].now) = Place(l, StateAt(h)[i])
        \/ log[n].by \in own /\ p = None /\ Place(l, log[n].now) = None
    BY <1>5, <2>1, <2>2, HeardPlace
  <2>. QED
    BY <2>3
<1>7. CASE o.written
  <2>1. cached = was /\ t = h /\ log[n].by \notin own
    BY <1>7
  <2>2. /\ o.data = DropTotal(data, was.status) /\ Place(l, was) = was.status
        /\ Judged(l, now.owner) = "no"
    <3>1. o = UnloadedCard(l, data, i, now, ChangedFields(now, was), was)
      BY <2>1
    <3>2. /\ ~UnloadedCard(l, data, i, now, ChangedFields(now, was), was).stale
          /\ UnloadedCard(l, data, i, now, ChangedFields(now, was), was).written
      BY <1>7, <3>1
    <3>. QED
      BY <1>2, <3>1, <3>2, UnloadedDrops
  <2>3. p = was.status /\ was.status \in Statuses
    BY <1>6, <2>1, <2>2 DEF Entity
  <2>4. Turns(after, data, i, P, None, None) /\ None \in Column
    BY <1>4, <1>7, <2>2, <2>3, DropTurns DEF Column
  <2>5. Place(l, now) = None
    BY <2>2, Outside
  <2>6. Explains(l, i, None, None, u, n, left)
    BY <1>2, <2>5, Unconcerned DEF Explains
  <2>. QED
    BY <2>4, <2>6
<1>8. CASE ~o.written
  <2>1. Turns(after, data, i, P, p, None)
    BY <1>3, <1>4, <1>8, StaysTurns
  <2>2. log[n].by \notin own => Place(l, now) = Place(l, was)
    <3>1. ASSUME log[n].by \notin own PROVE Place(l, now) = Place(l, was)
      <4>1. o = UnloadedCard(l, data, i, now, ChangedFields(now, was), was)
        BY <3>1
      <4>2. /\ ~UnloadedCard(l, data, i, now, ChangedFields(now, was), was).stale
            /\ ~UnloadedCard(l, data, i, now, ChangedFields(now, was), was).written
        BY <1>8, <4>1
      <4>. QED
        BY <1>2, <4>2, UnloadedStays
    <3>. QED
      BY <3>1
  <2>3. p \in {Place(l, StateAt(u)[i]), Place(l, now)}
    BY <1>6, <2>2
  <2>4. StateAt(u)[i] = None => p = None
    <3>1. CASE t = u
      BY <1>5, <3>1 DEF Explains
    <3>2. CASE u = n
      BY <1>2, <3>2
    <3>. QED
      BY <3>1, <3>2
  <2>5. Explains(l, i, None, p, u, n, left)
    BY <1>2, <2>3, <2>4, Unconcerned DEF Explains
  <2>. QED
    BY <2>1, <2>5
<1>. QED
  BY <1>7, <1>8

\* An event that leaves a list at rest found it at rest, and what a call has saved of it
\* is then behind: the call began before the event.
LEMMA EventQuiet ==
    ASSUME Base, HandleFrame, NEW l \in Lists, Hold(l), Quiet(l)',
           Follows(list'[l], list[l], {})
    PROVE  /\ Quiet(l) /\ Calm(list[l]) /\ Explained(l, list[l].data, list[l].since, list[l].own)
           /\ \A m \in Mutations : SavedOf(m, l)'
<1>1. UNCHANGED <<socket, mutation>>
  BY DEF HandleFrame
<1>2. Calm(list[l])
  BY DEF Quiet, Follows
<1>3. Quiet(l)
  BY <1>1, <1>2, QuietBefore
<1>4. Explained(l, list[l].data, list[l].since, list[l].own)
  BY <1>3 DEF Hold, ListOf
<1>5. Handled' = Handled + 1 /\ Handled \in Int
  BY WireHandles, Lengths DEF Base
<1>6. ASSUME NEW m \in Mutations PROVE SavedOf(m, l)'
  <2>1. CASE mutation[m].saved[l] = None
    BY <1>1, <2>1 DEF SavedOf
  <2>2. CASE mutation[m].saved[l] # None
    <3>1. mutation[m].at <= Handled
      BY <2>2 DEF Base, Contexts, ContextOf
    <3>2. mutation[m].at \in Nat
      BY CallParts, BoundAssumption DEF Base, Call, Commits
    <3>3. Handled' # mutation'[m].at
      BY <1>1, <1>5, <3>1, <3>2
    <3>. QED
      BY <3>3 DEF SavedOf
  <2>. QED
    BY <2>1, <2>2
<1>. QED
  BY <1>2, <1>3, <1>4, <1>6

\* What an event about an update makes of a list that it leaves at rest.
LEMMA UpdatedList ==
    ASSUME TypeInv, NEW q \in Query, q.data # None, NEW l \in Lists, NEW n,
           NEW i \in Issues, log[n].id = i, NEW now \in Entity, log[n].now = now,
           NEW o, o = Change(l, q.data, i, now, ChangedFields(now, Before(n)), CachedIssue(i)),
           Calm(Updated(q, l, n))
    PROVE  /\ ~o.stale /\ ~Miscounted(q, n, o)
           /\ Updated(q, l, n).data = (IF o.written THEN o.data ELSE q.data)
           /\ Updated(q, l, n).own = {m \in q.own : ~Concerns(m, i)}
           /\ Updated(q, l, n).since = q.since
           /\ o.written => o.data \in Data
<1>1. PICK races \in SUBSET Races : races = IF Miscounted(q, n, o) THEN {"miscounted"} ELSE {}
  BY DEF Races
<1>2. PICK own \in SUBSET Mutations : own = {m \in q.own : ~Concerns(m, i)}
  BY QueryParts
<1>3. PICK was : was = IF o.written THEN Set(q, o.data, races) ELSE q
  OBVIOUS
<1>4. PICK set : set = [was EXCEPT !.own = own, !.races = @ \cup races]
  OBVIOUS
<1>5. Updated(q, l, n) = IF o.stale THEN Invalidated(set, l) ELSE set
  BY <1>1, <1>2, <1>3, <1>4 DEF Updated
<1>6. q.data \in Data /\ now \in Patches /\ CachedIssue(i) \in Entity \cup {None}
  BY QueryParts, CachedIssueType DEF Patches, TypeInv, ClientInv
<1>7. o.data \in Data
  BY <1>6, ChangeType
<1>8. /\ was \in Query /\ was.since = q.since
      /\ was.data = IF o.written THEN o.data ELSE q.data
  BY <1>3, <1>7, SetType, SetData, SetParts
<1>9. set \in Query /\ set.data = was.data /\ set.since = was.since
      /\ set.own = own /\ set.races = was.races \cup races
  <2>1. set \in Query
    BY <1>1, <1>2, <1>4, <1>8, HistoryType
  <2>2. LET after == [was EXCEPT !.own = own, !.races = @ \cup races] IN
        /\ after.data = was.data /\ after.marked = was.marked /\ after.fetch = was.fetch
        /\ after.since = was.since /\ after.own = own /\ after.races = was.races \cup races
    BY <1>8, NotedParts
  <2>. QED
    BY <1>4, <2>1, <2>2
<1>10. ~o.stale
  BY <1>5, <1>9, FollowsInvalidated
<1>11. ~Miscounted(q, n, o)
  BY <1>1, <1>5, <1>9, <1>10 DEF Calm
<1>. QED
  BY <1>2, <1>5, <1>7, <1>8, <1>9, <1>10, <1>11

\* An event about an update.
LEMMA UpdatedHolds ==
    ASSUME Base, Base', NEW l \in Lists, Hold(l), IssueUpdated
    PROVE  Hold(l)'
<1>1. /\ TypeInv /\ log \in Seq(Entry) /\ Len(log) \in Nat /\ Handled \in 0 .. Len(log)
      /\ list \in [Lists -> Query] /\ list[l] \in Query
  BY Lengths DEF Base, TypeInv, ClientInv
<1>2. HandleFrame /\ UNCHANGED <<log, mutation>>
  BY DEF IssueUpdated, HandleFrame
<1>3. PICK n \in 1 .. Len(log) : n = Head(frames) /\ n = Handled + 1 /\ Handled' = n
  BY <1>2, WireHandles DEF Base
<1>4. PICK h \in 0 .. Len(log) : h = Handled /\ h = n - 1
  BY <1>1, <1>3
<1>5. log[n] \in Entry
  BY <1>1
<1>6. PICK i \in Issues : i = log[n].id
  BY <1>5 DEF Entry
<1>7. PICK now \in Entity : now = log[n].now
  BY <1>3, <1>5 DEF IssueUpdated, Entry
<1>8. PICK was \in Entity : was = StateAt(h)[i] /\ was = Before(n)
  <2>1. StateAt(h)[i] = Before(n) /\ Before(n) # None
    BY <1>3, <1>4, <1>6 DEF IssueUpdated, Before
  <2>2. StateAt(h)[i] \in Entity \cup {None}
    BY <1>1, StateType
  <2>. QED
    BY <2>1, <2>2
<1>9. list'[l] = Updated(list[l], l, n)
  BY <1>3 DEF IssueUpdated
<1>10. CASE ~Quiet(l)'
  BY <1>10, Noisy
<1>11. CASE Quiet(l)'
  <2>1. Follows(list'[l], list[l], {})
    BY <1>1, EventFollows DEF Events
  <2>2. /\ Calm(list[l]) /\ Explained(l, list[l].data, list[l].since, list[l].own)
        /\ \A m \in Mutations : SavedOf(m, l)'
    BY <1>2, <1>11, <2>1, EventQuiet
  <2>3. PICK data \in Data : data = list[l].data
    BY <1>1, <2>2, QueryParts DEF Calm
  <2>4. PICK since \in 0 .. Len(log) : since = list[l].since
    <3>1. list[l].since \in Nat /\ list[l].since <= Len(log)
      BY <1>1, QueryParts, BoundAssumption DEF Base, Sights, SeenBy, Commits
    <3>. QED
      BY <1>1, <3>1
  <2>5. PICK own \in SUBSET Mutations : own = list[l].own
    BY <1>1, QueryParts
  <2>6. \A m \in own : Started(m)
    BY <2>5 DEF Base, Sights, SeenBy
  <2>7. PICK left \in SUBSET own : left = {m \in own : ~Concerns(m, i)}
    OBVIOUS
  <2>8. PICK t \in 0 .. Len(log) : t = IF since < n THEN h ELSE since
    OBVIOUS
  <2>9. PICK u \in 0 .. Len(log) : u = IF since < n THEN n ELSE since
    OBVIOUS
  <2>10. t = Later(since) /\ (t = u \/ (t = h /\ u = n))
    BY <1>1, <1>3, <1>4, <2>8, <2>9 DEF Later
  <2>11. PICK P \in Columns :
           Fits(data, P) /\ \A j \in Issues : Explains(l, j, Seen(data, j), P[j], t, h, own)
    BY <1>4, <2>2, <2>3, <2>4, <2>5, <2>10 DEF Explained
  <2>12. PICK cached \in Entity \cup {None} : cached = CachedIssue(i)
    BY <1>1, CachedIssueType DEF TypeInv, ClientInv
  <2>13. PICK o : o = Change(l, data, i, now, ChangedFields(now, was), cached)
    OBVIOUS
  <2>14. /\ ~o.stale /\ ~Miscounted(list[l], n, o)
         /\ list'[l].data = (IF o.written THEN o.data ELSE data)
         /\ list'[l].own = left /\ list'[l].since = since
         /\ o.written => o.data \in Data
    <3>1. Calm(Updated(list[l], l, n)) /\ list[l].data # None
      BY <1>9, <1>11, <2>2 DEF Quiet, Calm
    <3>2. o = Change(l, list[l].data, i, now, ChangedFields(now, Before(n)), CachedIssue(i))
      BY <1>8, <2>3, <2>12, <2>13
    <3>3. /\ ~o.stale /\ ~Miscounted(list[l], n, o)
          /\ Updated(list[l], l, n).data = (IF o.written THEN o.data ELSE list[l].data)
          /\ Updated(list[l], l, n).own = {m \in list[l].own : ~Concerns(m, i)}
          /\ Updated(list[l], l, n).since = list[l].since
          /\ o.written => o.data \in Data
      BY <1>1, <1>6, <1>7, <3>1, <3>2, UpdatedList
    <3>. QED
      BY <1>9, <2>3, <2>4, <2>5, <2>7, <3>3
  <2>15. PICK after \in Data : after = IF o.written THEN o.data ELSE data
    BY <2>14
  <2>16. Explains(l, i, Seen(data, i), P[i], t, h, own)
    BY <2>11
  <2>17. Unconcerning(left, i)
    BY <2>7 DEF Unconcerning
  <2>18. PICK p \in Column, copy \in Entity \cup {None} :
            Turns(after, data, i, P, p, copy) /\ Explains(l, i, copy, p, u, n, left)
    <3>1. CASE Shows(data, i)
      <4>1. o = LoadedCard(l, data, i, now, ChangedFields(now, was))
        BY <2>13, <3>1 DEF Change
      <4>2. o.written
        BY <1>7, <1>8, <2>14, <3>1, <4>1, LoadedByEvent
      <4>3. after = LoadedCard(l, data, i, now, ChangedFields(now, was)).data
        BY <2>15, <4>1, <4>2
      <4>4. ~LoadedCard(l, data, i, now, ChangedFields(now, was)).stale
        BY <2>14, <4>1
      <4>. QED
        <5>1. Says(n, h, i, was, now)
          BY <1>4, <1>6, <1>7, <1>8 DEF Says
        <5>2. Fits(data, P) /\ Onward(t, u, h, n)
          BY <2>10, <2>11 DEF Onward
        <5>. QED
          BY <2>16, <2>17, <3>1, <4>3, <4>4, <5>1, <5>2, HeardShown
    <3>2. CASE ~Shows(data, i)
      <4>1. o = UnloadedCard(l, data, i, now, ChangedFields(now, was), cached)
        BY <2>13, <3>2 DEF Change
      <4>2. /\ o.written => ~(since >= n) /\ log[n].by \notin own
            /\ \A m \in own \ {log[n].by} : ~Concerns(m, i)
            /\ cached = was \/ log[n].by \in own
        BY <1>6, <1>8, <2>3, <2>4, <2>5, <2>12, <2>14, <3>2 DEF Miscounted
      <4>3. o.written => t = h
        BY <2>8, <4>2
      <4>4. Missed(l, data, n, was, now, own, cached, o)
        BY <1>6, <4>1, <4>2 DEF Missed, Unconcerning
      <4>. QED
        <5>1. Says(n, h, i, was, now)
          BY <1>4, <1>6, <1>7, <1>8 DEF Says
        <5>2. Fits(data, P) /\ Onward(t, u, h, n)
          BY <2>10, <2>11 DEF Onward
        <5>3. Becomes(after, data, o)
          BY <2>14, <2>15 DEF Becomes
        <5>. QED
          BY <2>16, <2>17, <3>2, <4>3, <4>4, <5>1, <5>2, <5>3, HeardUnshown
    <3>. QED
      BY <3>1, <3>2
  <2>19. \A m \in own \ left : Concerns(m, log[n].id)
    BY <1>6, <2>7
  <2>20. Explained(l, after, since, left)'
    BY <1>2, <1>3, <1>4, <1>6, <2>6, <2>8, <2>9, <2>11, <2>18, <2>19, EventTurns
  <2>21. ListOf(l)'
    BY <2>14, <2>15, <2>20 DEF ListOf
  <2>. QED
    BY <2>2, <2>21 DEF Hold
<1>. QED
  BY <1>10, <1>11

\* The event after the first h is about an issue that was not there.
Creates(n, h, i) == h = n - 1 /\ log[n].id = i /\ StateAt(h)[i] = None

\* What an event about a created issue makes of a copy that a load has brought already.
LEMMA HeardBefore ==
    ASSUME Base, NEW n \in 1 .. Len(log), NEW h \in 0 .. Len(log),
           NEW l, NEW i \in Issues, Creates(n, h, i),
           NEW t, NEW own \in SUBSET Mutations, NEW copy, copy # None, NEW p,
           Explains(l, i, copy, p, t, h, own)
    PROVE  t # h /\ Explains(l, i, copy, p, t, n, own)
<1>0. h = n - 1 /\ log[n].id = i /\ StateAt(h)[i] = None
  BY DEF Creates
<1>. USE <1>0
<1>1. /\ StateAt(t)[i] = None => p = None
      /\ Place(l, StateAt(t)[i]) # None
      /\ copy = Now[i] \/ Owed(i, h) \/ \E m \in own : Changing(m, l, i, h)
  BY DEF Explains
<1>2. t # h
  BY <1>1 DEF Place
<1>3. log \in Seq(Entry) /\ Len(log) \in Nat
  BY Lengths DEF Base
<1>4. Owed(i, h) => Owed(i, n)
  <2>1. ASSUME NEW k \in h + 1 .. Len(log), log[k].id = i, StateAt(k - 1)[i] # None
        PROVE  k \in n + 1 .. Len(log)
    BY <1>3, <2>1
  <2>. QED
    BY <2>1 DEF Owed
<1>5. ASSUME NEW m \in own, Changing(m, l, i, h) PROVE Changing(m, l, i, n)
  <2>1. ASSUME NEW k \in Of(m) PROVE k > n
    <3>1. LedgerOf(m) /\ mutation[m].kind = "update" /\ mutation[m].id = i
      BY <1>5 DEF Base, Ledger, Changing
    <3>2. StateAt(k - 1)[i] # None
      BY <2>1, <3>1 DEF LedgerOf
    <3>3. k > h /\ k \in 1 .. Len(log)
      BY <1>5, <2>1 DEF Changing, Of
    <3>. QED
      BY <1>3, <3>2, <3>3
  <2>. QED
    BY <1>5, <2>1 DEF Changing
<1>. QED
  BY <1>1, <1>2, <1>4, <1>5 DEF Explains

\* An event about a created issue.
LEMMA CreatedHolds ==
    ASSUME Base, Base', NEW l \in Lists, Hold(l), IssueCreated
    PROVE  Hold(l)'
<1>1. /\ TypeInv /\ log \in Seq(Entry) /\ Len(log) \in Nat /\ Handled \in 0 .. Len(log)
      /\ list \in [Lists -> Query] /\ list[l] \in Query
  BY Lengths DEF Base, TypeInv, ClientInv
<1>2. HandleFrame /\ UNCHANGED <<log, mutation>>
  BY DEF IssueCreated, HandleFrame
<1>3. PICK n \in 1 .. Len(log) : n = Head(frames) /\ n = Handled + 1 /\ Handled' = n
  BY <1>2, WireHandles DEF Base
<1>4. PICK h \in 0 .. Len(log) : h = Handled /\ h = n - 1
  BY <1>1, <1>3
<1>5. log[n] \in Entry
  BY <1>1
<1>6. PICK i \in Issues : i = log[n].id
  BY <1>5 DEF Entry
<1>7. PICK now \in Entity : now = log[n].now
  BY <1>3, <1>5 DEF IssueCreated, Entry
<1>8. StateAt(h)[i] = None
  BY <1>3, <1>4, <1>6 DEF IssueCreated, Before
<1>9. StateAt(n)[i] = now /\ now # None
  BY <1>1, <1>6, <1>7, StateNew, NoneAssumption
<1>10. CASE ~Quiet(l)'
  BY <1>10, Noisy
<1>11. CASE l # Board
  <2>1. list'[l] = Invalidated(list[l], l)
    BY <1>11 DEF IssueCreated
  <2>2. ~Calm(list'[l])
    BY <1>1, <2>1, FollowsInvalidated
  <2>. QED
    BY <2>2, Noisy DEF Quiet
<1>12. CASE l = Board /\ Quiet(l)'
  <2>1. Follows(list'[l], list[l], {})
    BY <1>1, EventFollows DEF Events
  <2>2. /\ Calm(list[l]) /\ Explained(l, list[l].data, list[l].since, list[l].own)
        /\ \A m \in Mutations : SavedOf(m, l)'
    BY <1>2, <1>12, <2>1, EventQuiet
  <2>3. PICK data \in Data : data = list[l].data
    BY <1>1, <2>2, QueryParts DEF Calm
  <2>4. PICK since \in 0 .. Len(log) : since = list[l].since
    <3>1. list[l].since \in Nat /\ list[l].since <= Len(log)
      BY <1>1, QueryParts, BoundAssumption DEF Base, Sights, SeenBy, Commits
    <3>. QED
      BY <1>1, <3>1
  <2>5. PICK own \in SUBSET Mutations : own = list[l].own
    BY <1>1, QueryParts
  <2>6. \A m \in own : Started(m)
    BY <2>5 DEF Base, Sights, SeenBy
  <2>7. PICK t \in 0 .. Len(log) : t = IF since < n THEN h ELSE since
    OBVIOUS
  <2>8. PICK u \in 0 .. Len(log) : u = IF since < n THEN n ELSE since
    OBVIOUS
  <2>9. t = Later(since)
    BY <1>1, <1>3, <1>4, <2>7 DEF Later
  <2>10. PICK P \in Columns :
           Fits(data, P) /\ \A j \in Issues : Explains(l, j, Seen(data, j), P[j], t, h, own)
    BY <1>4, <2>2, <2>3, <2>4, <2>5, <2>9 DEF Explained
  <2>11. PICK twice \in BOOLEAN :
           twice = (now.status \notin Places(data, i) /\ (Shows(data, i) \/ since >= n))
    OBVIOUS
  <2>12. PICK races \in SUBSET Races : races = IF twice THEN {"twice"} ELSE {}
    BY DEF Races
  <2>13. PICK after \in Data : after = AddCard(data, i, now)
    BY AddCardType
  <2>14. list'[l] = Set(list[l], after, races)
    <3>1. data # None
      BY <2>2, <2>3 DEF Calm
    <3>. QED
      BY <1>3, <1>6, <1>7, <1>12, <2>3, <2>4, <2>11, <2>12, <2>13, <3>1 DEF IssueCreated
  <2>15. /\ list'[l].data = after /\ list'[l].since = since /\ list'[l].own = own
         /\ races \subseteq list'[l].races
    BY <1>1, <2>4, <2>5, <2>13, <2>14, SetData, SetParts, SetRaces
  <2>16. ~twice
    BY <1>12, <2>12, <2>15 DEF Quiet, Calm
  <2>17. Explains(l, i, Seen(data, i), P[i], t, h, own)
    BY <2>10
  <2>18. PICK p \in Column, copy \in Entity \cup {None} :
            Turns(after, data, i, P, p, copy) /\ Explains(l, i, copy, p, u, n, own)
    <3>1. CASE now.status \in Places(data, i)
      <4>1. after = data /\ Seen(data, i) # None
        BY <2>13, <3>1, NotSeen DEF AddCard, Shows
      <4>2. t # h /\ Explains(l, i, Seen(data, i), P[i], t, n, own)
        <5>1. Creates(n, h, i)
          BY <1>4, <1>6, <1>8 DEF Creates
        <5>2. PICK c, p : c = Seen(data, i) /\ p = P[i]
          OBVIOUS
        <5>3. Explains(l, i, c, p, t, h, own) /\ c # None
          BY <2>17, <4>1, <5>2
        <5>4. t # h /\ Explains(l, i, c, p, t, n, own)
          BY <5>1, <5>3, HeardBefore
        <5>. QED
          BY <5>2, <5>4
      <4>3. t = u
        BY <2>7, <2>8, <4>2
      <4>4. Turns(after, data, i, P, P[i], Seen(data, i))
        BY <2>10, <4>1, StaysTurns
      <4>5. P[i] \in Column /\ Seen(data, i) \in Entity \cup {None}
        BY NotSeen DEF Columns
      <4>. QED
        BY <4>2, <4>3, <4>4, <4>5
    <3>2. CASE now.status \notin Places(data, i)
      <4>1. ~Shows(data, i) /\ t = h /\ u = n
        <5>1. ~Shows(data, i) /\ ~(since >= n)
          BY <2>11, <2>16, <3>2, Zenon
        <5>. QED
          BY <2>7, <2>8, <5>1
      <4>2. P[i] = None
        BY <1>8, <2>17, <4>1 DEF Explains
      <4>3. Turns(after, data, i, P, now.status, now)
        BY <2>10, <2>13, <4>1, <4>2, AddTurns
      <4>4. now.status \in Column /\ now.status # None
        BY NoneAssumption DEF Entity, Column
      <4>5. now = Now[i] \/ Owed(i, n)
        <5>1. n \in 0 .. Len(log) /\ n \in 0 .. n
          BY <1>1
        <5>. QED
          BY <1>1, <1>9, <5>1, OwedNow
      <4>6. Place(l, now) # None
        BY <1>9, <1>12, <4>4 DEF Place
      <4>7. Explains(l, i, now, now.status, u, n, own)
        BY <1>9, <4>1, <4>5, <4>6 DEF Explains
      <4>. QED
        BY <4>3, <4>4, <4>7
    <3>. QED
      BY <3>1, <3>2
  <2>19. Explained(l, after, since, own)'
    <3>1. own \in SUBSET own /\ \A m \in own \ own : Concerns(m, log[n].id)
      OBVIOUS
    <3>. QED
      BY <1>2, <1>3, <1>4, <1>6, <2>6, <2>7, <2>8, <2>10, <2>18, <3>1, EventTurns
  <2>20. ListOf(l)'
    BY <2>15, <2>19 DEF ListOf
  <2>. QED
    BY <2>2, <2>20 DEF Hold
<1>. QED
  BY <1>10, <1>11, <1>12

\* An event about a deleted issue has every list loaded again.
LEMMA DeletedHolds ==
    ASSUME Base, Base', NEW l \in Lists, Hold(l), IssueDeleted
    PROVE  Hold(l)'
<1>1. TypeInv /\ list \in [Lists -> Query] /\ list[l] \in Query
  BY DEF Base, TypeInv, ClientInv
<1>2. log[Head(frames)] \in Entry
  BY <1>1, FrameHandled DEF IssueDeleted
<1>3. PICK i \in Issues : i = log[Head(frames)].id
  BY <1>2 DEF Entry
<1>4. list'[l] = Pruned(list[l], l, i)
  BY <1>3 DEF IssueDeleted
<1>5. ~Calm(list'[l])
  BY <1>1, <1>4, PrunedFollows
<1>. QED
  BY <1>5, Noisy DEF Quiet

-----------------------------------------------------------------------------
(* A list at rest is what the server has                                   *)

\* Every step of the client, of the server or of the connection.
LEMMA StepHolds ==
    ASSUME Base, Base', NEW l \in Lists, Hold(l), [Next]_vars
    PROVE  Hold(l)'
<1>1. CASE Connection
  BY <1>1, ConnectionHolds
<1>2. CASE Events
  BY <1>2, CreatedHolds, UpdatedHolds, DeletedHolds DEF Events
<1>3. CASE Loads
  BY <1>3, LoadHolds, LoadedHolds
<1>4. CASE Others
  BY <1>4, OthersHold
<1>5. CASE Calls
  <2>1. PICK m \in Mutations :
          \/ \E i \in Issues : \/ \E p \in OneField : StartUpdate(m, i, p)
                               \/ StartDelete(m, i)
                               \/ ServerCreates(m, i)
          \/ \E e \in Drafts : StartCreate(m, e)
          \/ ServerUpdates(m) \/ ServerDeletes(m) \/ ServerRefuses(m) \/ RequestFails(m)
          \/ UpdateSucceeds(m) \/ UpdateFails(m) \/ CreateSettles(m)
          \/ DeleteSucceeds(m) \/ DeleteFails(m)
    BY <1>5 DEF Calls
  <2>2. CASE \E i \in Issues : \E p \in OneField : StartUpdate(m, i, p)
    BY <2>2, StartUpdateHolds DEF OneField
  <2>3. CASE \E i \in Issues : StartDelete(m, i)
    BY <2>3, StartDeleteHolds
  <2>4. CASE \E e \in Drafts : StartCreate(m, e)
    BY <2>4, StartCreateHolds
  <2>5. CASE ServerUpdates(m) \/ ServerDeletes(m) \/ \E i \in Issues : ServerCreates(m, i)
    BY <2>5, ServerHolds
  <2>6. CASE ServerRefuses(m) \/ RequestFails(m)
    BY <2>6, RefusedHolds
  <2>7. CASE UpdateSucceeds(m)
    BY <2>7, SucceedsHold
  <2>8. CASE UpdateFails(m) \/ DeleteFails(m)
    BY <2>8, FailsHold
  <2>9. CASE CreateSettles(m) \/ DeleteSucceeds(m)
    BY <2>9, OthersSettleHold
  <2>. QED
    BY <2>1, <2>2, <2>3, <2>4, <2>5, <2>6, <2>7, <2>8, <2>9
<1>6. CASE UNCHANGED vars
  <2>1. UNCHANGED <<socket, frames, log, mutation, list>>
    BY <1>6 DEF vars, client, socketVars
  <2>2. Quiet(l)' => Quiet(l)
    BY <2>1 DEF Quiet
  <2>. QED
    BY <2>1, <2>2, NothingHolds
<1>. QED
  BY <1>1, <1>2, <1>3, <1>4, <1>5, <1>6 DEF Next

\* A list at rest, with nothing on its way and no call under way, has no explanation but
\* that it is what the server has.
LEMMA ExplainedIsRight ==
    ASSUME Base, NEW l \in Lists, Hold(l), Settled(l), list[l].races = {}
    PROVE  Right(l)
<1>1. /\ TypeInv /\ log \in Seq(Entry) /\ Len(log) \in Nat /\ Handled = Len(log)
      /\ list \in [Lists -> Query] /\ list[l] \in Query
  BY Lengths DEF Base, TypeInv, ClientInv, Settled, Handled
<1>2. \A m \in Mutations : mutation[m].kind \in {"none", "over"} /\ mutation[m].stale = {}
  BY DEF Settled, Base, Contexts, ContextOf
<1>3. Quiet(l)
  BY <1>2 DEF Settled, Quiet, Calm
<1>4. PICK data \in Data : data = list[l].data
  BY <1>1, <1>3, QueryParts DEF Quiet, Calm
<1>5. PICK n \in 0 .. Len(log) : n = Len(log) /\ n = Handled
  BY <1>1
<1>6. Later(list[l].since) = n
  <2>1. list[l].since \in Nat /\ list[l].since <= Len(log)
    BY <1>1, QueryParts, BoundAssumption DEF Base, Sights, SeenBy, Commits
  <2>. QED
    BY <1>1, <1>5, <2>1 DEF Later
<1>7. PICK own \in SUBSET Mutations : own = list[l].own
  BY <1>1, QueryParts
<1>8. PICK P \in Columns :
         Fits(data, P) /\ \A i \in Issues : Explains(l, i, Seen(data, i), P[i], n, n, own)
  BY <1>3, <1>4, <1>5, <1>6, <1>7 DEF Hold, ListOf, Explained
<1>9. PICK state \in [Issues -> Entity \cup {None}] : state = StateAt(n) /\ state = Now
  BY <1>1, <1>5, StateType DEF Now
<1>10. ASSUME NEW i \in Issues
       PROVE  IF Seen(data, i) # None
              THEN Seen(data, i) = state[i] /\ Place(l, state[i]) # None
              ELSE P[i] = Place(l, state[i])
  <2>1. Explains(l, i, Seen(data, i), P[i], n, n, own)
    BY <1>8
  <2>2. ~Owed(i, n)
    <3>1. n + 1 .. Len(log) = {}
      BY <1>1, <1>5
    <3>. QED
      BY <3>1 DEF Owed
  <2>3. \A m \in own : ~Changing(m, l, i, n) /\ ~Removing(m, l, i)
    BY <1>2, <1>7 DEF Changing, Removing
  <2>4. ASSUME NEW m \in own PROVE ~Leaving(m, l, i, n)
    <3>1. \A k \in Of(m) : ~(k > n)
      BY <1>1, <1>5 DEF Of
    <3>. QED
      BY <2>3, <3>1 DEF Leaving
  <2>. QED
    BY <1>9, <2>1, <2>2, <2>3, <2>4 DEF Explains
<1>11. \A s \in Statuses :
          /\ data[s].total = Cardinality(Members(state, l, s))
          /\ data[s].cards \subseteq {CardOf(i, state[i]) : i \in Members(state, l, s)}
  BY <1>8, <1>10, FittingIsRight
<1>. QED
  BY <1>4, <1>9, <1>11 DEF Right

\* A list at rest is what the server has: the total of every bucket is the number of
\* issues the server would count there, and every card it shows is one of them, as it is,
\* unless a named race has happened to the list since its last load. This holds for any
\* number of lists, issues, calls and commits, whatever order events, answers, loads,
\* rollbacks and reconnections come in.
THEOREM ListsAreRight == Spec => []SettledListIsRight
<1>. DEFINE IInv == Base /\ \A l \in Lists : Hold(l)
<1>1. Init => IInv
  <2>1. ASSUME Init PROVE IInv
    <3>1. Base
      BY <2>1, BaseInit
    <3>2. \A l \in Lists : list[l].data = None
      BY <2>1 DEF Init, Unloaded
    <3>3. \A l \in Lists : ~Quiet(l)
      BY <3>2 DEF Quiet, Calm
    <3>. QED
      BY <3>1, <3>3 DEF Hold, ListOf, SavedOf
  <2>. QED
    BY <2>1
<1>2. IInv /\ [Next]_vars => IInv'
  <2>1. ASSUME IInv, [Next]_vars PROVE IInv'
    <3>1. Base'
      BY <2>1, BaseStep
    <3>2. ASSUME NEW l \in Lists PROVE Hold(l)'
      BY <2>1, <3>1, StepHolds
    <3>. QED
      BY <3>1, <3>2
  <2>. QED
    BY <2>1
<1>3. IInv => SettledListIsRight
  BY ExplainedIsRight DEF SettledListIsRight
<1>. QED
  BY <1>1, <1>2, <1>3, PTL DEF Spec

=============================================================================
