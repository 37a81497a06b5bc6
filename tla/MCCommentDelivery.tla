------------------------- MODULE MCCommentDelivery -------------------------
(***************************************************************************)
(* Small instances of CommentDelivery for TLC.                             *)
(***************************************************************************)
EXTENDS CommentDelivery, FiniteSetsExt, TLC

\* What the environment of an instance may do besides posting comments: how many
\* edits and deletions at a time, how many rows that end badly or are assignments,
\* and how many requests and claims are served at once.
CONSTANTS AssignmentsBefore, MaxRewriting, MaxUnusual, MaxBusy

\* A row made by an assignment that no comment has been merged into.
Assigned(t) ==
    row[t].attempt = 1 /\ row[t].trigger = NoComment /\ deleted = {}

Claims == MapThenSumSet(LAMBDA t : row[t].claim, Tasks)

\* A behaviour is followed until a comment is lost, which the property has then
\* seen, a second row is stamped with a head, or the head moves away from the stamp.
Bounds ==
    /\ Cardinality({h \in Handlers : handler[h].last # NoComment}) <= MaxRewriting
    /\ MaxRewriting > 0 \/ deleted = {}
    /\ Cardinality({t \in Tasks : In(t, {"failed", "cancelled"}) \/ Assigned(t)}) <= MaxUnusual
    /\ \A t \in Tasks : Assigned(t) => row[t].born < AssignmentsBefore
    /\ Cardinality({h \in Handlers : handler[h].pc # "idle"})
         + Cardinality({p \in Pollers : poll[p].task # None}) <= MaxBusy
    /\ Claims <= MaxClaims + 1
    /\ \A t \in Tasks : row[t].head \in {None, head}
    /\ Cardinality({t \in Tasks : row[t].head # None}) <= 1
    /\ \A c \in Existing : AccountedFor(c)

Identities == Permutations(Tasks) \cup Permutations(Handlers) \cup Permutations(Pollers)
=============================================================================
