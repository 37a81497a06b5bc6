---------------------------- MODULE MCIssueLists ----------------------------
(***************************************************************************)
(* A small instance of IssueLists for TLC: a board and one filtered list,  *)
(* two issues in the same column of both, of which a page shows one.       *)
(***************************************************************************)
EXTENDS IssueLists

CONSTANTS Me, Other, Mine

MCListOwners == [l \in {Mine} |-> {Me}]
MCDrafts == {[status |-> 1, owner |-> Me]}
MCStart == [i \in Issues |->
    IF i = 3 THEN None ELSE [status |-> 1, owner |-> Me]]

\* Bounds besides MaxCommits and MaxMoves: what surrounds a call of useCreateIssue, which
\* makes no optimistic change, and what surrounds the last commit when the user has made
\* none. A last move is followed only if a list without a race is loaded or being loaded.
NoCallOf(kinds) == \A m \in Mutations : mutation[m].kind \notin kinds
Followed(q) == q.fetch # None \/ (q.data # None /\ q.races = {})
Bounds ==
    \/ moves < MaxMoves
    \/ /\ \E l \in Lists : Followed(list[l])
       /\ NoCallOf({"create"})
       /\ Len(log) < MaxCommits \/ NoCallOf({"none"})

=============================================================================
