---------------------------- MODULE MCTaskQueue ----------------------------
(***************************************************************************)
(* Small instances of TaskQueue for TLC.                                   *)
(***************************************************************************)
EXTENDS TaskQueue, TLC

CONSTANTS MCCapacity

CapacityOfAll == [a \in Agents |-> MCCapacity]

\* Bounds of the instances: how many executions live at once, and whether
\* comments are routed with a fallback at all.
CONSTANTS MaxExec, WithFallbacks

Bounds == Cardinality(exec) <= MaxExec /\ (WithFallbacks \/ routing = {})

Identities ==
    UNION {Permutations(S) : S \in {Tasks, Agents, Issues, Runtimes, Pollers}}
=============================================================================
