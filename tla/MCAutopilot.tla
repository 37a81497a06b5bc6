---------------------------- MODULE MCAutopilot ----------------------------
(***************************************************************************)
(* Small instances of AutopilotDispatch and of the scheduler in it.        *)
(***************************************************************************)
EXTENDS AutopilotDispatch, TLC

\* Bounds of the instances: the occurrences an autopilot dispatches; and for the
\* other jobs, how long they are followed, which of their plans fail to be claimed,
\* and how many plans may be chosen without history.
CONSTANTS Occurrences, MaxOtherTime, MayFail, MaxBootstraps

Bounds ==
    IF job.planner = "autopilot" THEN Claimed \subseteq Occurrences
    ELSE /\ now <= MaxOtherTime
         /\ unclaimed \subseteq MayFail
         /\ Cardinality(bootstrap) <= MaxBootstraps

Servers == Permutations(Runners)
=============================================================================
