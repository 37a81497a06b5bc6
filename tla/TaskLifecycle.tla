--------------------------- MODULE TaskLifecycle ---------------------------
(***************************************************************************)
(* What the task queue promises of its rows, without polls, leases,        *)
(* daemons or handlers: the life of a row, that an agent works on an issue *)
(* through one row at a time, and that it never works on more rows than it *)
(* has capacity for. TaskQueue implements it.                              *)
(***************************************************************************)
EXTENDS Naturals, FiniteSets

CONSTANTS Tasks, Agents, Issues, Capacity

VARIABLES status, agent, issue

vars == <<status, agent, issue>>

Active   == {"dispatched", "running", "waiting_local_directory"}
Open     == Active \cup {"queued", "deferred"}
Finished == {"completed", "failed", "cancelled"}
Status   == {"absent"} \cup Open \cup Finished

ActiveOf(a) == {t \in Tasks : agent[t] = a /\ status[t] \in Active}

Init ==
    /\ status = [t \in Tasks |-> "absent"]
    /\ agent \in [Tasks -> Agents]
    /\ issue \in [Tasks -> Issues]

\* A row is created, ready to run or inert.
Create(t, s, a, i) ==
    /\ status[t] = "absent"
    /\ s \in {"queued", "deferred"}
    /\ status' = [status EXCEPT ![t] = s]
    /\ agent' = [agent EXCEPT ![t] = a]
    /\ issue' = [issue EXCEPT ![t] = i]

\* All rows of S, in states From, move to state s together.
Move(S, From, s) ==
    /\ \A t \in S : status[t] \in From
    /\ status' = [t \in Tasks |-> IF t \in S THEN s ELSE status[t]]
    /\ UNCHANGED <<agent, issue>>

Promote(S) == Move(S, {"deferred"}, "queued")

\* A claim waits until the agent has room and no active row for the issue.
Claim(t) ==
    /\ Move({t}, {"queued"}, "dispatched")
    /\ Cardinality(ActiveOf(agent[t])) < Capacity[agent[t]]
    /\ \A u \in ActiveOf(agent[t]) : issue[u] # issue[t]

Release(t)   == Move({t}, {"dispatched"}, "queued")
Park(t)      == Move({t}, {"dispatched"}, "waiting_local_directory")
Start(t)     == Move({t}, {"dispatched", "waiting_local_directory"}, "running")
Complete(t)  == Move({t}, {"running"}, "completed")
Fail(S)      == Move(S, Active \cup {"queued"}, "failed")
Cancel(S)    == Move(S, Open, "cancelled")

Next ==
    \/ \E t \in Tasks :
         \/ \E s \in Status, a \in Agents, i \in Issues : Create(t, s, a, i)
         \/ Claim(t)
         \/ Release(t)
         \/ Park(t)
         \/ Start(t)
         \/ Complete(t)
    \/ \E S \in SUBSET Tasks : Promote(S) \/ Fail(S) \/ Cancel(S)

Spec == Init /\ [][Next]_vars
=============================================================================
