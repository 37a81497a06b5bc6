-------------------------- MODULE EmptyClaimCache --------------------------
(***************************************************************************)
(* The negative cache in front of the claim query of one runtime. Redis    *)
(* holds a version, which every enqueue increments after its insert, and a *)
(* verdict "no queued task", tagged with the version a poll sampled before *)
(* the query that found none. A verdict is believed while its tag is the   *)
(* current version.                                                        *)
(*                                                                         *)
(* Every Redis call may fail. What a poll claims once it has found queued  *)
(* rows is TaskQueue's concern: here it takes one of them. A definition    *)
(* under "mutated" is a plausible mistake in the next one, used only to    *)
(* see that the properties can fail.                                       *)
(***************************************************************************)
EXTENDS Naturals

CONSTANTS
    Tasks,
    Pollers,
    NoVerdict,          \* the key is missing
    MaxVersion          \* bound of the model on the version

ASSUME VersionAssumption == MaxVersion \in Nat /\ NoVerdict \notin Nat

VARIABLES
    queued,     \* queued rows of the runtime
    bumping,    \* rows whose enqueue has yet to bump the version
    bumped,     \* queued rows whose bump succeeded
    version,    \* 0 when the key is missing
    verdict,    \* tag of the cached verdict
    poll,       \* [Pollers -> claim request]
    lost        \* history: Redis has restarted empty

vars == <<queued, bumping, bumped, version, verdict, poll, lost>>

Versions == 0 .. MaxVersion
Poll == [pc: {"check", "sample", "select", "mark"}, observed: Versions]

Init ==
    /\ queued = {}
    /\ bumping = {}
    /\ bumped = {}
    /\ version = 0
    /\ verdict = NoVerdict
    /\ poll = [p \in Pollers |-> [pc |-> "check", observed |-> 0]]
    /\ lost = FALSE

-----------------------------------------------------------------------------
(* Enqueue, requeue, retry and promotion: the row first, then the version   *)

QueueTask(t) ==
    /\ t \notin queued \cup bumping
    /\ queued' = queued \cup {t}
    /\ bumping' = bumping \cup {t}
    /\ UNCHANGED <<bumped, version, verdict, poll, lost>>

\* The row may have been claimed in the meantime.
Bump(t) ==
    /\ t \in bumping
    /\ version < MaxVersion
    /\ version' = version + 1
    /\ bumping' = bumping \ {t}
    /\ bumped' = bumped \cup ({t} \cap queued)
    /\ UNCHANGED <<queued, verdict, poll, lost>>

\* A Redis error is only logged; or the server dies before the call.
BumpFails(t) ==
    /\ t \in bumping
    /\ bumping' = bumping \ {t}
    /\ UNCHANGED <<queued, bumped, version, verdict, poll, lost>>

-----------------------------------------------------------------------------
(* One poll of the runtime                                                  *)

IsEmpty == verdict = version

PollTo(p, pc) == poll' = [poll EXCEPT ![p].pc = pc]

\* On a hit the poll ends here, with no task.
CheckVerdict(p) ==
    /\ poll[p].pc = "check"
    /\ ~IsEmpty
    /\ PollTo(p, "sample")
    /\ UNCHANGED <<queued, bumping, bumped, version, verdict, lost>>

\* The read fails, which counts as a miss.
CheckFails(p) ==
    /\ poll[p].pc = "check"
    /\ PollTo(p, "sample")
    /\ UNCHANGED <<queued, bumping, bumped, version, verdict, lost>>

\* mutated
ReadingsOrNil == {version, NoVerdict}

\* An error reads as version 0.
Readings == {version, 0}

CurrentVersion(p) ==
    /\ poll[p].pc = "sample"
    /\ \E v \in Readings :
         poll' = [poll EXCEPT ![p] = [pc |-> "select", observed |-> v]]
    /\ UNCHANGED <<queued, bumping, bumped, version, verdict, lost>>

ListQueuedClaimCandidates(p) ==
    /\ poll[p].pc = "select"
    /\ IF queued = {}
       THEN PollTo(p, "mark") /\ UNCHANGED <<queued, bumped>>
       ELSE \E t \in queued : /\ queued' = queued \ {t}
                              /\ bumped' = bumped \ {t}
                              /\ PollTo(p, "check")
    /\ UNCHANGED <<bumping, version, verdict, lost>>

\* mutated
CurrentTag(p) == version

Tag(p) == poll[p].observed

MarkEmpty(p) ==
    /\ poll[p].pc = "mark"
    /\ verdict' \in {Tag(p), verdict}
    /\ PollTo(p, "check")
    /\ UNCHANGED <<queued, bumping, bumped, version, lost>>

AbortPoll(p) ==
    /\ poll[p].pc # "check"
    /\ PollTo(p, "check")
    /\ UNCHANGED <<queued, bumping, bumped, version, verdict, lost>>

-----------------------------------------------------------------------------
(* Redis                                                                    *)

\* mutated
WithoutTTL == FALSE

\* The verdict is written with EmptyClaimCacheTTL, three minutes.
TTLPasses == verdict # NoVerdict

VerdictExpires ==
    /\ TTLPasses
    /\ verdict' = NoVerdict
    /\ UNCHANGED <<queued, bumping, bumped, version, poll, lost>>

\* After 24 hours without a bump or a sample: longer than a verdict or a poll lasts.
VersionExpires ==
    /\ version # 0
    /\ verdict = NoVerdict
    /\ \A p \in Pollers : poll[p].pc \in {"check", "sample"}
    /\ version' = 0
    /\ UNCHANGED <<queued, bumping, bumped, verdict, poll, lost>>

LoseData ==
    /\ lost' = TRUE
    /\ version' = 0
    /\ verdict' = NoVerdict
    /\ UNCHANGED <<queued, bumping, bumped, poll>>

-----------------------------------------------------------------------------
PollStep(p) ==
    \/ CheckVerdict(p)
    \/ CurrentVersion(p)
    \/ ListQueuedClaimCandidates(p)
    \/ MarkEmpty(p)

Next ==
    \/ \E t \in Tasks : QueueTask(t) \/ Bump(t) \/ BumpFails(t)
    \/ \E p \in Pollers : PollStep(p) \/ CheckFails(p) \/ AbortPoll(p)
    \/ VerdictExpires
    \/ VersionExpires
    \/ LoseData

Spec == Init /\ [][Next]_vars

\* The daemon keeps polling, not every poll is cut short, and Redis honours the
\* time to live.
Fairness ==
    /\ \A p \in Pollers : /\ WF_vars(PollStep(p))
                          /\ SF_vars(CurrentVersion(p))
                          /\ SF_vars(ListQueuedClaimCandidates(p))
    /\ WF_vars(VerdictExpires)

FairSpec == Spec /\ Fairness

-----------------------------------------------------------------------------
(* Properties *)

\* Every variable stays within its domain.
TypeOK ==
    /\ queued \subseteq Tasks
    /\ bumping \subseteq Tasks
    /\ bumped \subseteq queued
    /\ version \in Versions
    /\ verdict \in Versions \cup {NoVerdict}
    /\ poll \in [Pollers -> Poll]
    /\ lost \in BOOLEAN

\* "Never a stalled task": once its enqueue has bumped the version, a queued row
\* is not hidden by a verdict, whatever slow poll writes one after the bump. (A
\* restart of Redis reuses versions; then only the time to live helps.)
NoStalledTask == ~lost /\ bumped # {} => ~IsEmpty

\* "The TTL remains the safety net": failed bumps, crashed enqueues and lost data
\* delay a queued row, but a poll takes it in the end.
QueuedIsTaken == \A t \in Tasks : t \in queued ~> t \notin queued
=============================================================================
