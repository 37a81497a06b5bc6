----------------------- MODULE EmptyClaimCacheProofs -----------------------
(***************************************************************************)
(* Theorems about EmptyClaimCache, for any number of rows and polls.       *)
(***************************************************************************)
EXTENDS EmptyClaimCache, TLAPS

\* While Redis has its data, a tag is a version that has existed: a cached one, or
\* one a poll carries.
TagsArePast ==
  ~lost =>
    /\ verdict # NoVerdict => verdict <= version
    /\ \A p \in Pollers : poll[p].pc \in {"select", "mark"} => poll[p].observed <= version

\* While a row waits whose enqueue has bumped the version, every tag is older
\* than that bump.
TagsAreStale ==
    ~lost /\ bumped # {} =>
        /\ verdict # NoVerdict => verdict < version
        /\ \A p \in Pollers : poll[p].pc = "mark" => poll[p].observed < version

IInv == TypeOK /\ TagsArePast /\ TagsAreStale

\* The initial state satisfies the inductive invariant.
LEMMA InitIInv == Init => IInv
<1>. SUFFICES ASSUME Init PROVE IInv
  OBVIOUS
<1>1. poll \in [Pollers -> Poll] /\ \A p \in Pollers : poll[p].pc = "check"
  BY VersionAssumption DEF Init, Poll, Versions
<1>2. /\ queued = {} /\ bumping = {} /\ bumped = {}
      /\ version \in Versions /\ verdict = NoVerdict
  BY VersionAssumption DEF Init, Versions
<1>3. lost \in BOOLEAN
  BY Zenon DEF Init
<1>4. TypeOK
  BY <1>1, <1>2, <1>3 DEF TypeOK
<1>5. TagsArePast /\ TagsAreStale
  BY <1>1, <1>2 DEF TagsArePast, TagsAreStale
<1>. QED
  BY <1>4, <1>5 DEF IInv

\* A poll moves on without touching Redis or the table: no tag is created.
LEMMA MovedPoll ==
    ASSUME IInv, NEW p \in Pollers, NEW pc \in {"check", "sample"},
           PollTo(p, pc), UNCHANGED <<queued, bumping, version, verdict, lost>>,
           bumped' \subseteq bumped, bumped' \subseteq queued'
    PROVE  IInv'
<1>. USE DEF IInv, TypeOK
<1>1. poll' \in [Pollers -> Poll]
  BY DEF PollTo, Poll
<1>2. \A q \in Pollers : poll'[q].pc \in {"select", "mark"} => poll'[q] = poll[q]
  BY DEF PollTo, Poll
<1>3. TagsArePast'
  BY <1>2 DEF TagsArePast
<1>4. TagsAreStale'
  BY <1>2 DEF TagsAreStale
<1>. QED
  BY <1>1, <1>3, <1>4

\* Every step preserves the inductive invariant.
LEMMA NextIInv ==
    ASSUME IInv, [Next]_vars
    PROVE  IInv'
<1>. USE VersionAssumption DEF IInv, TypeOK, Versions
<1>1. ASSUME NEW t \in Tasks, QueueTask(t)
      PROVE  IInv'
  BY <1>1 DEF QueueTask, TagsArePast, TagsAreStale
<1>2. ASSUME NEW t \in Tasks, Bump(t)
      PROVE  IInv'
  <2>1. version' \in 0 .. MaxVersion /\ version' = version + 1
    BY <1>2 DEF Bump
  <2>2. \A p \in Pollers : poll[p].observed \in 0 .. MaxVersion
    BY DEF Poll
  <2>3. TagsArePast' /\ TagsAreStale'
    BY <1>2, <2>1, <2>2 DEF Bump, TagsArePast, TagsAreStale
  <2>. QED
    BY <1>2, <2>1, <2>3 DEF Bump
<1>3. ASSUME NEW t \in Tasks, BumpFails(t)
      PROVE  IInv'
  BY <1>3 DEF BumpFails, TagsArePast, TagsAreStale
<1>4. ASSUME NEW p \in Pollers, CheckVerdict(p) \/ CheckFails(p) \/ AbortPoll(p)
      PROVE  IInv'
  BY <1>4, MovedPoll DEF CheckVerdict, CheckFails, AbortPoll
<1>5. ASSUME NEW p \in Pollers, CurrentVersion(p)
      PROVE  IInv'
  <2>1. PICK v \in {version, 0} :
          poll' = [poll EXCEPT ![p] = [pc |-> "select", observed |-> v]]
    BY <1>5 DEF CurrentVersion, Readings
  <2>2. v \in 0 .. MaxVersion /\ v <= version
    BY <2>1
  <2>3. poll' \in [Pollers -> Poll]
    BY <2>1, <2>2 DEF Poll
  <2>4. \A q \in Pollers : q # p => poll'[q] = poll[q]
    BY <2>1
  <2>5. poll'[p].pc = "select" /\ poll'[p].observed = v
    BY <2>1
  <2>6. TagsArePast' /\ TagsAreStale'
    BY <1>5, <2>2, <2>4, <2>5 DEF CurrentVersion, TagsArePast, TagsAreStale
  <2>. QED
    BY <1>5, <2>3, <2>6 DEF CurrentVersion
<1>6. ASSUME NEW p \in Pollers, ListQueuedClaimCandidates(p)
      PROVE  IInv'
  <2>1. CASE queued = {}
    <3>1. /\ PollTo(p, "mark")
          /\ UNCHANGED <<queued, bumping, bumped, version, verdict, lost>>
          /\ poll[p].pc = "select"
      BY <1>6, <2>1 DEF ListQueuedClaimCandidates
    <3>2. bumped = {}
      BY <2>1
    <3>3. poll' \in [Pollers -> Poll]
      BY <3>1 DEF PollTo, Poll
    <3>4. \A q \in Pollers : /\ poll'[q].observed = poll[q].observed
                             /\ poll'[q].pc \in {"select", "mark"}
                                    => poll[q].pc \in {"select", "mark"}
      BY <3>1 DEF PollTo, Poll
    <3>5. TagsArePast' /\ TagsAreStale'
      BY <3>1, <3>2, <3>4 DEF TagsArePast, TagsAreStale
    <3>. QED
      BY <3>1, <3>3, <3>5
  <2>2. CASE queued # {}
    <3>1. PICK t \in queued : /\ queued' = queued \ {t}
                              /\ bumped' = bumped \ {t}
                              /\ PollTo(p, "check")
                              /\ UNCHANGED <<bumping, version, verdict, lost>>
      BY <1>6, <2>2 DEF ListQueuedClaimCandidates
    <3>2. poll' \in [Pollers -> Poll]
      BY <3>1 DEF PollTo, Poll
    <3>3. \A q \in Pollers : poll'[q].pc \in {"select", "mark"} => poll'[q] = poll[q]
      BY <3>1 DEF PollTo, Poll
    <3>4. TagsArePast' /\ TagsAreStale'
      BY <3>1, <3>3 DEF TagsArePast, TagsAreStale
    <3>. QED
      BY <3>1, <3>2, <3>4
  <2>. QED
    BY <2>1, <2>2
<1>7. ASSUME NEW p \in Pollers, MarkEmpty(p)
      PROVE  IInv'
  <2>1. /\ verdict' \in {poll[p].observed, verdict}
        /\ poll[p].pc = "mark"
        /\ PollTo(p, "check")
        /\ UNCHANGED <<queued, bumping, bumped, version, lost>>
    BY <1>7 DEF MarkEmpty, Tag
  <2>2. poll[p].observed \in 0 .. MaxVersion
    BY DEF Poll
  <2>3. poll' \in [Pollers -> Poll]
    BY <2>1 DEF PollTo, Poll
  <2>4. \A q \in Pollers : poll'[q].pc \in {"select", "mark"} => poll'[q] = poll[q]
    BY <2>1 DEF PollTo, Poll
  <2>5. TagsArePast' /\ TagsAreStale'
    BY <2>1, <2>4 DEF TagsArePast, TagsAreStale
  <2>. QED
    BY <2>1, <2>2, <2>3, <2>5
<1>8. ASSUME VerdictExpires
      PROVE  IInv'
  BY <1>8 DEF VerdictExpires, TagsArePast, TagsAreStale
<1>9. ASSUME VersionExpires
      PROVE  IInv'
  BY <1>9 DEF VersionExpires, TagsArePast, TagsAreStale
<1>10. ASSUME LoseData
       PROVE  IInv'
  BY <1>10 DEF LoseData, TagsArePast, TagsAreStale
<1>11. CASE UNCHANGED vars
  BY <1>11 DEF vars, TagsArePast, TagsAreStale
<1>. QED
  BY <1>1, <1>2, <1>3, <1>4, <1>5, <1>6, <1>7, <1>8, <1>9, <1>10, <1>11
     DEF Next, PollStep

\* The inductive invariant holds in every reachable state.
LEMMA Invariance == Spec => []IInv
  BY InitIInv, NextIInv, PTL DEF Spec

\* Redis, the polls and the rows keep their shapes, for any numbers of them.
THEOREM TypeCorrectness == Spec => []TypeOK
  BY Invariance, PTL DEF IInv

\* No verdict hides a queued row whose enqueue has bumped the version, however
\* slow the polls that write verdicts are, as long as Redis keeps its data.
THEOREM NeverStalled == Spec => []NoStalledTask
<1>1. IInv => NoStalledTask
  BY VersionAssumption DEF IInv, TypeOK, TagsAreStale, NoStalledTask, IsEmpty, Versions
<1>. QED
  BY <1>1, Invariance, PTL
=============================================================================
