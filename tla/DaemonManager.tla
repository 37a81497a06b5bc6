--------------------------- MODULE DaemonManager ---------------------------
(***************************************************************************)
(* The main process of the desktop app, which keeps one local daemon: its  *)
(* lifecycle, the credentials it starts with, the version it runs and the  *)
(* state the user is shown.                                                *)
(*                                                                         *)
(* Every handler, timer callback and unawaited promise is a flow: the      *)
(* steps it still has to take, where a step runs from one await to the     *)
(* next. A step that needs an answer first takes it ("saw") and acts on it *)
(* later, whatever has changed meanwhile. Only start, stop and restart of  *)
(* the user go through withGuard.                                          *)
(*                                                                         *)
(* The daemon is another process. It loads its token before it serves      *)
(* /health, and after a shutdown request it serves until its work is done. *)
(*                                                                         *)
(* "races" is history: what has happened that excuses a wrong credential.  *)
(***************************************************************************)
EXTENDS Naturals, Sequences, FiniteSets

CONSTANTS
    Users,
    Flows,          \* bound of the model on handlers that run at once
    MaxMints,       \* bound of the model on tokens
    MaxMoves,       \* bound of the model on what users, disks and the network start
    None

Tokens == 1 .. MaxMints

LoggedOut == "logged out"

ASSUME UsersAssumption == {None, LoggedOut} \cap Users = {} /\ None # LoggedOut
ASSUME BoundsAssumption == MaxMints \in Nat \ {0} /\ MaxMoves \in Nat
ASSUME TokensAssumption == None \notin Tokens

VARIABLES
    state,      \* currentState
    guard,      \* operationInProgress
    pending,    \* pendingVersionRestart
    probe,      \* startingSince, authProbeDone and authExpired
    config,     \* the token in the profile's config.json
    sidecar,    \* the user in its .desktop-user-id
    daemon,     \* the process on the profile's port
    flow,       \* [Flows -> what is left to do]
    session,    \* the user who is logged in; None until it is known
    minted,     \* the owners of the tokens made so far
    dead,       \* tokens the server rejects
    races,
    moves

manager == <<state, guard, pending, probe>>
files == <<config, sidecar>>
server == <<minted, dead>>
vars == <<manager, files, daemon, flow, session, server, races, moves>>

States == {"stopped", "starting", "running", "stopping", "auth_expired"}
Races == {"two writers", "half written", "not synced", "stop refused", "stop failed",
          "cut short", "outlived the stop", "not seen", "stale verdict"}

Health == [status: {"off", "starting", "running"}, old: BOOLEAN, busy: BOOLEAN]
Process == [phase: {"off", "spawned", "loaded", "starting", "running"}, leaving: BOOLEAN,
            token: Tokens \cup {None}, old: BOOLEAN, busy: BOOLEAN]
NoProcess == [phase |-> "off", leaving |-> FALSE, token |-> None, old |-> FALSE, busy |-> FALSE]

Credentials == {"sync", "sync user", "mint", "write token", "write user",
                "clear", "clear token", "clear user"}
GuardedSteps == {"guarded start", "guarded stop", "guarded restart"}
Steps == Credentials \cup GuardedSteps \cup
         {"unlock", "poll", "auto start", "verdict", "version", "rotate",
          "stop", "exec stop", "stop ends", "start", "exec start", "start ends"}

Flow == [todo: Seq(Steps),
         onFail: Seq(Steps),            \* what a failure of the current step leaves
         saw: Health \cup {None},
         expired: BOOLEAN,              \* the probe's verdict
         user: Users \cup {None},
         token: Tokens \cup {None},
         prior: Users \cup {None}]      \* previousUserId
Idle == [todo |-> <<>>, onFail |-> <<>>, saw |-> None, expired |-> FALSE,
         user |-> None, token |-> None, prior |-> None]

Restart == <<"stop", "start">>
Guarded(op) == CASE op = "guarded start"   -> <<"start", "unlock">>
                 [] op = "guarded stop"    -> <<"stop", "unlock">>
                 [] op = "guarded restart" -> <<"stop", "start", "unlock">>

NoProbe == [since |-> FALSE, done |-> FALSE, expired |-> FALSE]
Probe == [since: BOOLEAN, done: BOOLEAN, expired: BOOLEAN]

\* The app is new to the machine, or has a user: with an older daemon running or with none,
\* before or after the session is restored.
Init ==
    /\ state = "stopped" /\ guard = FALSE /\ pending = FALSE /\ probe = NoProbe
    /\ \/ /\ config = None /\ sidecar = None /\ minted = <<>>
          /\ daemon = NoProcess /\ session = None
       \/ \E u \in Users :
            /\ session \in {None, u}
            /\ config = 1 /\ sidecar = u /\ minted = <<u>>
            /\ daemon \in {NoProcess, [NoProcess EXCEPT !.phase = "running", !.token = 1,
                                                        !.old = TRUE]}
    /\ dead = {}
    /\ flow = [f \in Flows |-> Idle]
    /\ races = {}
    /\ moves = 0

-----------------------------------------------------------------------------

Move == moves < MaxMoves /\ moves' = moves + 1

At(f, step) == flow[f].todo # <<>> /\ Head(flow[f].todo) = step
Free(f) == flow[f].todo = <<>>
Asked(f) == flow[f].saw # None

\* The step is over; the ones given come before what was left.
Then(f, steps) ==
    LET todo == steps \o Tail(flow[f].todo) IN
    IF todo = <<>> THEN Idle ELSE [flow[f] EXCEPT !.todo = todo, !.saw = None]
Goes(f, steps) == flow' = [flow EXCEPT ![f] = Then(f, steps)]

\* A failure ends the flow, but for what catches it.
Failed(f) ==
    IF flow[f].onFail = <<>> THEN Idle
    ELSE [Idle EXCEPT !.todo = flow[f].onFail]
Fails(f) == flow' = [flow EXCEPT ![f] = Failed(f)]

Begins(f, steps, onFail, user) ==
    /\ Free(f)
    /\ flow' = [flow EXCEPT ![f] = [Idle EXCEPT !.todo = steps, !.onFail = onFail, !.user = user]]

Note(what) == races' = races \cup what
If(condition, race) == IF condition THEN {race} ELSE {}

ComingUp == daemon.phase \in {"spawned", "loaded"}
Serving == daemon.phase \in {"starting", "running"}

\* The answer of /health: only the version check reads more of it than the status.
Answer(f) == [status |-> IF Serving THEN daemon.phase ELSE "off",
              old |-> At(f, "version") /\ daemon.old, busy |-> At(f, "version") /\ daemon.busy]
Alive(health) == health.status # "off"

\* fetchHealthAtPort
AskHealth(f) ==
    /\ ~Free(f) /\ Head(flow[f].todo) \in {"poll", "auto start", "version", "rotate", "start"}
    /\ ~Asked(f)
    /\ flow' = [flow EXCEPT ![f].saw = Answer(f)]
    /\ Note(If(At(f, "rotate") /\ ComingUp, "not seen"))
    /\ UNCHANGED <<manager, files, daemon, session, server, moves>>

-----------------------------------------------------------------------------
(* withGuard                                                               *)

\* mutated
TakeGuardForGood(f) ==
    /\ ~Free(f) /\ Head(flow[f].todo) \in GuardedSteps
    /\ ~guard
    /\ guard' = TRUE
    /\ flow' = [flow EXCEPT ![f] = [Idle EXCEPT !.todo = Guarded(Head(flow[f].todo))]]
    /\ UNCHANGED <<state, pending, probe, files, daemon, session, server, races, moves>>

TakeGuard(f) ==
    /\ ~Free(f) /\ Head(flow[f].todo) \in GuardedSteps
    /\ IF guard
       THEN /\ flow' = [flow EXCEPT ![f] = Idle]
            /\ Note(If(At(f, "guarded stop"), "stop refused"))
            /\ UNCHANGED guard
       ELSE /\ guard' = TRUE
            /\ flow' = [flow EXCEPT ![f] = [Idle EXCEPT
                            !.todo = Guarded(Head(flow[f].todo)),
                            !.onFail = <<"unlock">>]]
            /\ UNCHANGED races
    /\ UNCHANGED <<state, pending, probe, files, daemon, session, server, moves>>

Unlock(f) ==
    /\ At(f, "unlock")
    /\ guard' = FALSE
    /\ Goes(f, <<>>)
    /\ UNCHANGED <<state, pending, probe, files, daemon, session, server, races, moves>>

-----------------------------------------------------------------------------
(* Polling                                                                 *)

PollTimer(f) ==
    /\ Begins(f, <<"poll">>, <<>>, None)
    /\ UNCHANGED <<manager, files, daemon, session, server, races, moves>>

\* What fetchHealth returns, to pollOnce or to daemon:auto-start.
Reports(f, status) ==
    /\ state' = IF At(f, "auto start") THEN state ELSE status
    /\ IF At(f, "auto start")
       THEN Goes(f, IF status = "running" THEN <<"version">> ELSE <<"start">>)
       ELSE Goes(f, IF status = "running" /\ pending THEN <<"version">> ELSE <<>>)

\* mutated
RawStatus(health, expired) == IF expired THEN "auth_expired" ELSE health.status

NotRunning(health, expired) ==
    IF expired THEN "auth_expired"
    ELSE IF health.status = "starting" \/ state = "starting" THEN "starting"
    ELSE "stopped"

SeesItRunning(f) ==
    /\ At(f, "poll") \/ At(f, "auto start")
    /\ Asked(f) /\ flow[f].saw.status = "running"
    /\ probe' = [probe EXCEPT !.expired = FALSE, !.since = FALSE]
    /\ Reports(f, "running")
    /\ UNCHANGED <<guard, pending, files, daemon, session, server, races, moves>>

MayProbe == state = "starting" /\ ~probe.expired /\ ~probe.done /\ probe.since

\* Also when MayProbe, within AUTH_PROBE_GRACE_MS.
SeesItNotRunning(f) ==
    /\ At(f, "poll") \/ At(f, "auto start")
    /\ Asked(f) /\ flow[f].saw.status # "running"
    /\ Reports(f, NotRunning(flow[f].saw, probe.expired))
    /\ UNCHANGED <<guard, pending, probe, files, daemon, session, server, races, moves>>

\* probeTokenValidity: the token in the file, and the server's word on it if it comes.
ProbeToken(f) ==
    /\ At(f, "poll") /\ Asked(f) /\ flow[f].saw.status # "running"
    /\ MayProbe
    /\ probe' = [probe EXCEPT !.done = TRUE]
    /\ \E heard \in BOOLEAN :
        flow' = [flow EXCEPT ![f] = [Then(f, <<"verdict">>) EXCEPT
                    !.saw = flow[f].saw, !.token = config,
                    !.expired = config = None \/ (heard /\ config \in dead)]]
    /\ UNCHANGED <<state, guard, pending, files, daemon, session, server, races, moves>>

TakeVerdict(f) ==
    LET expired == probe.expired \/ flow[f].expired IN
    /\ At(f, "verdict")
    /\ probe' = [probe EXCEPT !.expired = expired]
    /\ Note(If(flow[f].expired /\ flow[f].token # config, "stale verdict"))
    /\ Reports(f, NotRunning(flow[f].saw, expired))
    /\ UNCHANGED <<guard, pending, files, daemon, session, server, moves>>

\* ensureRunningDaemonVersionMatches and decideVersionAction
CheckVersion(f) ==
    LET health == flow[f].saw
        mismatch == health.status = "running" /\ health.old
    IN
    /\ At(f, "version") /\ Asked(f)
    /\ pending' = (mismatch /\ health.busy)
    /\ Goes(f, IF mismatch /\ ~health.busy THEN Restart ELSE <<>>)
    /\ UNCHANGED <<state, guard, probe, files, daemon, session, server, races, moves>>

-----------------------------------------------------------------------------
(* Stop and start                                                          *)

Stop(f) ==
    /\ At(f, "stop")
    /\ state' = "stopping"
    /\ probe' = [probe EXCEPT !.expired = FALSE, !.since = FALSE]
    /\ Goes(f, <<"exec stop">>)
    /\ UNCHANGED <<guard, pending, files, daemon, session, server, races, moves>>

\* `multica daemon stop` asks a daemon that it can see to shut down.
ExecStop(f) ==
    /\ At(f, "exec stop")
    /\ daemon' = IF Serving THEN [daemon EXCEPT !.leaving = TRUE] ELSE daemon
    /\ Note(If(ComingUp, "not seen"))
    /\ Goes(f, <<"stop ends">>)
    /\ UNCHANGED <<manager, files, session, server, moves>>

\* It waits a few seconds and then returns, whether the daemon is gone or not.
StopEnds(f) ==
    /\ At(f, "stop ends")
    /\ state' = "stopped"
    /\ Note(If(Serving, "outlived the stop"))
    /\ Goes(f, <<>>)
    /\ UNCHANGED <<guard, pending, probe, files, daemon, session, server, moves>>

StopFails(f) ==
    /\ At(f, "exec stop") \/ At(f, "stop ends")
    /\ Move
    /\ state' = "stopped"
    /\ Note({"stop failed"})
    /\ Fails(f)
    /\ UNCHANGED <<guard, pending, probe, files, daemon, session, server>>

\* Of a daemon that is up already there is nothing to start.
FindsItUp(f) ==
    /\ At(f, "start") /\ Asked(f) /\ Alive(flow[f].saw)
    /\ Goes(f, <<>>)
    /\ UNCHANGED <<manager, files, daemon, session, server, races, moves>>

Start(f) ==
    /\ At(f, "start") /\ Asked(f) /\ ~Alive(flow[f].saw)
    /\ state' = "starting"
    /\ probe' = [since |-> TRUE, done |-> FALSE, expired |-> FALSE]
    /\ Goes(f, <<"exec start">>)
    /\ UNCHANGED <<guard, pending, files, daemon, session, server, races, moves>>

\* `multica daemon start` spawns a process, which gives up if the port is taken.
ExecStart(f) ==
    /\ At(f, "exec start") /\ ~Serving
    /\ daemon' = IF daemon.phase = "off" THEN [NoProcess EXCEPT !.phase = "spawned"] ELSE daemon
    /\ Goes(f, <<"start ends">>)
    /\ UNCHANGED <<manager, files, session, server, races, moves>>

\* "already running", or the program cannot be executed.
StartFails(f) ==
    /\ At(f, "exec start")
    /\ IF Serving THEN UNCHANGED moves ELSE Move
    /\ state' = "stopped"
    /\ Fails(f)
    /\ UNCHANGED <<guard, pending, probe, files, daemon, session, server, races>>

\* It returns without an error when the daemon is up, has exited or is too slow; the poll
\* that follows is one that the timer may make.
StartEnds(f) ==
    /\ At(f, "start ends")
    /\ Goes(f, <<>>)
    /\ UNCHANGED <<manager, files, daemon, session, server, races, moves>>

-----------------------------------------------------------------------------
(* Credentials                                                             *)

Writes(f) ==
    Note(If(\E g \in Flows \ {f} : ~Free(g) /\ Head(flow[g].todo) \in Credentials, "two writers"))

ReadConfig(f) ==
    /\ At(f, "sync")
    /\ flow' = [flow EXCEPT ![f] = [Then(f, <<"sync user">>) EXCEPT !.token = config]]
    /\ UNCHANGED <<manager, files, daemon, session, server, races, moves>>

\* mutated
ReuseAnyToken(f) ==
    /\ At(f, "sync user")
    /\ flow' = [flow EXCEPT ![f] = [Then(f, IF flow[f].token # None THEN <<"write token">>
                                           ELSE <<"mint">>) EXCEPT !.prior = sidecar]]
    /\ UNCHANGED <<manager, files, daemon, session, server, races, moves>>

\* The cached token is reused if the sidecar has the same user.
ReadSidecar(f) ==
    LET reuses == flow[f].token # None /\ sidecar = flow[f].user IN
    /\ At(f, "sync user")
    /\ flow' = [flow EXCEPT ![f] = [Then(f, IF reuses THEN <<"write token">> ELSE <<"mint">>)
                                        EXCEPT !.prior = sidecar]]
    /\ UNCHANGED <<manager, files, daemon, session, server, races, moves>>

Mint(f) ==
    /\ At(f, "mint")
    /\ Len(minted) < MaxMints
    /\ minted' = Append(minted, flow[f].user)
    /\ flow' = [flow EXCEPT ![f] = [Then(f, <<"write token">>) EXCEPT !.token = Len(minted')]]
    /\ UNCHANGED <<manager, files, daemon, session, dead, races, moves>>

MintFails(f) ==
    /\ At(f, "mint")
    /\ Move
    /\ Note({"not synced"})
    /\ Fails(f)
    /\ UNCHANGED <<manager, files, daemon, session, server>>

WriteToken(f) ==
    /\ At(f, "write token")
    /\ config' = flow[f].token
    /\ Writes(f)
    /\ Goes(f, <<"write user">>)
    /\ UNCHANGED <<manager, sidecar, daemon, session, server, moves>>

\* What was local to syncToken.
Forgets(rest) == [rest EXCEPT !.user = None, !.token = None, !.prior = None]

\* mutated
NeverChanged(f) == FALSE

UserChanged(f) == flow[f].prior \notin {None, flow[f].user}

WriteUser(f) ==
    /\ At(f, "write user")
    /\ sidecar' = flow[f].user
    /\ Writes(f)
    /\ flow' = [flow EXCEPT ![f] = Forgets(Then(f, IF UserChanged(f) THEN <<"rotate">> ELSE <<>>))]
    /\ UNCHANGED <<manager, config, daemon, session, server, moves>>

WriteFails(f) ==
    /\ At(f, "write token") \/ At(f, "write user") \/ At(f, "clear token")
    /\ Move
    /\ Note({IF At(f, "write user") THEN "half written" ELSE "not synced"})
    /\ Fails(f)
    /\ UNCHANGED <<manager, files, daemon, session, server>>

\* The restart is not awaited: it is a flow of its own.
Rotate(f) ==
    /\ At(f, "rotate") /\ Asked(f)
    /\ IF Alive(flow[f].saw)
       THEN \E g \in Flows \ {f} :
                /\ Free(g)
                /\ flow' = [flow EXCEPT ![f] = Then(f, <<>>),
                                        ![g] = [Idle EXCEPT !.todo = Restart]]
       ELSE Goes(f, <<>>)
    /\ UNCHANGED <<manager, files, daemon, session, server, races, moves>>

Clear(f) ==
    /\ At(f, "clear")
    /\ Goes(f, IF config = None THEN <<"clear user">> ELSE <<"clear token", "clear user">>)
    /\ UNCHANGED <<manager, files, daemon, session, server, races, moves>>

ClearToken(f) ==
    /\ At(f, "clear token")
    /\ config' = None
    /\ Writes(f)
    /\ Goes(f, <<>>)
    /\ UNCHANGED <<manager, sidecar, daemon, session, server, moves>>

ClearUser(f) ==
    /\ At(f, "clear user")
    /\ sidecar' = None
    /\ Writes(f)
    /\ Goes(f, <<>>)
    /\ UNCHANGED <<manager, config, daemon, session, server, moves>>

-----------------------------------------------------------------------------
(* The renderer                                                            *)

\* A login, a restored session, another account, or the same user's object replaced.
Login(f, u) ==
    /\ Move
    /\ session' = u
    /\ Begins(f, <<"sync", "auto start">>, <<>>, u)
    /\ UNCHANGED <<manager, files, daemon, server, races>>

\* mutated
LogoutStopsFirst(f) ==
    /\ session # LoggedOut
    /\ Move
    /\ session' = LoggedOut
    /\ Begins(f, <<"guarded stop", "clear">>, <<"clear">>, None)
    /\ UNCHANGED <<manager, files, daemon, server, races>>

\* Also when the app finds no session to restore. Flows that may still start a daemon, and
\* those that write credentials, go on.
Logout(f) ==
    /\ session # LoggedOut
    /\ Move
    /\ session' = LoggedOut
    /\ Begins(f, <<"clear", "guarded stop">>, <<"guarded stop">>, None)
    /\ UNCHANGED <<manager, files, daemon, server, races>>

Reauthenticate(f) ==
    /\ session \in Users /\ state = "auth_expired"
    /\ Move
    /\ Begins(f, <<"clear", "sync", "stop", "start">>, <<>>, session)
    /\ UNCHANGED <<manager, files, daemon, session, server, races>>

Click(f, op) ==
    /\ session \in Users
    /\ Move
    /\ Begins(f, <<op>>, <<>>, None)
    /\ UNCHANGED <<manager, files, daemon, session, server, races>>

\* A logout that has not stopped the daemon yet, or a rotation that has not restarted it.
Unfinished(f) == \E k \in 1 .. Len(flow[f].todo) :
    flow[f].todo[k] \in {"rotate", "guarded stop", "stop", "exec stop"}

\* The app is gone in the middle of whatever it did; the daemon and the files are not,
\* and the session is restored from the browser's storage (Login).
AppDies ==
    /\ Move
    /\ state' = "stopped" /\ guard' = FALSE /\ pending' = FALSE /\ probe' = NoProbe
    /\ flow' = [f \in Flows |-> Idle]
    /\ session' = None
    /\ Note(If(\E f \in Flows : At(f, "write user"), "half written") \cup
            If(\E f \in Flows : Unfinished(f), "cut short"))
    /\ UNCHANGED <<files, daemon, server>>

-----------------------------------------------------------------------------
(* The daemon and the server                                               *)

Others == UNCHANGED <<manager, files, flow, session, races>>

\* resolveAuth: without a token there is no daemon.
DaemonLoads ==
    /\ daemon.phase = "spawned"
    /\ daemon' = IF config = None THEN NoProcess
                 ELSE [daemon EXCEPT !.phase = "loaded", !.token = config]
    /\ UNCHANGED <<server, moves>> /\ Others

DaemonServes ==
    /\ daemon.phase = "loaded"
    /\ daemon' = [daemon EXCEPT !.phase = "starting"]
    /\ UNCHANGED <<server, moves>> /\ Others

\* preflightAuth
DaemonIsReady ==
    /\ daemon.phase = "starting" /\ ~daemon.leaving
    /\ daemon' = IF daemon.token \in dead THEN NoProcess ELSE [daemon EXCEPT !.phase = "running"]
    /\ UNCHANGED <<server, moves>> /\ Others

DaemonLeaves ==
    /\ daemon.leaving
    /\ daemon' = NoProcess
    /\ UNCHANGED <<server, moves>> /\ Others

DaemonDies ==
    /\ daemon.phase # "off"
    /\ Move
    /\ daemon' = NoProcess
    /\ UNCHANGED server /\ Others

TaskStarts ==
    /\ daemon.phase = "running" /\ ~daemon.busy /\ ~daemon.leaving
    /\ Move
    /\ daemon' = [daemon EXCEPT !.busy = TRUE]
    /\ UNCHANGED server /\ Others

TaskEnds ==
    /\ daemon.busy
    /\ daemon' = [daemon EXCEPT !.busy = FALSE]
    /\ UNCHANGED <<server, moves>> /\ Others

\* A token is revoked, or its owner is.
Revoke(t) ==
    /\ t \in 1 .. Len(minted) /\ t \notin dead
    /\ Move
    /\ dead' = dead \cup {t}
    /\ UNCHANGED <<minted, daemon>> /\ Others

-----------------------------------------------------------------------------

Polls == \E f \in Flows :
    PollTimer(f) \/ SeesItRunning(f) \/ SeesItNotRunning(f) \/ ProbeToken(f) \/ TakeVerdict(f)
Lifecycle == \E f \in Flows :
    \/ AskHealth(f) \/ TakeGuard(f) \/ Unlock(f) \/ CheckVersion(f)
    \/ Stop(f) \/ ExecStop(f) \/ StopEnds(f) \/ StopFails(f)
    \/ FindsItUp(f) \/ Start(f) \/ ExecStart(f) \/ StartFails(f) \/ StartEnds(f)
Syncs == \E f \in Flows :
    \/ ReadConfig(f) \/ ReadSidecar(f) \/ Mint(f) \/ MintFails(f)
    \/ WriteToken(f) \/ WriteUser(f) \/ WriteFails(f) \/ Rotate(f)
    \/ Clear(f) \/ ClearToken(f) \/ ClearUser(f)
Renderer ==
    \/ AppDies
    \/ \E f \in Flows : \/ \E u \in Users : Login(f, u)
                        \/ \E op \in GuardedSteps : Click(f, op)
                        \/ Logout(f) \/ Reauthenticate(f)
Outside ==
    \/ DaemonLoads \/ DaemonServes \/ DaemonIsReady \/ DaemonLeaves \/ DaemonDies
    \/ TaskStarts \/ TaskEnds
    \/ \E t \in Tokens : Revoke(t)

Next == Polls \/ Lifecycle \/ Syncs \/ Renderer \/ Outside
Spec == Init /\ [][Next]_vars

-----------------------------------------------------------------------------
(* Properties                                                              *)

\* State, credentials and flows keep their shapes, and the status shown to the user is
\* always one that the renderer knows, whatever the health check answered.
TypeOK ==
    /\ state \in States /\ guard \in BOOLEAN /\ pending \in BOOLEAN /\ probe \in Probe
    /\ config \in Tokens \cup {None} /\ sidecar \in Users \cup {None}
    /\ daemon \in Process
    /\ flow \in [Flows -> Flow]
    /\ session \in Users \cup {None, LoggedOut}
    /\ minted \in Seq(Users) /\ Len(minted) <= MaxMints /\ dead \subseteq Tokens
    /\ races \subseteq Races
    /\ moves \in 0 .. MaxMoves

AtRest == \A f \in Flows : Free(f)
Settled == AtRest /\ daemon.phase \in {"off", "starting", "running"} /\ ~daemon.leaving

\* The user in the sidecar is the owner of the token beside it, so that no user is ever
\* given the cached token of another.
CachedTokenIsTheUsers ==
    AtRest /\ races \cap {"two writers", "half written"} = {} =>
        (config # None /\ sidecar # None => minted[config] = sidecar)

\* A daemon that runs while a user is logged in works with a token of that user.
DaemonServesTheSession ==
    Settled /\ session \in Users /\ daemon.phase # "off" /\ races = {} =>
        minted[daemon.token] = session

\* Nothing works on for a user who has logged out.
LoggedOutIsOff == Settled /\ session = LoggedOut /\ races = {} => daemon.phase = "off"

\* handleDaemonLogout: a login after a logout never inherits the credentials of another
\* user, if nothing has failed and no daemon was missed or outlived its stop.
NeverInherits ==
    Settled /\ session \in Users /\ daemon.phase # "off" /\ races \subseteq {"stop refused"} =>
        minted[daemon.token] = session

Holds(f) == \E k \in 1 .. Len(flow[f].todo) : flow[f].todo[k] = "unlock"

\* The guard is taken exactly while one flow runs under it, however that flow ends.
GuardHasOneHolder ==
    /\ guard <=> \E f \in Flows : Holds(f)
    /\ \A f, g \in Flows : Holds(f) /\ Holds(g) => f = g

=============================================================================
