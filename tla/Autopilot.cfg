\* Two servers, three planners, one occurrence of an autopilot, two attempts.
SPECIFICATION Spec
CONSTANTS
    Runners = {r1, r2}
    Plans = {0, 1, 2}
    Occurrences = {1}
    Planners = {"autopilot", "latest_only", "every_plan"}
    Reentry = {TRUE}
    Start = 1
    MaxTime = 5
    MaxOtherTime = 4
    MayFail = {1}
    MaxBootstraps = 1
    Cadence = 2
    ScheduleDelay = 0
    CatchUpWindow = 2
    MaxPlansPerTick = 2
    Lateness = 1
    RunTimeout = 1
    StaleTimeout = 2
    RetryDelay = 1
    MaxAttempts = 2
CONSTRAINT Bounds
SYMMETRY Servers
INVARIANTS
    TypeOK
    PromptHandlerIsAlone
    VerdictIsNewestAttempts
    SuccessIsAccounted
    OneIssuePerOccurrence
PROPERTIES
    AttemptsMoveOn
    NoPlanLeftOut
CHECK_DEADLOCK FALSE
