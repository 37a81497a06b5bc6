\* A dispatch that dies between its task and the link to it.
SPECIFICATION Spec
CONSTANTS
    Runners = {r1, r2}
    Plans = {1}
    Occurrences = {1}
    Planners = {"autopilot"}
    Reentry = {TRUE}
    Start = 1
    MaxTime = 6
    MaxOtherTime = 4
    MayFail = {1}
    MaxBootstraps = 1
    Cadence = 2
    ScheduleDelay = 0
    CatchUpWindow = 2
    MaxPlansPerTick = 2
    Lateness = 1
    RunTimeout = 1
    StaleTimeout = 2
    RetryDelay = 1
    MaxAttempts = 2
CONSTRAINT Bounds
SYMMETRY Servers
INVARIANTS
    OneTaskPerOccurrence
CHECK_DEADLOCK FALSE
