CONSTANTS
    t1 = t1
    a1 = a1
    i1 = i1
    r1 = r1
    p1 = p1
    Tasks = {t1}
    Agents = {a1}
    Issues = {i1}
    Runtimes = {r1}
    Pollers = {p1}
    None = None
    MCCapacity = 1
    Capacity <- CapacityOfAll
    MaxAttempts = 1
    MaxClaims = 2
    MaxExec = 2
    WithFallbacks = FALSE
SPECIFICATION FairSpec
PROPERTIES
    DispatchedMovesOn
    OrphansNeedADaemon
CONSTRAINT Bounds
CHECK_DEADLOCK FALSE
