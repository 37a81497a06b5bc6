CONSTANTS
    t1 = t1
    t2 = t2
    a1 = a1
    i1 = i1
    r1 = r1
    p1 = p1
    p2 = p2
    Tasks = {t1, t2}
    Agents = {a1}
    Issues = {i1}
    Runtimes = {r1}
    Pollers = {p1, p2}
    None = None
    MCCapacity = 2
    Capacity <- CapacityOfAll
    MaxAttempts = 2
    MaxClaims = 2
    MaxExec = 2
    WithFallbacks = FALSE
SPECIFICATION Spec
INVARIANTS
    OneActivePerPair
    WorkingNeverReissued
    OneExecutionPastStart
    RetryChains
PROPERTIES
    RollbackOwnClaimOnly
    TerminalIsFinal
CONSTRAINT Bounds
SYMMETRY Identities
CHECK_DEADLOCK FALSE
