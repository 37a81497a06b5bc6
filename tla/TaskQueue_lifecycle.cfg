CONSTANTS
    t1 = t1
    t2 = t2
    a1 = a1
    a2 = a2
    i1 = i1
    i2 = i2
    r1 = r1
    p1 = p1
    Tasks = {t1, t2}
    Agents = {a1, a2}
    Issues = {i1, i2}
    Runtimes = {r1}
    Pollers = {p1}
    None = None
    MCCapacity = 1
    Capacity <- CapacityOfAll
    MaxAttempts = 1
    MaxClaims = 1
    MaxExec = 1
    WithFallbacks = TRUE
SPECIFICATION Spec
INVARIANTS
    TypeOK
    WithinCapacity
    FallbackWaits
PROPERTIES
    FollowsLifecycle
CONSTRAINT Bounds
SYMMETRY Identities
CHECK_DEADLOCK FALSE
