CONSTANTS
    t1 = t1
    t2 = t2
    h1 = h1
    h2 = h2
    p1 = p1
    Tasks = {t1, t2}
    Handlers = {h1, h2}
    Pollers = {p1}
    Heads = {}
    None = None
    MaxComments = 2
    MaxAttempts = 1
    MaxClaims = 1
    AssignmentsBefore = 0
    MaxRewriting = 1
    MaxUnusual = 1
    MaxBusy = 3
SPECIFICATION Spec
INVARIANTS
    TypeOK
PROPERTIES
    NoSilentLoss
CONSTRAINT Bounds
SYMMETRY Identities
CHECK_DEADLOCK FALSE
