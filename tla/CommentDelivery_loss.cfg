CONSTANTS
    t1 = t1
    t2 = t2
    h1 = h1
    h2 = h2
    p1 = p1
    p2 = p2
    Tasks = {t1, t2}
    Handlers = {h1, h2}
    Pollers = {p1, p2}
    s1 = s1
    Heads = {s1}
    None = None
    MaxComments = 2
    MaxAttempts = 2
    MaxClaims = 2
    AssignmentsBefore = 1
    MaxRewriting = 0
    MaxUnusual = 1
    MaxBusy = 2
SPECIFICATION Spec
PROPERTIES
    NoSilentLoss
    ReceiptSettledAtStart
CONSTRAINT Bounds
SYMMETRY Identities
CHECK_DEADLOCK FALSE
