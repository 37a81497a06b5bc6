\* Two tasks of a retry chain, two workers that crash, leases taken over.
SPECIFICATION FairSpec
CONSTANTS
    Tasks = {t1, t2}
    Workers = {w1, w2}
    None = None
    MaxAttempts = 2
    MaxDeliveries = 3
INVARIANTS
    TypeOK
    OneDeliveryAtATime
    VerdictIsNewest
    OneOutcomePerChain
PROPERTIES
    SettledForGood
    ResultSettles
CHECK_DEADLOCK FALSE
