\* Enqueues against slow polls; Redis calls fail, keys expire, Redis restarts.
SPECIFICATION FairSpec
CONSTANTS
    Tasks = {t1}
    Pollers = {p1, p2}
    NoVerdict = NoVerdict
    MaxVersion = 4
INVARIANTS
    TypeOK
    NoStalledTask
PROPERTIES
    QueuedIsTaken
