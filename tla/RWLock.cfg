SPECIFICATION FairSpec
CONSTANTS
    Threads = {t1, t2, t3, t4}
    NoThread = NoThread
    MaxDepth = 2
    Timeouts = TRUE
INVARIANTS
    QueueIsBlockedWriters
    WritersSleepForAReason
PROPERTIES
    ImplementsLock
    OnlyTimeoutsLoseWakeups
    WriterGranted
