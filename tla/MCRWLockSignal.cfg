SPECIFICATION Spec
CONSTANTS
    t1 = t1
    t2 = t2
    t3 = t3
    Threads <- MCThreads
    MaxReaders = 2
    MaxSignals = 1
INVARIANT
    WriteWaitWaitsForReaders
CHECK_DEADLOCK FALSE
