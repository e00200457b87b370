SPECIFICATION Spec
CONSTANTS
    t1 = t1
    t2 = t2
    Threads <- OneThread
    MaxTries = 1
    NoOne = NoOne
    MaxFd = 4
    MaxSignals = 1
INVARIANTS
    NoThreadAfterFree
\* The process ends.
CHECK_DEADLOCK FALSE
