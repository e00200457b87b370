SPECIFICATION FairSpec
CONSTANTS
    t1 = t1
    t2 = t2
    Threads <- OneThread
    MaxTries = 1
    NoOne = NoOne
    MaxFd = 4
    MaxSignals = 2
PROPERTIES
    SignalEndsServer
\* The process ends, in an exit, in the deadlock of the shutdown or in a use
\* of the freed register.
CHECK_DEADLOCK FALSE
