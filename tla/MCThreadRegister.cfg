SPECIFICATION FairRegSpec
CONSTANTS
    t1 = t1
    t2 = t2
    t3 = t3
    Threads <- MCThreads
    MaxTries = 2
    NoOne = NoOne
INVARIANTS
    RegTypeOK
    RegisterExclusion
    CountAgrees
    OrderlyFreeIsSafe
PROPERTIES
    FreeEnds
\* The program stops after the register is freed, in the deadlock, or in a
\* use of the freed register.
CHECK_DEADLOCK FALSE
