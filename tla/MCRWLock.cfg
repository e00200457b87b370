SPECIFICATION FairSpec
CONSTANTS
    t1 = t1
    t2 = t2
    t3 = t3
    Threads <- MCThreads
    MaxReaders = 2
    MaxSignals = 1
INVARIANTS
    TypeOK
    TokensConserved
    WriteOwned
    Exclusion
PROPERTIES
    NoReaderAdmittedPastWriter
    WriterDrains
    SomeoneProgresses
    ImplementsAbstract
\* An interrupted read_wait keeps the semaphore, and everyone waits forever.
CHECK_DEADLOCK FALSE
