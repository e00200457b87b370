SPECIFICATION Spec
CONSTANTS
    t1 = t1
    t2 = t2
    n1 = n1
    n2 = n2
    Threads <- MCThreads
    Nodes <- MCNodes
    Nil = Nil
    MaxReaders = 2
    Ttl = 0
    Grace = 1
    MaxCounter = 1
    MaxClock = 2
SYMMETRY Symmetry
INVARIANTS
    CleanupFreesDeleted
\* The program ends in the freed register, in a use of freed memory, or in
\* the deadlock of the clean-up with websession_free.
CHECK_DEADLOCK FALSE
