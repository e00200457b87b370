SPECIFICATION Spec
CONSTANTS
    BufSize = 2
    MaxHeader = 3
    MaxWritten = 12
INVARIANTS
    HeaderNotInChunks
CHECK_DEADLOCK FALSE
