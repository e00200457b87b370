SPECIFICATION ThreadSpec
CONSTANTS
    Alphabet <- MCAlphabet
    Requests <- MCRequests
    LineBuf = 20
    MinForm = 4
    MaxForm = 8
    BufSize = 2
    MaxHeader = 3
    MaxWritten = 12
    Pages <- MCPages
    LuaBuf = 4
INVARIANTS
    HeadersComplete
CHECK_DEADLOCK FALSE
