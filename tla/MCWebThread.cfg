SPECIFICATION ThreadSpec
CONSTANTS
    Alphabet <- MCAlphabet
    Requests <- MCRequests
    LineBuf = 20
    MinForm = 4
    MaxForm = 8
    BufSize = 2
    MaxHeader = 3
    MaxWritten = 12
    Pages <- MCPages
    LuaBuf = 4
INVARIANTS
    ThreadTypeOK
    StreamInOrder
    WellFramed
    OneHeaderFirst
    FileClosed
    HeadersIntact
    UrlVarsIntact
    VarsIntact
    DrainedBeforeReply
    BrokenOnlyAsKnown
    FaultNotOkay
    EchoesEnd
    PageInOrder
    TextIsQuoted
PROPERTIES
    ReadingEnds
    PageLoads
\* The thread ends.
CHECK_DEADLOCK FALSE
