-------------------------- MODULE WebThreadProofs --------------------------
(***************************************************************************)
(* A web thread keeps what was proved of its replies, whatever request it  *)
(* read and however its page was loaded, what was proved of reading a      *)
(* request, whatever it answers, and what was proved of reading a page,    *)
(* whatever it is needed for.                                              *)
(***************************************************************************)
EXTENDS WebThread, HeaderProofs, ReplyProofs, LuaspReaderProofs

\* Reading a request and reading a page leave the reply alone.
LEMMA ThreadKeepsReply ==
    ASSUME ReplyInv, [ThreadNext]_threadVars
    PROVE  ReplyInv'
  <1>1. ASSUME UNCHANGED vars PROVE ReplyInv'
    BY <1>1, ReplyInvStutter DEF vars, replyVars, ReplyInv, TypeOK
  <1>2. ASSUME Next PROVE ReplyInv'
    BY <1>2, ReplyInvStep
  <1>3. ASSUME Read PROVE ReplyInv'
    BY <1>1, <1>3 DEF Read
  <1>4. ASSUME RequestRead PROVE ReplyInv'
    <2>1. http_1_1' \in BOOLEAN
      BY <1>4, Zenon DEF RequestRead
    <2> QED
      BY <1>4, <2>1, ReplyInvStutter DEF RequestRead
  <1>5. ASSUME Answer PROVE ReplyInv'
    BY <1>2, <1>5 DEF Answer, Next, FirstStep
  <1>6. ASSUME Send PROVE ReplyInv'
    BY <1>2, <1>6 DEF Send, Next
  <1>7. ASSUME Load PROVE ReplyInv'
    BY <1>1, <1>2, <1>7 DEF Load, OpenForReader, NoState, ReaderRuns, Loaded, Next, LoadStep
  <1>8. ASSUME UNCHANGED threadVars PROVE ReplyInv'
    BY <1>1, <1>8 DEF threadVars
  <1> QED
    BY <1>3, <1>4, <1>5, <1>6, <1>7, <1>8 DEF ThreadNext

LEMMA ThreadReplies == ThreadSpec => []ReplyInv
  <1>1. ThreadInit => ReplyInv
    BY ReplyInvInit DEF ThreadInit
  <1> QED
    BY <1>1, ThreadKeepsReply, PTL DEF ThreadSpec

\* StreamInOrder: what a thread sends has every byte once and in order.
THEOREM ThreadSendsInOrder == ThreadSpec => []StreamInOrder
  BY ThreadReplies, OrderFromInv, PTL

\* WellFramed: the reply of a thread is what its header announces.
THEOREM ThreadRepliesFramed == ThreadSpec => []WellFramed
  BY ThreadReplies, FramedFromInv, PTL

\* OneHeaderFirst: a thread sends one header, and before anything else.
THEOREM ThreadSendsOneHeader == ThreadSpec => []OneHeaderFirst
  BY ThreadReplies, HeaderFromInv, PTL

\* FileClosed: a thread closes its file, but without a Lua state.
THEOREM ThreadClosesFile == ThreadSpec => []FileClosed
  BY ThreadReplies, ClosedFromInv, PTL

-----------------------------------------------------------------------------
\* Answering a request and reading a page leave the request alone.
LEMMA ThreadKeepsRequest ==
    ASSUME ReadInv, [ThreadNext]_threadVars
    PROVE  ReadInv'
  <1>1. Typed /\ Placed /\ BuffersFit /\ Failed
    BY DEF ReadInv
  <1>2. ASSUME UNCHANGED <<input, fault, err, rest, pos, searched, bufbytes, buflen, bodyApart, post>>,
               rpc' = rpc \/ (rpc = "read" /\ rpc' = "done")
        PROVE  ReadInv'
    <2>1. Typed'
      BY <1>1, <1>2 DEF Typed
    <2>2. Placed'
      BY <1>1, <1>2 DEF Placed, EarlyPCs, FieldPCs
    <2>3. BuffersFit'
      BY <1>1, <1>2 DEF BuffersFit
    <2>4. Failed'
      BY <1>1, <1>2 DEF Failed, LatePCs
    <2> QED
      BY <2>1, <2>2, <2>3, <2>4 DEF ReadInv
  <1>3. ASSUME UNCHANGED reqVars PROVE ReadInv'
    BY <1>2, <1>3 DEF reqVars, connVars, formVars, fieldVars, lineVars
  <1>4. ASSUME RequestRead PROVE ReadInv'
    BY <1>2, <1>4 DEF RequestRead, connVars, formVars, fieldVars, lineVars
  <1>5. ASSUME Answer PROVE ReadInv'
    <2>1. /\ rpc' = "answered" /\ input' = <<>> /\ fault' = "none" /\ rest' = <<>>
          /\ pos' = 0 /\ searched' = 0 /\ bufbytes' = 0 /\ buflen' = 0
      BY <1>5 DEF Answer, Drop
    <2>2. ~post' /\ post' \in BOOLEAN /\ bodyApart' \in BOOLEAN
      BY <1>5, Zenon DEF Answer, Drop
    <2>3. <<>> \in Seq(Alphabet) /\ Len(<<>>) = 0
      BY EmptySeq
    <2>4. Typed'
      BY <2>1, <2>2, <2>3 DEF Typed
    <2>5. Placed'
      BY <2>1 DEF Placed, EarlyPCs, FieldPCs
    <2>6. BuffersFit'
      <3>1. /\ LineBuf <= Max({LineBuf, MaxForm + MinForm - 1})
            /\ Max({LineBuf, MaxForm + MinForm - 1}) \in Int
        <4>1. LineBuf \in Int /\ MaxForm + MinForm - 1 \in Int
          BY Parameters
        <4> QED
          BY <4>1, MaxOfTwo
      <3> QED
        BY <2>1, <2>2, <2>3, <3>1, Parameters DEF BuffersFit
    <2>7. Failed'
      BY <2>1 DEF Failed
    <2> QED
      BY <2>4, <2>5, <2>6, <2>7 DEF ReadInv
  <1>6. ASSUME Read PROVE ReadInv'
    BY <1>6, ReadKeeps DEF Read
  <1>7. ASSUME Send \/ Load PROVE ReadInv'
    BY <1>3, <1>7 DEF Send, Load, OpenForReader, NoState, ReaderRuns, Loaded
  <1>8. ASSUME UNCHANGED threadVars PROVE ReadInv'
    BY <1>3, <1>8 DEF threadVars
  <1> QED
    BY <1>4, <1>5, <1>6, <1>7, <1>8 DEF ThreadNext

LEMMA ThreadReads == ThreadSpec => []ReadInv
  <1>1. ThreadInit => ReadInv
    BY ReadInvInit DEF ThreadInit
  <1> QED
    BY <1>1, ThreadKeepsRequest, PTL DEF ThreadSpec

\* BuffersFit: whatever a client sends and however it arrives, the text is
\* shorter than its buffer: that of the stack, or that of a form, which grows
\* up to its limit.
THEOREM TextFitsBuffers == ThreadSpec => []BuffersFit
  BY ThreadReads, PTL DEF ReadInv

\* FaultNotOkay: a failure is answered as an error, not taken for a request,
\* wherever it does not count as bytes.
THEOREM FailureIsNoRequest == ThreadSpec => []FaultNotOkay
  BY ThreadReads, FaultsFromInv, PTL

-----------------------------------------------------------------------------
\* A page is opened, read and dropped; nothing else disturbs its reader.
LEMMA ThreadKeepsReader ==
    ASSUME ReaderInv, ReplyInv, [ThreadNext]_threadVars
    PROVE  ReaderInv'
  <1>1. ASSUME UNCHANGED readerVars PROVE ReaderInv'
    BY <1>1, ReaderRests
  <1>2. ASSUME Read \/ RequestRead \/ Answer \/ Send PROVE ReaderInv'
    BY <1>1, <1>2 DEF Read, RequestRead, Answer, Send
  <1>3. ASSUME OpenForReader PROVE ReaderInv'
    <2>1. fp' \in BOOLEAN
      BY <1>3 DEF OpenForReader, OpenPage
    <2>2. ReaderOpen(fp')
      BY <1>3 DEF OpenForReader
    <2> QED
      BY <2>1, <2>2, ReaderStarts
  <1>4. ASSUME NoState \/ Loaded PROVE ReaderInv'
    BY <1>4, ReaderEnds DEF NoState, Loaded
  <1>5. ASSUME ReaderRuns PROVE ReaderInv'
    BY <1>5, ReaderKeeps DEF ReaderRuns
  <1>6. ASSUME UNCHANGED threadVars PROVE ReaderInv'
    BY <1>1, <1>6 DEF threadVars
  <1> QED
    BY <1>2, <1>3, <1>4, <1>5, <1>6 DEF ThreadNext, Load

LEMMA ThreadReader == ThreadSpec => []ReaderInv
  <1>1. ThreadInit => ReaderInv
    BY IdleWell DEF ThreadInit
  <1> QED
    BY <1>1, ThreadKeepsReader, ThreadReplies, PTL DEF ThreadSpec

\* EchoesEnd: in the chunk of every page each echo is ended before the next
\* one begins, and at the end, unless the page ends with a '<' behind text
\* or in a tag.
THEOREM PageEchoesEnd == ThreadSpec => []EchoesEnd
  BY ThreadReader, EchoesFromInv, PTL

\* PageInOrder: the chunk has the bytes of the page in their order, and lacks
\* those of tags and comments and white space behind a tag only.
THEOREM PageBytesInOrder == ThreadSpec => []PageInOrder
  BY ThreadReader, OrderOfPageFromInv, PTL

\* TextIsQuoted: no text of a page is code of its chunk.
THEOREM PageTextIsQuoted == ThreadSpec => []TextIsQuoted
  BY ThreadReader, QuotesFromInv, PTL

-----------------------------------------------------------------------------
\* Answering drops the request; nothing else but the reading changes it.
LEMMA DroppedTypes ==
    ASSUME sent \in Requests, Drop, rpc' = "answered"
    PROVE  Coming' /\ Flags' /\ RequestControl' /\ Counts'
  <1>1. Coming'
    <2>1. sent' \in Requests /\ input' = <<>>
      <3>1. (CHOOSE r \in Requests : TRUE) \in Requests
        OBVIOUS
      <3> QED
        BY <3>1 DEF Drop
    <2>2. Encoded(sent') \in Seq(Alphabet)
      BY <2>1, EncodedIs
    <2> DEFINE e == Encoded(sent')
               none == <<>>
    <2>3. /\ e \in Seq(Alphabet) /\ none \in Seq(Alphabet) /\ Len(none) <= Len(e)
          /\ \A i \in 1..Len(none) : FALSE
      BY <2>2, EmptySeq, LenProperties
    <2> HIDE DEF e, none
    <2>4. IsSuffix(none, e)
      BY <2>3, SuffixIs
    <2> QED
      BY <2>1, <2>4 DEF Coming, e, none
  <1>2. Flags'
    BY Zenon DEF Drop, Flags
  <1>3. RequestControl'
    BY DEF Drop, RequestControl, RPCs, Errors
  <1>4. Counts'
    BY EmptySeq DEF Drop, Counts
  <1> QED
    BY <1>1, <1>2, <1>3, <1>4

LEMMA ThreadKeepsTypes ==
    ASSUME RequestTypes, [ThreadNext]_threadVars
    PROVE  RequestTypes'
  <1>1. ReadInv'
    BY ThreadKeepsRequest DEF RequestTypes
  <1>2. ASSUME UNCHANGED <<connVars, err, formVars, lineVars>>, rpc' \in RPCs
        PROVE  RequestTypes'
    <2>1. UNCHANGED <<sent, input, closed, fault, err, EoD, post, te_chunked, crApart, headerCut,
                      bodyApart, version, method, content_length, bytes_read, lines>>
      BY <1>2 DEF connVars, formVars, fieldVars, lineVars
    <2>2. Flags'
      BY <2>1, Zenon DEF RequestTypes, Flags
    <2>3. Coming' /\ RequestControl' /\ Counts'
      BY <1>2, <2>1 DEF RequestTypes, Coming, RequestControl, Counts
    <2> QED
      BY <1>1, <2>2, <2>3 DEF RequestTypes
  <1>3. ASSUME UNCHANGED reqVars PROVE RequestTypes'
    BY <1>2, <1>3 DEF reqVars, RequestTypes, RequestControl
  <1>4. ASSUME RequestRead PROVE RequestTypes'
    BY <1>2, <1>4 DEF RequestRead, RPCs
  <1>5. ASSUME Answer PROVE RequestTypes'
    <2>1. Drop /\ rpc' = "answered" /\ sent \in Requests
      BY <1>5 DEF Answer, RequestTypes, Coming
    <2> QED
      BY <1>1, <2>1, DroppedTypes DEF RequestTypes
  <1>6. ASSUME Read PROVE RequestTypes'
    BY <1>6, RequestTypesKept DEF Read
  <1>7. ASSUME Send \/ Load PROVE RequestTypes'
    BY <1>3, <1>7 DEF Send, Load, OpenForReader, NoState, ReaderRuns, Loaded
  <1>8. ASSUME UNCHANGED threadVars PROVE RequestTypes'
    BY <1>3, <1>8 DEF threadVars
  <1> QED
    BY <1>4, <1>5, <1>6, <1>7, <1>8 DEF ThreadNext

LEMMA ThreadTyped == ThreadSpec => []RequestTypes
  <1>1. ThreadInit => RequestTypes
    BY RequestTypesStart DEF ThreadInit
  <1> QED
    BY <1>1, ThreadKeepsTypes, PTL DEF ThreadSpec

\* ThreadTypeOK: the types of all that a web thread keeps, for every set of
\* requests and pages and every size of the buffers.
THEOREM ThreadTypeCorrect == ThreadSpec => []ThreadTypeOK
  <1>1. ReplyInv => TypeOK
    BY DEF ReplyInv
  <1>2. ReaderInv => ReaderTypeOK
    BY DEF ReaderInv, ReaderTyped
  <1>3. RequestTypes /\ ReplyInv /\ ReaderInv => ThreadTypeOK
    BY <1>1, <1>2, RequestTypesFromInv DEF ThreadTypeOK
  <1> QED
    BY <1>3, ThreadTyped, ThreadReplies, ThreadReader, PTL

-----------------------------------------------------------------------------
\* The header lines of a request are read, used to answer it, and dropped.
LEMMA ThreadKeepsHeader ==
    ASSUME RequestTypes, HeaderInv, [ThreadNext]_threadVars
    PROVE  HeaderInv'
  <1>1. ASSUME UNCHANGED <<connVars, formVars, lineVars>>, rpc' = rpc \/ rpc' \notin HeaderPCs
        PROVE  HeaderInv'
    BY <1>1, HeaderRests DEF connVars, formVars, fieldVars, lineVars
  <1>2. ASSUME UNCHANGED reqVars PROVE HeaderInv'
    BY <1>1, <1>2 DEF reqVars
  <1>3. ASSUME RequestRead PROVE HeaderInv'
    BY <1>1, <1>3 DEF RequestRead, HeaderPCs
  <1>4. ASSUME Answer PROVE HeaderInv'
    <2>1. sent \in Requests
      BY DEF RequestTypes, Coming
    <2>2. (CHOOSE r \in Requests : TRUE) \in Requests
      BY <2>1
    <2>3. sent' \in Requests /\ lines' = <<>> /\ cookie_info' = <<>> /\ rpc' \notin HeaderPCs
      BY <1>4, <2>2 DEF Answer, Drop, HeaderPCs
    <2> QED
      BY <2>3, HeaderDropped
  <1>5. ASSUME Read PROVE HeaderInv'
    BY <1>5, HeaderKeeps DEF Read
  <1>6. ASSUME Send \/ Load PROVE HeaderInv'
    BY <1>2, <1>6 DEF Send, Load, OpenForReader, NoState, ReaderRuns, Loaded
  <1>7. ASSUME UNCHANGED threadVars PROVE HeaderInv'
    BY <1>2, <1>7 DEF threadVars
  <1> QED
    BY <1>3, <1>4, <1>5, <1>6, <1>7 DEF ThreadNext

\* HeadersIntact: of every request that is readable, however it is cut into
\* segments, the header lines that were read are the first of those that were
\* sent, each with its key and value, and all its cookies are read with their
\* line; but not when a CR and its LF come in different segments.
THEOREM ThreadHeadersIntact == ThreadSpec => []HeadersIntact
  <1>1. ThreadInit => HeaderInv
    BY HeaderStart DEF ThreadInit
  <1>2. RequestTypes /\ HeaderInv => HeadersIntact
    BY HeadersFromInv DEF RequestTypes, Coming
  <1> QED
    BY <1>1, <1>2, ThreadKeepsHeader, ThreadTyped, PTL DEF ThreadSpec

-----------------------------------------------------------------------------
\* Nothing but the reading changes what is left of the body.
LEMMA ThreadKeepsBody ==
    ASSUME RequestTypes, HeaderInv, BodyInv, [ThreadNext]_threadVars
    PROVE  BodyInv'
  <1>1. sent \in Requests
    BY DEF RequestTypes, Coming
  <1>2. ASSUME UNCHANGED <<connVars, err, formVars, lineVars>>, rpc' = rpc \/ (rpc = "read" /\ rpc' = "done")
        PROVE  BodyInv'
    BY <1>1, <1>2, BodyRests DEF connVars, formVars, fieldVars, lineVars
  <1>3. ASSUME UNCHANGED reqVars PROVE BodyInv'
    BY <1>2, <1>3 DEF reqVars
  <1>4. ASSUME RequestRead PROVE BodyInv'
    BY <1>2, <1>4 DEF RequestRead
  <1>5. ASSUME Answer PROVE BodyInv'
    <2>1. ~post' /\ rpc' = "answered"
      BY <1>5, Zenon DEF Answer, Drop
    <2> QED
      BY <2>1, BodyDropped
  <1>6. ASSUME Read PROVE BodyInv'
    BY <1>6, BodyKeeps DEF Read
  <1>7. ASSUME Send \/ Load PROVE BodyInv'
    BY <1>3, <1>7 DEF Send, Load, OpenForReader, NoState, ReaderRuns, Loaded
  <1>8. ASSUME UNCHANGED threadVars PROVE BodyInv'
    BY <1>3, <1>8 DEF threadVars
  <1> QED
    BY <1>4, <1>5, <1>6, <1>7, <1>8 DEF ThreadNext

\* DrainedBeforeReply: when a readable POST is answered with an error, the
\* whole of its body was received or could not be, however it was cut into
\* segments and wherever the error was found; but for a client that sends
\* more than the length it announced, as nothing behind that is read.
THEOREM ThreadDrains ==
    ThreadSpec => [](Readable(sent) /\ content_length >= Len(Joined(sent.form, <<AMP>>))
                       => DrainedBeforeReply)
  <1>1. ThreadInit => HeaderInv /\ BodyInv
    BY HeaderStart, BodyStart DEF ThreadInit
  <1>2. RequestTypes /\ HeaderInv /\ BodyInv /\ [ThreadNext]_threadVars => HeaderInv' /\ BodyInv'
    BY ThreadKeepsHeader, ThreadKeepsBody
  <1>3. RequestTypes /\ BodyInv => (Readable(sent) /\ content_length >= Len(Joined(sent.form, <<AMP>>))
                                      => DrainedBeforeReply)
    BY DrainedFromInv
  <1> QED
    BY <1>1, <1>2, <1>3, ThreadTyped, PTL DEF ThreadSpec

-----------------------------------------------------------------------------
\* Only the reading of a request uses memory that is not there.
LEMMA ThreadKeepsBroken ==
    ASSUME RequestTypes, HeaderInv, BodyInv, BrokenKnown, [ThreadNext]_threadVars
    PROVE  BrokenKnown'
  <1>1. ASSUME rpc' # "broken" PROVE BrokenKnown'
    BY <1>1 DEF BrokenKnown
  <1>2. ASSUME UNCHANGED reqVars PROVE BrokenKnown'
    <2>1. Readable(sent)' <=> Readable(sent)
      BY <1>2, SentStays DEF reqVars, connVars
    <2>2. UNCHANGED <<rpc, err, bodyApart>>
      BY <1>2 DEF reqVars, formVars
    <2> QED
      BY <2>1, <2>2, Zenon DEF BrokenKnown
  <1>3. ASSUME RequestRead \/ Answer PROVE BrokenKnown'
    BY <1>1, <1>3 DEF RequestRead, Answer
  <1>4. ASSUME Read PROVE BrokenKnown'
    BY <1>4, BrokenKeeps DEF Read
  <1>5. ASSUME Send \/ Load PROVE BrokenKnown'
    BY <1>2, <1>5 DEF Send, Load, OpenForReader, NoState, ReaderRuns, Loaded
  <1>6. ASSUME UNCHANGED threadVars PROVE BrokenKnown'
    BY <1>2, <1>6 DEF threadVars
  <1> QED
    BY <1>3, <1>4, <1>5, <1>6 DEF ThreadNext

\* BrokenOnlyAsKnown: however any request is cut into segments, memory that is
\* not there is used in three cases only: the request without memory, the form
\* that came apart from its header, and the text behind what was received,
\* which is never read for a request line that has the form it should have.
THEOREM BrokenInKnownCases == ThreadSpec => []BrokenOnlyAsKnown
  <1>1. ThreadInit => HeaderInv /\ BodyInv /\ BrokenKnown
    BY HeaderStart, BodyStart DEF ThreadInit, RequestInit, BrokenKnown
  <1>2. RequestTypes /\ HeaderInv /\ BodyInv /\ BrokenKnown /\ [ThreadNext]_threadVars
          => HeaderInv' /\ BodyInv' /\ BrokenKnown'
    BY ThreadKeepsHeader, ThreadKeepsBody, ThreadKeepsBroken
  <1> QED
    BY <1>1, <1>2, BrokenFromInv, ThreadTyped, ThreadReads, PTL DEF ThreadSpec

-----------------------------------------------------------------------------
\* The URL of a request is read, used to answer it, and dropped.
LEMMA ThreadKeepsUrl ==
    ASSUME RequestTypes, UrlInv, [ThreadNext]_threadVars
    PROVE  UrlInv'
  <1>1. ASSUME UNCHANGED <<connVars, err, formVars, lineVars>>, rpc' = rpc \/ (rpc = "read" /\ rpc' = "done")
        PROVE  UrlInv'
    BY <1>1, UrlRests DEF connVars, formVars, fieldVars, lineVars
  <1>2. ASSUME UNCHANGED reqVars PROVE UrlInv'
    BY <1>1, <1>2 DEF reqVars
  <1>3. ASSUME RequestRead PROVE UrlInv'
    BY <1>1, <1>3 DEF RequestRead
  <1>4. ASSUME Answer PROVE UrlInv'
    BY <1>4, UrlDropped DEF Answer
  <1>5. ASSUME Read PROVE UrlInv'
    BY <1>5, UrlKeeps DEF Read
  <1>6. ASSUME Send \/ Load PROVE UrlInv'
    BY <1>2, <1>6 DEF Send, Load, OpenForReader, NoState, ReaderRuns, Loaded
  <1>7. ASSUME UNCHANGED threadVars PROVE UrlInv'
    BY <1>2, <1>7 DEF threadVars
  <1> QED
    BY <1>3, <1>4, <1>5, <1>6, <1>7 DEF ThreadNext

\* UrlVarsIntact: the variables of every URL that has the form it should have
\* are read as they were sent, however the request is cut into segments and
\* whatever the buffer held before: what is read behind the end of the URL
\* gives a value to the last one at most, and more variables only when the
\* path is longer than the version and its line end.
THEOREM ThreadUrlVarsIntact == ThreadSpec => [](Readable(sent) /\ UrlReadable(sent) => UrlVarsIntact)
  <1>1. ThreadInit => UrlInv
    BY UrlStarts DEF ThreadInit
  <1>2. UrlInv => (Readable(sent) /\ UrlReadable(sent) => UrlVarsIntact)
    BY UrlVarsFromInv
  <1> QED
    BY <1>1, <1>2, ThreadKeepsUrl, ThreadTyped, PTL DEF ThreadSpec
=============================================================================
