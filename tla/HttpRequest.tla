---------------------------- MODULE HttpRequest -----------------------------
(***************************************************************************)
(* http_request_read of src/http_request.c, and what webthread does when   *)
(* it fails: the request line, the header lines, what the header says of   *)
(* the body of a POST, its form (PostForm), and the rest of the body.      *)
(*                                                                         *)
(* The text behind the cursor pbuf is `rest'.  The name and the type of    *)
(* the file are not looked into, and nothing is url-encoded.               *)
(***************************************************************************)
EXTENDS PostForm

CONSTANT LineBuf      \* sizeof send_buffer, which is the receive buffer too

\* Three bytes and the number of a failure fit into it, with a 0 byte.
ASSUME RequestAssumption == LineBuf \in Nat /\ LineBuf > 6

VARIABLES
    method, version,   \* of req_info
    get_vars,          \* ... the variables in the URL
    lines,             \* header_info
    cookie_info,
    post, te_chunked,  \* post_info is there; REQ_POST_FLAG_TE_CHUNKED
    \* History, read by the properties only:
    crApart,           \* a CR and its LF came in different segments
    headerCut          \* the header was left before its empty line

lineVars == <<method, version, get_vars, lines, cookie_info, post, te_chunked, crApart, headerCut>>
reqVars == <<connVars, rpc, err, formVars, lineVars>>

buflen0 == LineBuf - 1
SLASH == "/"
Methods == { <<"G","E","T">>, <<"P","O","S","T">>, <<"H","E","A","D">>, <<"P","U","T">> }
Unknown == <<"?">>

\* strstr: the first place from `from' on where a CR and LF are, and no 0 byte
\* is in front of them, or 0.
CrLfAt(s, from) ==
    LET P == {p \in from..(Len(s) - 1) :
                s[p] = CR /\ s[p + 1] = LF /\ \A k \in from..p : s[k] # Nul}
    IN  IF P = {} THEN 0 ELSE Min(P)

LinesInit ==
    /\ err = "okay"
    /\ method = Unknown /\ version = "1.0"
    /\ get_vars = <<>> /\ lines = <<>> /\ cookie_info = <<>>
    /\ post = FALSE /\ te_chunked = FALSE
    /\ crApart = FALSE /\ headerCut = FALSE

RequestInit == ConnInit /\ FormInit /\ LinesInit /\ rpc = "alloc"

-----------------------------------------------------------------------------
(***************************************************************************)
(* The first bytes and the request line                                    *)
(***************************************************************************)
AllocRequest ==
    /\ rpc = "alloc"
    /\ \/ Goes("first")
       \/ err' = NoMemory /\ rpc' = "no_request"
    /\ UNCHANGED <<connVars, formVars, lineVars>>

FirstRecv ==
    /\ rpc = "first"
    /\ \/ \E k \in DOMAIN input :
            /\ Arrive(buflen0, k)
            /\ rest' = Segment(k)
            /\ Goes(IF k < 4 THEN "more" ELSE "line")
       \/ Nothing /\ ReadEnd("malformed") /\ UNCHANGED rest
       \/ RecvFails("socket", "first") /\ ReadEnd("socket_err") /\ UNCHANGED rest
    /\ UNCHANGED <<content_length, bytes_read, buflen, bufbytes, pos, searched, EoD, post_vars, bodyApart, lineVars>>

\* What the buffer held before: any bytes, up to a 0.
Garbage == BoundedSeq({"x", SP, LF}, 3)

\* Once more for fewer than 4 bytes; a failure counts as bytes.
MoreRecv ==
    /\ rpc = "more"
    /\ \/ \E k \in DOMAIN input :
            /\ Arrive(buflen0 - Len(rest), k)
            /\ rest' = rest \o Segment(k)
            /\ IF Len(rest) + k < 4 THEN ReadEnd("malformed") ELSE Goes("line")
       \/ Nothing /\ ReadEnd("malformed") /\ UNCHANGED rest
       \/ \E kind \in Failures :
            /\ RecvFails(kind, "more")
            /\ IF Len(rest) + Rrt[kind] < 4
               THEN ReadEnd("malformed") /\ UNCHANGED rest
               ELSE /\ Goes("line")
                    /\ \E g \in Garbage : Len(g) <= Rrt[kind] /\ rest' = rest \o g
    /\ UNCHANGED <<content_length, bytes_read, buflen, bufbytes, pos, searched, EoD, post_vars, bodyApart, lineVars>>

\* The text from the URL on: the URL ends with a space, or where a CR is as
\* far from the start of the buffer, if there is no 0 byte before.
UrlStart(sp) == IF At(rest, sp + 1, SLASH) THEN sp + 1 ELSE sp
UrlStops(off, i) == At(rest, i + 1, CR) \/ At(rest, off + i + 1, SP)
UrlEnds(off) ==
    {i \in 0..(Len(rest) - off) :
        UrlStops(off, i) /\ \A j \in 0..(i - 1) : ~UrlStops(off, j) /\ ~At(rest, off + j + 1, Nul)}

\* The header lines follow: version and text as given.
Headed(v, text) ==
    /\ version' = v /\ rest' = text
    /\ Goes("header")

RequestVersion(text) ==
    LET p == CrLfAt(text, 1) IN
    \/ At(text, 1, LF) /\ Headed(version, Tail(text))
    \/ ~At(text, 1, LF) /\ p = 0 /\ ReadEnd("malformed") /\ UNCHANGED <<version, rest>>
    \/ ~At(text, 1, LF) /\ p > 0
       /\ Headed(IF SubSeq(text, 1, p - 1) = <<"1.1">> THEN "1.1" ELSE version, From(text, p + 2))

(***************************************************************************)
(* kv_iter.c: pieces between separators, each a key and a value.  A piece  *)
(* with no key is left out.                                                *)
(***************************************************************************)
\* from[n] has the pieces of the last n bytes.
Pieces(s, sep) ==
    LET from[n \in 0..Len(s)] ==
          LET text == From(s, Len(s) - n + 1)
              p    == Place(text, sep)
          IN  IF p = 0 THEN <<text>> ELSE <<SubSeq(text, 1, p - 1)>> \o from[n - p]
    IN  from[Len(s)]

KeyLength(p) == IF EQUAL \in Range(p) THEN Place(p, EQUAL) - 1 ELSE Len(p)

Item(p) ==
    LET v == SubSeq(p, KeyLength(p) + 2, Len(p))
    IN  [key |-> CString(SubSeq(p, 1, KeyLength(p))),
         value |-> IF v = <<>> THEN NoValue ELSE CString(v)]

\* The items of the first n pieces.
Iterated(pieces) ==
    LET items[n \in 0..Len(pieces)] ==
          IF n = 0 THEN <<>>
          ELSE IF KeyLength(pieces[n]) = 0 THEN items[n - 1]
          ELSE Append(items[n - 1], Item(pieces[n]))
    IN  items[Len(pieces)]

\* Wrong variant: the '?' is taken for a part of the first key.
BugBehindMark(text, q) == From(text, q)

BehindMark(text, q) == From(text, q + 1)

\* Bytes the buffer held behind what was received, and lines that end there.
Stale == {<<"x">>, <<AMP, "x">>}
StaleLines == {<<>>, <<"x", COLON, CR, LF>>, <<"x", CR, LF>>}

\* _parse_url: the URL is i bytes long and as many are read from its '?' on,
\* its end, what follows it and what was not received yet included.
QueryTexts(off, i) ==
    LET url == SubSeq(rest, off + 1, off + i)
        q   == Place(url, QMARK)
        held == IF off + i < Len(rest) THEN url \o <<Nul>> \o From(rest, off + i + 2) \o <<Nul>>
                ELSE url \o <<Nul>>
    IN  IF q = 0 THEN {<<>>} ELSE {SubSeq(s, 1, Min({i, Len(s)})) : s \in
          {BehindMark(held \o stale, q) : stale \in Stale}}

\* The URL ends where the text does, and what the buffer holds behind its 0
\* byte is read: no line end, or a version and header lines.  The length of
\* what is left would be negative: as that of a body, and when a line there has
\* no end.
StaleVersion ==
    \/ ReadEnd("malformed") /\ version' \in {version, "1.1"} /\ UNCHANGED rest
    \/ \E v \in {version, "1.1"}, text \in StaleLines : method' # <<"P","O","S","T">> /\ Headed(v, text)
    \/ Goes("broken") /\ UNCHANGED <<version, rest>>

RequestLine ==
    /\ rpc = "line"
    /\ LET sp   == StrChr(rest, SP)
           word == SubSeq(rest, 1, sp - 1)
       IN
       \/ sp = 0 /\ ReadEnd("malformed") /\ UNCHANGED <<method, version, get_vars, rest>>
       \/ /\ sp > 0
          /\ method' = IF word \in Methods THEN word ELSE Unknown
          /\ \E off \in {UrlStart(sp)} :
             \/ UrlEnds(off) = {} /\ ReadEnd("line_exceeded") /\ UNCHANGED <<version, get_vars, rest>>
             \/ \E i \in UrlEnds(off) :
                /\ get_vars' \in {Iterated(p) : p \in {Pieces(s, AMP) : s \in QueryTexts(off, i)}}
                /\ \/ off + i < Len(rest) /\ RequestVersion(From(rest, off + i + 2))
                   \/ off + i = Len(rest) /\ StaleVersion
    /\ UNCHANGED <<connVars, content_length, bytes_read, buflen, bufbytes, pos, searched, EoD, post_vars, bodyApart,
                   lines, cookie_info, post, te_chunked, crApart, headerCut>>

-----------------------------------------------------------------------------
(***************************************************************************)
(* Header lines                                                            *)
(***************************************************************************)
\* Wrong variant: one byte of the line's end is left.
BugBehindLine(text, p) == From(text, p + 1)

BehindLine(text, p) == From(text, p + 2)

\* _parse_cookie_info: blanks in front of a key are dropped, and the cookies
\* of an earlier line forgotten, if there are new ones.
NoBlanks(p) ==
    LET k == SelectInSeq(p, LAMBDA b : b # SP) IN IF k = 0 THEN <<>> ELSE From(p, k)

CookiesIn(value) ==
    LET pieces == Pieces(value, SEMICOLON)
    IN  Iterated([k \in DOMAIN pieces |-> NoBlanks(pieces[k])])

TakeCookies(value) ==
    \E cookies \in {CookiesIn(v) : v \in {value}} :
        cookie_info' = IF cookies = <<>> THEN cookie_info ELSE cookies

\* text[1..p - 1] is a line, up to a 0 byte; without a colon it is malformed.
TakeLine(text, p) ==
    \E line \in {CString(SubSeq(text, 1, p - 1))} :
    LET c   == Place(line, COLON)
        key == SubSeq(line, 1, c - 1)
        value == From(line, IF At(line, c + 1, SP) THEN c + 2 ELSE c + 1)
    IN  \/ c = 0 /\ ReadEnd("malformed") /\ UNCHANGED <<lines, cookie_info, rest>>
        \/ /\ c > 0
           /\ lines' = Append(lines, [key |-> key, value |-> value])
           /\ IF key = <<"Cookie">> THEN TakeCookies(value) ELSE UNCHANGED cookie_info
           /\ rest' = BehindLine(text, p)
           /\ Goes("header")

lineFrame == <<content_length, bytes_read, buflen, bufbytes, pos, searched, EoD, post_vars, bodyApart,
               method, version, get_vars, post, te_chunked>>

\* The loop ends with an empty line, or when no text is left.
NextLine ==
    /\ rpc = "header"
    /\ LET p == CrLfAt(rest, 1) IN
       \/ NoText /\ Goes("post") /\ UNCHANGED <<lines, cookie_info, rest>>
       \/ ~NoText /\ p = 0 /\ Goes("header_recv") /\ UNCHANGED <<lines, cookie_info, rest>>
       \/ p = 1 /\ Goes("post") /\ rest' = BehindLine(rest, 1) /\ UNCHANGED <<lines, cookie_info>>
       \/ p > 1 /\ TakeLine(rest, p)
    /\ headerCut' = (headerCut \/ NoText)
    /\ UNCHANGED <<connVars, lineFrame, crApart>>

\* One more segment, which has to hold the end of the line.
LineRecv ==
    /\ rpc = "header_recv"
    /\ LET room == buflen0 - Len(rest) IN
       \/ \E k \in DOMAIN input :
            /\ Arrive(room, k)
            /\ crApart' = (crApart \/ Last(rest) = CR)
            /\ LET text == rest \o Segment(k)
                   p    == CrLfAt(text, Len(rest) + 1)
               IN  \/ p = 0 /\ ReadEnd("malformed") /\ UNCHANGED <<lines, cookie_info, rest>>
                   \/ p > 0 /\ TakeLine(text, p)
       \/ Nothing /\ ReadEnd("malformed") /\ UNCHANGED <<lines, cookie_info, rest, crApart>>
       \/ \* counts as bytes, but there is no end of line in them
          \E kind \in Failures :
            /\ RecvFails(kind, "header")
            /\ ReadEnd("malformed")
            /\ UNCHANGED <<lines, cookie_info, rest, crApart>>
    /\ UNCHANGED <<lineFrame, headerCut>>

-----------------------------------------------------------------------------
(***************************************************************************)
(* The header of a POST                                                    *)
(***************************************************************************)
Digits == <<"0", "1", "2", "3", "4", "5", "6", "7", "8", "9">>
\* strtoull
Number(v) ==
    LET other == SelectInSeq(v, LAMBDA b : b \notin Range(Digits))
        digits == IF other = 0 THEN v ELSE SubSeq(v, 1, other - 1)
        read[k \in 0..Len(digits)] ==
            IF k = 0 THEN 0 ELSE 10 * read[k - 1] + Place(Digits, digits[k]) - 1
    IN  read[Len(digits)]

Sends(name) == \E k \in DOMAIN lines : lines[k].key = <<name>>
Value(name) == lines[SelectInSeq(lines, LAMBDA h : h.key = <<name>>)].value

Chunked == Sends("Transfer-Encoding") /\ Value("Transfer-Encoding") = <<"chunked">>

\* The encoding or the length is not what the server can do with.
LengthError ==
    IF Sends("Transfer-Encoding") THEN IF Chunked THEN "okay" ELSE "te_not_supported"
    ELSE IF Sends("Content-Length") THEN "okay" ELSE "missing_content_length"

\* ... or the type; a multipart body is not read at all.
TypeError ==
    IF ~Sends("Content-Type") THEN "malformed"
    ELSE LET type == Value("Content-Type") IN
         IF At(type, 1, "multipart") THEN IF "boundary" \in Range(type) THEN "okay" ELSE "malformed"
         ELSE IF type = <<"form">> THEN "okay" ELSE "ct_not_supported"

PostNoMemory ==
    /\ rpc = "post" /\ method = <<"P","O","S","T">>
    /\ ReadEnd(NoMemory)
    /\ \/ \* post_info
          UNCHANGED <<post, bytes_read, bufbytes, buflen>>
       \/ \* its buffer
          /\ post' = TRUE
          /\ bytes_read' = Len(rest) /\ bufbytes' = Len(rest)
          /\ buflen' = Max({Len(rest) + 1, MinForm})
    /\ UNCHANGED <<connVars, content_length, rest, pos, searched, EoD, post_vars, bodyApart,
                   method, version, get_vars, lines, cookie_info, te_chunked, crApart, headerCut>>

PostInfo ==
    /\ rpc = "post" /\ method = <<"P","O","S","T">>
    /\ post' = TRUE
    /\ bytes_read' = Len(rest) /\ bufbytes' = Len(rest)
    /\ buflen' = Max({Len(rest) + 1, MinForm})
    /\ te_chunked' = Chunked
    /\ content_length' = IF LengthError = "okay" /\ ~Chunked THEN Number(Value("Content-Length")) ELSE 0
    /\ \/ LengthError # "okay" /\ ReadEnd(LengthError)
       \/ LengthError = "okay" /\ TypeError # "okay" /\ ReadEnd(TypeError)
       \/ /\ LengthError = "okay" /\ TypeError = "okay"
          /\ IF Value("Content-Type") = <<"form">> THEN Goes("form") ELSE ReadEnd("okay")
    /\ UNCHANGED <<connVars, rest, pos, searched, EoD, post_vars, bodyApart,
                   method, version, get_vars, lines, cookie_info, crApart, headerCut>>

NoPost ==
    /\ rpc = "post" /\ method # <<"P","O","S","T">>
    /\ ReadEnd("okay")
    /\ UNCHANGED <<connVars, formVars, lineVars>>

-----------------------------------------------------------------------------
(***************************************************************************)
(* webthread, after http_request_read                                      *)
(***************************************************************************)
\* Wrong variant: no body is drained.
BugReadReturns ==
    /\ rpc = "read_end" /\ rpc' = "read"
    /\ UNCHANGED <<err, connVars, formVars, lineVars>>

ReadReturns ==
    /\ rpc = "read_end"
    /\ rpc' = IF err = "okay" \/ ~post THEN "read"
              ELSE IF content_length > 0 THEN "throw_away" ELSE "drain"
    /\ UNCHANGED <<err, connVars, formVars, lineVars>>

\* The result is a null pointer, and post_info of it is read.
NullRequest ==
    /\ rpc = "no_request"
    /\ Goes("broken")
    /\ UNCHANGED <<connVars, formVars, lineVars>>

\* http_request_recv_until_timeout_or_error
Drain ==
    /\ rpc = "drain"
    /\ \/ \E k \in DOMAIN input : Arrive(LineBuf, k) /\ UNCHANGED rpc
       \/ Nothing /\ rpc' = "read"
       \/ \E kind \in Failures : RecvFails(kind, "drain") /\ rpc' = "read"
    /\ UNCHANGED <<err, formVars, lineVars>>

ReadStep ==
    \/ AllocRequest \/ FirstRecv \/ MoreRecv \/ RequestLine \/ NextLine \/ LineRecv
    \/ PostNoMemory \/ PostInfo \/ NoPost \/ ReadReturns \/ NullRequest \/ Drain
    \/ (FormStep \/ ThrowAway(LineBuf)) /\ UNCHANGED lineVars

-----------------------------------------------------------------------------
(***************************************************************************)
(* Properties                                                              *)
(***************************************************************************)
RPCs == { "alloc", "no_request", "first", "more", "line", "header", "header_recv", "post",
          "form", "form_first", "form_loop", "form_key", "form_value", "form_rest",
          "read_end", "throw_away", "drain", "read", "done", "answered", "broken" }

Errors == { "okay", "socket_err", "socket_timeout", "line_exceeded", "field_exceeded", "malformed",
            "missing_content_length", "te_not_supported", "ct_not_supported", NoMemory }

\* The text never exceeds the buffer it is in, there is room when more of a
\* line is received, and a form's buffer is less than one step over its limit.
BuffersFit ==
    /\ Len(rest) <= IF post THEN buflen - 1 ELSE buflen0
    /\ rpc = "header_recv" => Len(rest) < buflen0
    /\ buflen \in 0..(Max({LineBuf, MaxForm + MinForm - 1}))

\* Types of what is kept while a request is read.
RequestTypeOK ==
    /\ rpc \in RPCs /\ err \in Errors
    /\ sent \in Requests /\ IsSuffix(input, Encoded(sent))
    /\ {closed, EoD, post, te_chunked, crApart, headerCut, bodyApart} \subseteq BOOLEAN
    /\ fault \in {"none", "first", "more", "header", "form_first", "form", "drain"}
    /\ {content_length, bytes_read, bufbytes, pos} \subseteq Nat
    /\ BuffersFit
    /\ version \in {"1.0", "1.1"} /\ method \in Methods \cup {Unknown}

Versioned == sent.version # <<>>

\* However a request is cut into segments, the header lines that were read
\* are lines of it, and the cookies are those of its line: none is changed,
\* merged with another or left out between others.  This is said of a request
\* that has the form it should have; a known exception of these is a CR and its
\* LF in different segments.  One of the others is a request line with no
\* version (http_request.c:427 looks at the wrong byte).
HeadersIntact ==
    ~crApart /\ Readable(sent) =>
        /\ IsPrefix(lines, HeaderLines(sent))
        /\ cookie_info = IF lines = HeaderLines(sent) THEN sent.cookies ELSE <<>>

\* The variables of a URL are those it was sent with.  What is read behind its
\* end (http_request.c:211 takes the length of the whole URL) never changes a
\* value, but it may give one to a last variable that has none, and more
\* variables when the path is longer than the version and its line end.
UrlVarsIntact ==
    rpc \in {"read", "done"} /\ err = "okay" /\ fault # "more" /\ Versioned =>
        /\ \A k \in DOMAIN sent.vars :
             /\ k \in DOMAIN get_vars
             /\ get_vars[k].key = sent.vars[k].key
             /\ sent.vars[k].value \in {NoValue, get_vars[k].value}
        /\ Len(sent.url) < 5 => Len(get_vars) = Len(sent.vars)

\* The same for the variables of a form that was read to its end; the chunks
\* of a body that is sent in chunks are taken for text, and see FormComplete
\* for a form that does not arrive with the header.  A 0 byte in a form ends a
\* key, a value or the form.
FormRead ==
    /\ Without(Joined(sent.form, <<AMP>>), {Nul})
    /\ post /\ err = "okay" /\ rpc \in {"read_end", "read", "done"}
    /\ ~te_chunked /\ Value("Content-Type") = <<"form">>
VarsIntact == FormRead /\ ~bodyApart => IsPrefix(post_vars, sent.form)

\* webthread.c:209: an error is answered after the rest of the body was
\* received, or could not be.  What was left of a header that was not read to
\* its end counts as a part of the body (see HeadersComplete).
DrainedBeforeReply ==
    rpc \in {"read", "done"} /\ err # "okay" /\ post /\ content_length > 0 /\ ~headerCut =>
        input = <<>> \/ closed \/ fault # "none"

\* Memory that is not there is used in three known cases only: the request
\* could not be allocated, the form did not come with the header, or a request
\* line has no version or a byte it should not have, and is all that was
\* received (http_request.c:427 and 444).
BrokenOnlyAsKnown == rpc = "broken" => err = NoMemory \/ bodyApart \/ (~post /\ ~Readable(sent))

\* A failure of the connection is no request: except in the two places where
\* it counts as bytes and what is in the buffer passes for received.
FaultNotOkay ==
    rpc \in {"read", "done"} /\ fault \in {"first", "header", "form"} => err # "okay"

\* http_request.c:460: "extract all other header informations into key/value
\* pair list".  A request that was read without a failure has them all.
WellFormed == Readable(sent) /\ \A h \in Range(sent.headers) : h.value # NoValue
HeadersComplete ==
    rpc \in {"read", "done"} /\ err = "okay" /\ fault = "none" /\ ~closed /\ WellFormed =>
        lines = HeaderLines(sent)

\* post_wwwform.c:114: "find '&' (if not try to receive more) or EndOfData":
\* a form is read to its end, wherever its segments end.
FormComplete ==
    /\ rpc = "broken" /\ post => err = NoMemory
    /\ FormRead /\ fault = "none" /\ ~closed /\ ~headerCut =>
         post_vars = sent.form
=============================================================================
