----------------------------- MODULE Connection -----------------------------
(***************************************************************************)
(* The receiving side of the socket of a web thread, as select, recv and   *)
(* _recv_data_timed of src/http_request.c show it, and what a client may   *)
(* send.                                                                   *)
(*                                                                         *)
(* External: the bytes of a request arrive in order, in segments of any    *)
(* size; the client may close after any of them, may stop for longer than  *)
(* a timeout and go on, and a call may fail.  A name, a value or a word    *)
(* the code does not look into is one byte here.                           *)
(***************************************************************************)
EXTENDS Integers, Sequences, SequencesExt

CONSTANTS Alphabet,   \* the bytes
          Requests    \* what clients send, in its parts

VARIABLES
    sent,      \* the request of this connection (read by properties only)
    input,     \* the bytes of it that were not received yet
    closed,    \* the client has closed, or the connection broke
    fault      \* where the last fault was met (read by properties only)

connVars == <<sent, input, closed, fault>>

SP == " "     CR == "\r"     LF == "\n"     CRLF == <<CR, LF>>
COLON == ":"  EQUAL == "="   AMP == "&"   SEMICOLON == ";"   QMARK == "?"
Nul == "\\0"
NoValue == <<"no value">>

\* The bytes that something looks for, and one that stands for the others.
ASSUME AlphabetAssumption ==
    {"x", SP, CR, LF, COLON, EQUAL, AMP, SEMICOLON, QMARK, Nul, "Cookie"} \subseteq Alphabet

Pair == [key : Seq(Alphabet), value : Seq(Alphabet)]

\* A request is what its parts are.
RequestParts ==
    [method : Seq(Alphabet), url : Seq(Alphabet), vars : Seq(Pair), version : Seq(Alphabet),
     headers : Seq(Pair), cookies : Seq(Pair), form : Seq(Pair)]

ASSUME RequestsAssumption == Requests \subseteq RequestParts

\* memchr: the first place of byte c, or 0.
Place(s, c) ==
    LET P == {k \in 1..Len(s) : s[k] = c}
    IN  IF P = {} THEN 0 ELSE Min(P)

\* A 0 byte ends a string, and strchr looks no further.
CString(s) == IF Nul \in Range(s) THEN SubSeq(s, 1, Place(s, Nul) - 1) ELSE s

StrChr(s, c) == Place(CString(s), c)

From(s, p) == SubSeq(s, p, Len(s))
At(s, p, b) == p \in DOMAIN s /\ s[p] = b

\* Pairs of a key and a value as a URL, a cookie and a form have them.
PairText(p) == p.key \o (IF p.value = NoValue THEN <<>> ELSE <<EQUAL>> \o p.value)

Joined(pairs, sep) ==
    FlattenSeq([k \in DOMAIN pairs |-> (IF k = 1 THEN <<>> ELSE sep) \o PairText(pairs[k])])

HeaderText(h) == h.key \o (IF h.value = NoValue THEN <<>> ELSE <<COLON, SP>> \o h.value)

HeaderLine(h) == HeaderText(h) \o CRLF

CookieLines(r) ==
    IF r.cookies = <<>> THEN <<>>
    ELSE <<[key |-> <<"Cookie">>, value |-> Joined(r.cookies, <<SEMICOLON, SP>>)]>>

HeaderLines(r) == r.headers \o CookieLines(r)

\* The URL, its query, and the first line.
Target(r) == r.url \o (IF r.vars = <<>> THEN <<>> ELSE <<QMARK>> \o Joined(r.vars, <<AMP>>))

FirstLine(r) == r.method \o <<SP>> \o Target(r) \o (IF r.version = <<>> THEN <<>> ELSE <<SP>> \o r.version)

Encoded(r) ==
    FirstLine(r) \o CRLF
    \o FlattenSeq([k \in DOMAIN HeaderLines(r) |-> HeaderLine(HeaderLines(r)[k])])
    \o CRLF
    \o Joined(r.form, <<AMP>>)

\* A request has a version and the form that RFC 7230 gives it, as far as the
\* code relies on it: what ends a part is not in it, nor a 0 byte.
Without(s, bytes) == \A k \in DOMAIN s : s[k] \notin bytes

Readable(r) ==
    /\ r.version # <<>> /\ Len(r.method) > 2 /\ Without(r.method, {SP, CR, LF, Nul})
    /\ Without(Target(r), {SP, CR, LF, Nul}) /\ Without(r.version, {CR, LF, Nul})
    /\ \A k \in DOMAIN r.headers :
         LET h == r.headers[k]
         IN  /\ h.key \notin {<<>>, <<"Cookie">>}
             /\ Without(h.key, {COLON, CR, Nul}) /\ Without(h.value, {CR, Nul})
    /\ \A k \in DOMAIN r.cookies :
         LET c == r.cookies[k]
         IN  /\ c.key # <<>> /\ c.value # <<>>
             /\ Without(c.key, {SEMICOLON, EQUAL, SP, CR, Nul}) /\ Without(c.value, {SEMICOLON, CR, Nul})

ConnInit ==
    /\ sent \in Requests
    /\ input = Encoded(sent)
    /\ closed = FALSE /\ fault = "none"

\* recv with this much room gives the first k bytes.
Arrive(room, k) ==
    /\ k \in 1..room /\ k <= Len(input)
    /\ input' = SubSeq(input, k + 1, Len(input))
    /\ UNCHANGED <<sent, closed, fault>>
Segment(k) == SubSeq(input, 1, k)

\* recv gives 0: the client has closed.  (There always is room for a byte.)
Nothing ==
    /\ closed' = TRUE /\ input' = <<>>
    /\ UNCHANGED <<sent, fault>>

\* _recv_data_timed returns RECV_SOCKET_ERROR, RECV_SELECT_ERROR or
\* RECV_SELECT_TIMEOUT.
RecvFails(kind, at) ==
    /\ kind = "timeout" => ~closed
    /\ closed' = (closed \/ kind = "socket")
    /\ input' = IF kind = "socket" THEN <<>> ELSE input
    /\ fault' = at
    /\ UNCHANGED sent
Failures == {"socket", "select", "timeout"}

\* What _recv_data_timed_rrt makes of them: small positive numbers.
Rrt == [socket |-> 1, select |-> 2, timeout |-> 3]
=============================================================================
