------------------------------- MODULE Reply --------------------------------
(***************************************************************************)
(* How a web thread answers a request: the second half of webthread        *)
(* (src/webthread.c) and the script pages (src/luasp.c), as the sequence   *)
(* of operations on the send buffer, on the socket and on the file that is *)
(* served.                                                                 *)
(*                                                                         *)
(* The outcome of reading the request, the kind of the resource, the       *)
(* lengths of headers and bodies and what a script does are choices of the *)
(* environment.  The table of server commands is empty and has no reply.   *)
(***************************************************************************)
EXTENDS SendBuffer

CONSTANTS MaxHeader,   \* bound: bytes of a header
          MaxWritten   \* bound: bytes of a reply

ASSUME ReplyAssumption == MaxHeader \in Nat \ {0} /\ MaxWritten \in Nat

VARIABLES
    pc, ret, after,   \* where webthread is; where string_data and
                      \* http_header return to
    http_1_1,         \* ri->http_version
    headers_sent,     \* of the page
    fp,               \* a file is open
    stream_out,       \* bytes of the compressor in the send buffer's memory
    \* History, read by the properties only:
    headerLen,        \* bytes of the headers sent
    headers,          \* how many headers were sent
    announced,        \* ... with Transfer-Encoding: chunked
    noLua             \* there was no Lua state

replyVars == <<http_1_1, headers_sent, fp, stream_out, noLua>>
headerVars == <<headerLen, headers, announced>>
vars == <<bufVars, pc, ret, after, replyVars, headerVars>>

PCs == { "request", "put", "header_end", "info", "luasp", "luasp_state", "load_failed", "page", "page_failed",
         "page_end", "embedded", "deflate", "deflate_header", "deflate_flush", "deflate_loop", "deflated",
         "plain", "cleanup", "close", "closed" }

Init ==
    /\ BufInit
    /\ pc = "request" /\ ret = "request" /\ after = "request"
    /\ http_1_1 \in BOOLEAN
    /\ headers_sent = FALSE /\ fp = FALSE /\ stream_out = 0
    /\ headerLen = 0 /\ headers = 0 /\ announced = FALSE /\ noLua = FALSE

Goto(from, to) == pc = from /\ pc' = to

\* Lengths the bounds leave for one more string.
Room(max) == {k \in 0..max : written + k <= MaxWritten}

-----------------------------------------------------------------------------
(***************************************************************************)
(* http_reply.c                                                            *)
(***************************************************************************)
PutTurn == pc = "put" /\ PutFull /\ UNCHANGED <<pc, ret, after, replyVars, headerVars>>

PutReturn == Goto("put", ret) /\ PutRest /\ UNCHANGED <<ret, after, replyVars, headerVars>>

\* send_buffer_string and the like, from pc `from', with return to `to'.
String(from, to) ==
    /\ Goto(from, "put")
    /\ \E k \in Room(BufSize + 1) : Put("body", k)
    /\ ret' = to

\* send_buffer_http_header: its strings, one after the other, are one string.
Header(from, to) ==
    /\ Goto(from, "put")
    /\ \E k \in 1..MaxHeader : Put("header", k) /\ headerLen' = k
    /\ headers' = headers + 1
    /\ announced' = chunked
    /\ ret' = "header_end" /\ after' = to

\* The end of it: a header that announces chunks is sent at once.
HeaderEnd ==
    /\ Goto("header_end", after)
    /\ IF chunked THEN FlushInternal ELSE UNCHANGED <<buf, wire>>
    /\ UNCHANGED <<chunked, str, written, ret, after, replyVars, headerVars>>

headerFrame == <<buf, chunked, wire>>

\* send_buffer_error_info
ErrorInfo(from) == Header(from, "info") /\ UNCHANGED <<headerFrame, replyVars>>

InfoBody == String("info", "cleanup") /\ UNCHANGED <<headerFrame, after, replyVars, headerVars>>

-----------------------------------------------------------------------------
(***************************************************************************)
(* webthread.c                                                             *)
(***************************************************************************)
\* The request could not be read, or names nothing (404) or nothing that
\* may be read (403).
ReplyError == ErrorInfo("request")

MethodNotAllowed == Header("request", "cleanup") /\ UNCHANGED <<headerFrame, replyVars>>

StartPage ==
    /\ Goto("request", "luasp")
    /\ UNCHANGED <<bufVars, ret, after, replyVars, headerVars>>

\* An embedded resource: header, flush, and its data without the buffer.
EmbeddedHeader == Header("request", "embedded") /\ UNCHANGED <<headerFrame, replyVars>>

Direct(k) ==
    /\ wire' = Flushed(buf) \o Bytes("body", k)
    /\ buf' = <<>>
    /\ written' = written + k

EmbeddedData ==
    /\ Goto("embedded", "cleanup")
    /\ \E k \in Room(1) : Direct(k)
    /\ UNCHANGED <<chunked, str, ret, after, replyVars, headerVars>>

\* fopen of a static file; it will be compressed or not.
OpenFile ==
    /\ \/ Goto("request", "plain")
       \/ Goto("request", "deflate")
    /\ fp' = TRUE
    /\ UNCHANGED <<bufVars, ret, after, http_1_1, headers_sent, stream_out, noLua, headerVars>>

\* send_http_header has a buffer of its own and sends all of it.
PlainHeader ==
    /\ pc = "plain" /\ headers = 0
    /\ \E k \in 1..MaxHeader :
         /\ wire' = wire \o Bytes("header", k)
         /\ written' = written + k
         /\ headerLen' = k
    /\ headers' = headers + 1
    /\ UNCHANGED <<buf, chunked, str, pc, ret, after, replyVars, announced>>

\* A block of the file, from the memory of the send buffer to the socket.
PlainBlock ==
    /\ pc = "plain" /\ headers = 1
    /\ \E k \in Room(BufSize) \ {0} :
         /\ wire' = wire \o Bytes("body", k)
         /\ written' = written + k
    /\ UNCHANGED <<buf, chunked, str, pc, ret, after, replyVars, headerVars>>

CloseFile(from) ==
    /\ Goto(from, "cleanup")
    /\ fp' = FALSE
    /\ UNCHANGED <<bufVars, ret, after, http_1_1, headers_sent, stream_out, noLua, headerVars>>

PlainEnd == headers = 1 /\ CloseFile("plain")

\* deflateInit fails: an error header.
DeflateInitFails == Header("deflate", "deflated") /\ UNCHANGED <<headerFrame, replyVars>>

\* ... or works: with HTTP/1.1 the reply is chunked.
DeflateInit ==
    /\ Goto("deflate", "deflate_header")
    /\ chunked' = (chunked \/ http_1_1)
    /\ UNCHANGED <<buf, wire, str, written, ret, after, replyVars, headerVars>>

\* Wrong variant: no flush before the compressor gets the buffer's memory.
BugDeflateHeader == Header("deflate_header", "deflate_loop") /\ UNCHANGED <<headerFrame, replyVars>>

DeflateHeader == Header("deflate_header", "deflate_flush") /\ UNCHANGED <<headerFrame, replyVars>>

DeflateFlush ==
    /\ Goto("deflate_flush", "deflate_loop")
    /\ Flush
    /\ UNCHANGED <<chunked, str, written, ret, after, replyVars, headerVars>>

\* The compressor writes to the memory of the send buffer, from its start.
\* When that is full, or at the end, curpos is set and the buffer flushed;
\* after an error it is not, and what the compressor had made is dropped.
DeflateTurn ==
    /\ pc = "deflate_loop"
    /\ \E k \in {j \in 0..(BufSize - stream_out) : written + stream_out + j <= MaxWritten} :
       LET out == stream_out + k IN
         \/ \* not full, status Z_OK
            /\ out < BufSize
            /\ stream_out' = out
            /\ UNCHANGED <<pc, wire, buf, written>>
         \/ \* full, or Z_STREAM_END
            /\ pc' \in IF out = BufSize THEN {"deflate_loop", "deflated"} ELSE {"deflated"}
            /\ wire' = Flushed(Bytes("body", out))
            /\ buf' = <<>>
            /\ written' = written + out
            /\ stream_out' = 0
         \/ \* an error
            /\ out < BufSize
            /\ pc' = "deflated"
            /\ stream_out' = 0
            /\ UNCHANGED <<wire, buf, written>>
    /\ UNCHANGED <<chunked, str, ret, after, http_1_1, headers_sent, fp, noLua, headerVars>>

DeflateEnd == CloseFile("deflated")

CleanUp ==
    /\ Goto("cleanup", "close")
    /\ FlushLast
    /\ UNCHANGED <<chunked, str, written, ret, after, replyVars, headerVars>>

CloseSocket ==
    /\ Goto("close", "closed")
    /\ UNCHANGED <<bufVars, ret, after, replyVars, headerVars>>

-----------------------------------------------------------------------------
(***************************************************************************)
(* luasp.c                                                                 *)
(***************************************************************************)
\* luasp_process: the page is embedded, or a file, or cannot be opened.
OpenPage ==
    /\ Goto("luasp", "luasp_state")
    /\ fp' \in BOOLEAN
    /\ chunked' = (chunked \/ http_1_1)
    /\ UNCHANGED <<buf, wire, str, written, ret, after, http_1_1, headers_sent, stream_out,
                   noLua, headerVars>>

PageNotThere == ErrorInfo("luasp")

\* luaL_newstate fails: an error page, and the function returns at once.
NoLuaState ==
    /\ Header("luasp_state", "info")
    /\ noLua' = TRUE
    /\ UNCHANGED <<headerFrame, http_1_1, headers_sent, fp, stream_out>>

\* Wrong variant: a page that does not load leaves its file open.
BugLoadPage ==
    /\ \/ Goto("luasp_state", "page") /\ fp' = FALSE
       \/ Goto("luasp_state", "load_failed") /\ UNCHANGED fp
    /\ UNCHANGED <<bufVars, ret, after, http_1_1, headers_sent, stream_out, noLua, headerVars>>

\* lua_load reads all of the page; then its file is closed.
LoadPage ==
    /\ Goto("luasp_state", "page") \/ Goto("luasp_state", "load_failed")
    /\ fp' = FALSE
    /\ UNCHANGED <<bufVars, ret, after, http_1_1, headers_sent, stream_out, noLua, headerVars>>

\* _lsp_send_headers, the first time something needs them.
SendHeaders(from, to) ==
    /\ ~headers_sent
    /\ headers_sent' = TRUE
    /\ Header(from, to)
    /\ UNCHANGED <<headerFrame, http_1_1, fp, stream_out, noLua>>

LoadError ==
    \/ SendHeaders("load_failed", "load_failed")
    \/ /\ headers_sent
       /\ String("load_failed", "page_end")
       /\ UNCHANGED <<headerFrame, after, replyVars, headerVars>>

\* The script calls echo, which sends the headers before the first output,
\* or anything that does not reply.
Echo ==
    \/ SendHeaders("page", "page")
    \/ /\ headers_sent
       /\ String("page", "page")
       /\ UNCHANGED <<headerFrame, after, replyVars, headerVars>>

\* The script ends, or fails with or without a message to the client.
CallError ==
    \/ SendHeaders("page", "page_failed")
    \/ /\ headers_sent
       /\ Goto("page", "page_failed")
       /\ UNCHANGED <<bufVars, ret, after, replyVars, headerVars>>

ErrorOutput ==
    /\ String("page_failed", "page_end")
    /\ UNCHANGED <<headerFrame, after, replyVars, headerVars>>

ScriptEnds ==
    /\ Goto("page", "page_end")
    /\ UNCHANGED <<bufVars, ret, after, replyVars, headerVars>>

\* Wrong variant: sends the headers whether they were sent or not.
BugEndPage == Header("page_end", "cleanup") /\ UNCHANGED <<headerFrame, replyVars>>

EndPage ==
    \/ SendHeaders("page_end", "cleanup")
    \/ /\ headers_sent
       /\ Goto("page_end", "cleanup")
       /\ UNCHANGED <<bufVars, ret, after, replyVars, headerVars>>

-----------------------------------------------------------------------------
\* The first step looks at the request.
FirstStep == ReplyError \/ MethodNotAllowed \/ StartPage \/ EmbeddedHeader \/ OpenFile

\* A page is opened and read.
LoadStep == OpenPage \/ NoLuaState \/ LoadPage

SendBufferStep == PutTurn \/ PutReturn \/ HeaderEnd \/ InfoBody

StaticStep ==
    \/ EmbeddedData
    \/ PlainHeader \/ PlainBlock \/ PlainEnd
    \/ DeflateInitFails \/ DeflateInit \/ DeflateHeader \/ DeflateFlush \/ DeflateTurn
    \/ DeflateEnd

PageStep == PageNotThere \/ LoadError \/ Echo \/ CallError \/ ErrorOutput \/ ScriptEnds \/ EndPage

SendStep == SendBufferStep \/ StaticStep \/ PageStep \/ CleanUp \/ CloseSocket

Next == FirstStep \/ LoadStep \/ SendStep

Spec == Init /\ [][Next]_vars

-----------------------------------------------------------------------------
(***************************************************************************)
(* Properties                                                              *)
(***************************************************************************)
\* Every variable has its type; the buffer never holds more than its size.
TypeOK ==
    /\ BufTypeOK
    /\ {pc, ret, after} \subseteq PCs
    /\ {http_1_1, headers_sent, fp, announced, noLua} \subseteq BOOLEAN
    /\ stream_out \in 0..BufSize
    /\ headerLen \in 0..MaxHeader /\ headers \in Nat

\* The reply as far as it is written, and the places of its bytes.
Stream == wire \o buf \o str
Data(s) == {k \in 1..Len(s) : s[k].part \in Parts}

\* The bytes of s are those behind a up to b, in order.
InOrder(s, a, b) ==
    /\ \A j, k \in Data(s) : j < k => s[j].n < s[k].n
    /\ {s[k].n : k \in Data(s)} = (a + 1)..b

\* Whatever path a reply takes, with strings of any length cut by a buffer of
\* any fill, with flushes, direct sends and a compressor that writes to the
\* buffer's memory: every byte is sent once, in the order it was written.
StreamInOrder == InOrder(Stream, 0, written)

\* The marks of the chunks are where HTTP/1.1 wants them: the size, as many
\* bytes, and the end of the chunk.
Frame(s, k) ==
    LET n == s[k].n
    IN  /\ n > 0 /\ k + n + 1 <= Len(s)
        /\ \A j \in 1..n : s[k + j].part = "body"
        /\ s[k + n + 1] = Crlf
InFrame(s, k) == \E j \in 1..(k - 1) : s[j].part = "size" /\ k <= j + s[j].n + 1

\* A reply that announces chunks consists of a header, chunks that are not
\* empty, and one last chunk at its end; any other reply has no chunks.  The
\* header has to fit into the send buffer.
WellFramed ==
    pc = "closed" /\ headerLen <= BufSize =>
        IF announced
        THEN /\ \A k \in 1..Len(wire) : wire[k].part = "size" => Frame(wire, k)
             /\ \A k \in 1..Len(wire) :
                  \/ wire[k].part \in {"header", "size"} \/ InFrame(wire, k)
                  \/ wire[k] = LastChunk /\ k = Len(wire)
             /\ wire[Len(wire)] = LastChunk
        ELSE \A k \in 1..Len(wire) : wire[k].part \in Parts

\* Each reply has one header, and it comes before anything else: not two when
\* a page fails after its first output, and not none when it has no output.
OneHeaderFirst ==
    /\ headers <= 1
    /\ pc = "closed" => headers = 1
    /\ \A k \in Data(Stream) : Stream[k].part = "header" <=> Stream[k].n <= headerLen

\* The file of a page or a static file is closed on every way through the
\* reply, but for the early return of luasp.c:468-473.
FileClosed == pc = "closed" /\ fp => noLua

\* http_reply.c:178: "send the header, chunked data is following": the header
\* is not a part of the chunks.
HeaderNotInChunks ==
    \A k \in 1..Len(wire) : wire[k].part = "header" => ~InFrame(wire, k)
=============================================================================
