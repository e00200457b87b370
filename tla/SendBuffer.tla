----------------------------- MODULE SendBuffer -----------------------------
(***************************************************************************)
(* The send buffer of a web thread (src/http_reply.c): bytes are collected *)
(* in a buffer and go to the socket when it is full or flushed, as a chunk *)
(* with its size if the flag SBF_CHUNKED is set.                           *)
(*                                                                         *)
(* A byte is its place in the reply and the part it belongs to.  What is   *)
(* in the socket is a sequence of bytes and of the marks that frame a      *)
(* chunk.  External: send takes all it is given; the code looks at no      *)
(* result of it, and after an error there is nothing left to say.          *)
(***************************************************************************)
EXTENDS Integers, Sequences

CONSTANT BufSize      \* sendbuf->bufsize

ASSUME SendBufferAssumption == BufSize \in Nat \ {0}

VARIABLES
    buf,       \* the bytes up to sendbuf->curpos
    chunked,   \* flags & SBF_CHUNKED
    wire,      \* what the socket was given
    str,       \* the rest of the argument of send_buffer_string_data
    written    \* bytes of the reply so far

bufVars == <<buf, chunked, wire, str, written>>

Parts == {"header", "body"}
Byte(part, n) == [part |-> part, n |-> n]
Size(n) == [part |-> "size", n |-> n]
Crlf == [part |-> "crlf", n |-> 0]
LastChunk == [part |-> "last", n |-> 0]

\* The next k bytes of the reply.
Bytes(part, k) == [j \in 1..k |-> Byte(part, written + j)]

BufInit ==
    /\ buf = <<>> /\ chunked = FALSE
    /\ wire = <<>> /\ str = <<>> /\ written = 0

\* Wrong variant: an empty buffer makes an empty chunk.
BugFlushed(b) == IF chunked THEN wire \o <<Size(Len(b))>> \o b \o <<Crlf>> ELSE wire \o b

\* The socket after send_buffer_flush of b: nothing is sent for an empty
\* buffer, as an empty chunk would end the reply.
Flushed(b) ==
    IF chunked /\ b # <<>> THEN wire \o <<Size(Len(b))>> \o b \o <<Crlf>> ELSE wire \o b

\* _send_buffer_flush_internal: no framing.
FlushInternal ==
    /\ wire' = wire \o buf
    /\ buf' = <<>>

Flush ==
    /\ wire' = Flushed(buf)
    /\ buf' = <<>>

FlushLast ==
    /\ wire' = Flushed(buf) \o IF chunked THEN <<LastChunk>> ELSE <<>>
    /\ buf' = <<>>

\* Wrong variant: takes the buffer for empty.
BugAvail == BufSize

\* buf_avail
Avail == BufSize - Len(buf)

\* send_buffer_string_data is called with k bytes.
Put(part, k) ==
    /\ str' = Bytes(part, k)
    /\ written' = written + k

\* One turn of its loop: the buffer is filled and flushed ...
PutFull ==
    /\ Len(str) > Avail
    /\ wire' = Flushed(buf \o SubSeq(str, 1, Avail))
    /\ buf' = <<>>
    /\ str' = SubSeq(str, Avail + 1, Len(str))
    /\ UNCHANGED <<chunked, written>>

\* ... until the rest fits.
PutRest ==
    /\ Len(str) <= Avail
    /\ buf' = buf \o str
    /\ str' = <<>>
    /\ UNCHANGED <<chunked, wire, written>>

BufTypeOK ==
    /\ buf \in Seq([part : Parts, n : 1..written]) /\ Len(buf) <= BufSize
    /\ chunked \in BOOLEAN
    /\ wire \in Seq([part : Parts \cup {"size", "crlf", "last"}, n : 0..written])
    /\ str \in Seq([part : Parts, n : 1..written])
    /\ written \in Nat
=============================================================================
