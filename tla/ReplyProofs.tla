---------------------------- MODULE ReplyProofs ----------------------------
(***************************************************************************)
(* Proofs about Reply for every size of the send buffer, every length of   *)
(* a header and of a reply, and every way through the code.                *)
(***************************************************************************)
EXTENDS Reply, SequenceTheorems, TLAPS

\* A header is being written.
InHeader == pc = "header_end" \/ (pc = "put" /\ ret = "header_end")

\* The bytes that went to the socket.
Gone == written - Len(str) - Len(buf)

\* s holds bytes only, those behind a.
Consecutive(s, a) == \A k \in 1..Len(s) : s[k].part \in Parts /\ s[k].n = a + k

\* The socket has the first bytes, the buffer the next ones, and the string
\* that is put into it the rest.
Ordered ==
    /\ Gone \in Nat
    /\ InOrder(wire, 0, Gone)
    /\ Consecutive(buf, Gone)
    /\ Consecutive(str, Gone + Len(buf))

\* Where the code has called the function that writes the header.
Once == {"put", "header_end", "info", "embedded", "deflate_flush", "deflate_loop",
         "deflated", "page_failed", "cleanup", "close", "closed"}

\* What each place of the code knows.
Calls ==
    /\ pc # "put" => str = <<>>
    /\ pc \in {"plain", "deflate_loop"} => buf = <<>>
    /\ pc = "put" => ret \in {"header_end", "cleanup", "page", "page_end"}
    /\ pc = "put" /\ ret \in {"page", "page_end"} => headers_sent
    /\ pc = "page_failed" => headers_sent
    /\ InHeader =>
         /\ after \in {"info", "cleanup", "embedded", "deflated", "deflate_flush",
                       "load_failed", "page", "page_failed"}
         /\ after \in {"load_failed", "page", "page_failed"} => headers_sent
         /\ after = "embedded" => ~chunked
    /\ pc \in {"request", "luasp", "deflate", "plain", "embedded"} => ~chunked

\* How many headers were written.
Counted ==
    /\ headers \in {0, 1}
    /\ pc \in {"request", "luasp", "luasp_state", "deflate", "deflate_header"} => headers = 0
    /\ pc \in {"load_failed", "page", "page_end"} => (headers = 1 <=> headers_sent)
    /\ pc \in Once => headers = 1
    /\ headers = 0 => /\ written = 0 /\ headerLen = 0 /\ wire = <<>> /\ buf = <<>>
                      /\ ~announced /\ ~headers_sent
    /\ headers = 1 => (announced <=> chunked) /\ headerLen \in 1..written
    /\ InHeader => written = headerLen

\* The bytes of the header are the first ones.
HeaderBytes(s) == \A k \in Data(s) : s[k].part = "header" <=> s[k].n <= headerLen
HeaderFirst == HeaderBytes(wire) /\ HeaderBytes(buf) /\ HeaderBytes(str)

\* Where a file can be open.
FileOpen ==
    fp => \/ noLua
          \/ pc \in {"plain", "deflate", "deflate_header", "deflate_flush", "deflate_loop",
                     "deflated", "luasp_state"}
          \/ InHeader /\ after \in {"deflated", "deflate_flush"}

\* Behind the header, a reply in chunks has chunks and nothing else.
Sized(s) == \A k \in 1..Len(s) : s[k].part = "size" => Frame(s, k)
Inside(s, k) == s[k].part \in {"header", "size"} \/ InFrame(s, k)
Open(s) == \A k \in 1..Len(s) : Inside(s, k)
Ended(s) ==
    /\ \A k \in 1..Len(s) : Inside(s, k) \/ (s[k] = LastChunk /\ k = Len(s))
    /\ s # <<>> /\ s[Len(s)] = LastChunk

\* Without chunks only bytes are sent.  In chunks, the header was sent before
\* anything else is put into the buffer, and is no part of a chunk if it fits.
Framing ==
    /\ ~chunked => \A k \in 1..Len(wire) : wire[k].part \in Parts
    /\ chunked /\ headers = 1 /\ ~InHeader => Gone >= headerLen
    /\ chunked /\ headers = 1 /\ headerLen <= BufSize =>
         /\ InHeader => wire = <<>>
         /\ pc = "put" /\ ret = "header_end" => buf = <<>>
         /\ Sized(wire)
         /\ pc \notin {"close", "closed"} => Open(wire)
         /\ pc \in {"close", "closed"} => Ended(wire)

ReplyInv == TypeOK /\ Ordered /\ Calls /\ Counted /\ HeaderFirst /\ FileOpen /\ Framing

-----------------------------------------------------------------------------
(***************************************************************************)
(* Sequences of bytes and marks.                                           *)
(***************************************************************************)
Items == [part : Parts \cup {"size", "crlf", "last"}, n : Nat]

\* The items of two sequences, one after the other.
LEMMA Joined2 ==
    ASSUME NEW s \in Seq(Items), NEW t \in Seq(Items)
    PROVE  /\ s \o t \in Seq(Items)
           /\ Len(s) \in Nat /\ Len(t) \in Nat /\ Len(s \o t) = Len(s) + Len(t)
           /\ \A k \in 1..Len(s) : (s \o t)[k] = s[k]
           /\ \A k \in 1..Len(t) : (s \o t)[Len(s) + k] = t[k]
           /\ \A k \in 1..Len(s \o t) :
                 k \in 1..Len(s) \/ \E j \in 1..Len(t) : k = Len(s) + j
  <1>1. Len(s) \in Nat /\ Len(t) \in Nat
    BY LenProperties
  <1>2. /\ s \o t \in Seq(Items)
        /\ Len(s \o t) = Len(s) + Len(t)
        /\ \A i \in 1..Len(s) + Len(t) :
             (s \o t)[i] = IF i <= Len(s) THEN s[i] ELSE t[i - Len(s)]
    BY ConcatProperties
  <1>3. ASSUME NEW k \in 1..Len(t) PROVE (s \o t)[Len(s) + k] = t[k]
    <2>1. Len(s) + k \in 1..(Len(s) + Len(t)) /\ ~(Len(s) + k <= Len(s)) /\ (Len(s) + k) - Len(s) = k
      BY <1>1
    <2> QED
      BY <1>2, <2>1
  <1>4. ASSUME NEW k \in 1..Len(s) PROVE (s \o t)[k] = s[k]
    BY <1>1, <1>2
  <1>5. ASSUME NEW k \in 1..Len(s \o t), k \notin 1..Len(s)
        PROVE  \E j \in 1..Len(t) : k = Len(s) + j
    <2>1. k - Len(s) \in 1..Len(t) /\ k = Len(s) + (k - Len(s))
      BY <1>1, <1>2, <1>5
    <2> QED
      BY <2>1
  <1> QED
    BY <1>1, <1>2, <1>3, <1>4, <1>5

LEMMA SingleItem ==
    ASSUME NEW m \in Items
    PROVE  <<m>> \in Seq(Items) /\ Len(<<m>>) = 1 /\ <<m>>[1] = m
  OBVIOUS

\* The two inclusions of InOrder.
LEMMA InOrderMeans ==
    ASSUME NEW s, NEW a, NEW b
    PROVE  InOrder(s, a, b) <=>
              /\ \A j, k \in Data(s) : j < k => s[j].n < s[k].n
              /\ \A k \in Data(s) : s[k].n \in (a + 1)..b
              /\ \A m \in (a + 1)..b : \E k \in Data(s) : s[k].n = m
  <1> DEFINE D == Data(s)
             R == (a + 1)..b
  <1> HIDE DEF D, R
  <1>1. {s[k].n : k \in D} = R <=> /\ \A k \in D : s[k].n \in R
                                   /\ \A m \in R : \E k \in D : s[k].n = m
    <2>1. ASSUME {s[k].n : k \in D} = R
          PROVE  /\ \A k \in D : s[k].n \in R
                 /\ \A m \in R : \E k \in D : s[k].n = m
      <3>1. \A m : m \in R <=> \E k \in D : s[k].n = m
        BY <2>1, Zenon
      <3> QED
        BY <3>1
    <2>2. ASSUME \A k \in D : s[k].n \in R,
                 \A m \in R : \E k \in D : s[k].n = m
          PROVE  {s[k].n : k \in D} = R
      BY <2>2
    <2> QED
      BY <2>1, <2>2
  <1> QED
    BY <1>1 DEF InOrder, D, R

\* Bytes behind bytes.
LEMMA InOrderJoined ==
    ASSUME NEW s \in Seq(Items), NEW t \in Seq(Items),
           NEW a \in Nat, NEW b \in Nat, NEW c \in Nat, a <= b, b <= c,
           InOrder(s, a, b), InOrder(t, b, c)
    PROVE  InOrder(s \o t, a, c)
  <1> DEFINE u == s \o t
  <1>1. /\ Len(s) \in Nat /\ Len(t) \in Nat /\ Len(u) = Len(s) + Len(t)
        /\ \A k \in 1..Len(s) : u[k] = s[k]
        /\ \A k \in 1..Len(t) : u[Len(s) + k] = t[k]
        /\ \A k \in 1..Len(u) : k \in 1..Len(s) \/ \E j \in 1..Len(t) : k = Len(s) + j
    BY Joined2
  <1> HIDE DEF u
  <1>2. \A k \in Data(s) : k \in Data(u) /\ u[k] = s[k] /\ s[k].n \in (a + 1)..b
    BY <1>1 DEF Data, InOrder
  <1>3. \A k \in Data(t) : /\ Len(s) + k \in Data(u) /\ u[Len(s) + k] = t[k]
                           /\ t[k].n \in (b + 1)..c
    BY <1>1 DEF Data, InOrder
  <1>4. ASSUME NEW k \in Data(u)
        PROVE  k \in Data(s) \/ \E j \in Data(t) : k = Len(s) + j
    <2>1. CASE k \in 1..Len(s)
      BY <2>1, <1>1 DEF Data
    <2>2. ASSUME NEW j \in 1..Len(t), k = Len(s) + j PROVE j \in Data(t)
      BY <2>2, <1>1 DEF Data
    <2> QED
      BY <2>1, <2>2, <1>1 DEF Data
  <1>5. ASSUME NEW j \in Data(u), NEW k \in Data(u), j < k
        PROVE  u[j].n < u[k].n
    <2>1. CASE j \in Data(s) /\ k \in Data(s)
      BY <2>1, <1>2, <1>5 DEF InOrder
    <2>2. ASSUME j \in Data(s), NEW q \in Data(t), k = Len(s) + q PROVE u[j].n < u[k].n
      <3>1. u[j].n \in (a + 1)..b
        BY <2>2, <1>2
      <3>2. u[k].n \in (b + 1)..c
        BY <2>2, <1>3
      <3> QED
        BY <3>1, <3>2
    <2>3. ASSUME NEW p \in Data(t), j = Len(s) + p, NEW q \in Data(t), k = Len(s) + q
          PROVE u[j].n < u[k].n
      <3>1. p < q
        BY <2>3, <1>1, <1>5 DEF Data
      <3> QED
        BY <3>1, <2>3, <1>3 DEF InOrder
    <2>4. ASSUME NEW p \in Data(t), j = Len(s) + p, k \in Data(s) PROVE FALSE
      BY <2>4, <1>1, <1>5 DEF Data
    <2> QED
      BY <1>4, <2>1, <2>2, <2>3, <2>4
  <1>6. ASSUME NEW m \in (a + 1)..c PROVE \E k \in Data(u) : u[k].n = m
    <2>1. CASE m <= b
      <3>1. \E k \in Data(s) : s[k].n = m
        BY <2>1, InOrderMeans
      <3> QED
        BY <3>1, <1>2
    <2>2. CASE m > b
      <3>1. m \in (b + 1)..c
        BY <2>2
      <3>2. PICK k \in Data(t) : t[k].n = m
        BY <3>1, InOrderMeans
      <3> QED
        BY <3>2, <1>3
    <2> QED
      BY <2>1, <2>2
  <1>7. ASSUME NEW k \in Data(u) PROVE u[k].n \in (a + 1)..c
    <2>1. CASE k \in Data(s)
      BY <2>1, <1>2
    <2>2. ASSUME NEW j \in Data(t), k = Len(s) + j PROVE u[k].n \in (a + 1)..c
      BY <2>2, <1>3
    <2> QED
      BY <1>4, <2>1, <2>2
  <1> QED
    BY <1>5, <1>6, <1>7, InOrderMeans DEF u

LEMMA ConsecutiveInOrder ==
    ASSUME NEW s \in Seq(Items), NEW a \in Nat, Consecutive(s, a)
    PROVE  InOrder(s, a, a + Len(s))
  <1>1. Len(s) \in Nat
    BY LenProperties
  <1>2. Data(s) = 1..Len(s)
    BY DEF Data, Consecutive
  <1>3. ASSUME NEW m \in (a + 1)..(a + Len(s)) PROVE \E k \in Data(s) : s[k].n = m
    <2>1. m - a \in 1..Len(s) /\ a + (m - a) = m
      BY <1>1
    <2> QED
      BY <2>1, <1>2 DEF Consecutive
  <1>4. \A j, k \in Data(s) : j < k => s[j].n < s[k].n
    BY <1>1, <1>2 DEF Consecutive
  <1>5. \A k \in Data(s) : s[k].n \in (a + 1)..(a + Len(s))
    BY <1>1, <1>2 DEF Consecutive
  <1> QED
    BY <1>3, <1>4, <1>5, InOrderMeans

LEMMA MarkInOrder ==
    ASSUME NEW m \in Items, m.part \notin Parts, NEW a \in Nat
    PROVE  InOrder(<<m>>, a, a)
  <1>1. Data(<<m>>) = {}
    BY SingleItem DEF Data
  <1> QED
    BY <1>1 DEF InOrder

LEMMA ConsecutiveJoined ==
    ASSUME NEW s \in Seq(Items), NEW t \in Seq(Items), NEW a \in Nat,
           Consecutive(s, a), Consecutive(t, a + Len(s))
    PROVE  Consecutive(s \o t, a)
  <1> DEFINE u == s \o t
  <1>1. /\ Len(s) \in Nat /\ Len(t) \in Nat /\ Len(u) = Len(s) + Len(t)
        /\ \A k \in 1..Len(s) : u[k] = s[k]
        /\ \A k \in 1..Len(t) : u[Len(s) + k] = t[k]
        /\ \A k \in 1..Len(u) : k \in 1..Len(s) \/ \E j \in 1..Len(t) : k = Len(s) + j
    BY Joined2
  <1> HIDE DEF u
  <1>2. ASSUME NEW k \in 1..Len(u) PROVE u[k].part \in Parts /\ u[k].n = a + k
    <2>1. CASE k \in 1..Len(s)
      BY <2>1, <1>1 DEF Consecutive
    <2>2. ASSUME NEW j \in 1..Len(t), k = Len(s) + j PROVE u[k].part \in Parts /\ u[k].n = a + k
      BY <2>2, <1>1 DEF Consecutive
    <2> QED
      BY <1>1, <2>1, <2>2
  <1> QED
    BY <1>2 DEF Consecutive, u

LEMMA HeaderBytesJoined ==
    ASSUME NEW s \in Seq(Items), NEW t \in Seq(Items), HeaderBytes(s), HeaderBytes(t)
    PROVE  HeaderBytes(s \o t)
  <1> DEFINE u == s \o t
  <1>1. /\ Len(s) \in Nat /\ Len(t) \in Nat /\ Len(u) = Len(s) + Len(t)
        /\ \A k \in 1..Len(s) : u[k] = s[k]
        /\ \A k \in 1..Len(t) : u[Len(s) + k] = t[k]
        /\ \A k \in 1..Len(u) : k \in 1..Len(s) \/ \E j \in 1..Len(t) : k = Len(s) + j
    BY Joined2
  <1> HIDE DEF u
  <1>2. ASSUME NEW k \in Data(u) PROVE u[k].part = "header" <=> u[k].n <= headerLen
    <2>1. CASE k \in 1..Len(s)
      BY <2>1, <1>1 DEF Data, HeaderBytes
    <2>2. ASSUME NEW j \in 1..Len(t), k = Len(s) + j
          PROVE  u[k].part = "header" <=> u[k].n <= headerLen
      BY <2>2, <1>1 DEF Data, HeaderBytes
    <2> QED
      BY <1>1, <2>1, <2>2 DEF Data
  <1> QED
    BY <1>2 DEF HeaderBytes, u

LEMMA HeaderBytesMark ==
    ASSUME NEW m \in Items, m.part \notin Parts
    PROVE  HeaderBytes(<<m>>)
  BY SingleItem DEF HeaderBytes, Data

\* The first k items of s, and the rest.
LEMMA Cut2 ==
    ASSUME NEW T, NEW s \in Seq(T), NEW k \in 0..Len(s)
    PROVE  /\ SubSeq(s, 1, k) \in Seq(T) /\ Len(SubSeq(s, 1, k)) = k
           /\ \A j \in 1..k : SubSeq(s, 1, k)[j] = s[j]
           /\ SubSeq(s, k + 1, Len(s)) \in Seq(T)
           /\ Len(SubSeq(s, k + 1, Len(s))) = Len(s) - k
           /\ \A j \in 1..(Len(s) - k) : SubSeq(s, k + 1, Len(s))[j] = s[k + j]
  <1>1. Len(s) \in Nat
    BY LenProperties
  <1>2. \A i \in 1..Len(s) : s[i] \in T
    BY ElementOfSeq
  <1>3. /\ SubSeq(s, 1, k) \in Seq(T) /\ Len(SubSeq(s, 1, k)) = IF 1 <= k THEN k - 1 + 1 ELSE 0
        /\ \A i \in 1..(k - 1 + 1) : SubSeq(s, 1, k)[i] = s[1 + i - 1]
    BY <1>1, <1>2, SubSeqProperties
  <1>4. /\ SubSeq(s, k + 1, Len(s)) \in Seq(T)
        /\ Len(SubSeq(s, k + 1, Len(s))) = IF k + 1 <= Len(s) THEN Len(s) - (k + 1) + 1 ELSE 0
        /\ \A i \in 1..(Len(s) - (k + 1) + 1) : SubSeq(s, k + 1, Len(s))[i] = s[(k + 1) + i - 1]
    BY <1>1, <1>2, SubSeqProperties
  <1>5. \A j \in 1..k : SubSeq(s, 1, k)[j] = s[j]
    BY <1>1, <1>3
  <1>6. \A j \in 1..(Len(s) - k) : SubSeq(s, k + 1, Len(s))[j] = s[k + j]
    BY <1>1, <1>4
  <1> QED
    BY <1>1, <1>3, <1>4, <1>5, <1>6

-----------------------------------------------------------------------------
(***************************************************************************)
(* What the socket has after a flush.                                      *)
(***************************************************************************)
\* The bytes of a string.
LEMMA BytesMade ==
    ASSUME NEW part \in Parts, NEW k \in Nat, written \in Nat
    PROVE  /\ Bytes(part, k) \in Seq([part : Parts, n : 1..(written + k)])
           /\ Bytes(part, k) \in Seq(Items)
           /\ Len(Bytes(part, k)) = k
           /\ Consecutive(Bytes(part, k), written)
           /\ \A j \in 1..k : Bytes(part, k)[j] = Byte(part, written + j)
  <1> DEFINE s == Bytes(part, k)
             S == [part : Parts, n : 1..(written + k)]
  <1>1. \A j \in 1..k : Byte(part, written + j) \in S
    BY DEF Byte
  <1>2. s = [j \in 1..k |-> Byte(part, written + j)]
    BY DEF Bytes
  <1>3. s \in [1..k -> S]
    BY <1>1, <1>2
  <1>4. s \in Seq(S) /\ Len(s) = k
    <2> HIDE DEF s, S
    <2> QED
      BY <1>3
  <1>5. \A j \in 1..k : s[j] = Byte(part, written + j)
    BY <1>2
  <1>6. S \subseteq Items
    BY DEF Items
  <1>7. s \in Seq(Items)
    <2> HIDE DEF s, S
    <2> QED
      BY <1>4, <1>6, SeqMonotonic
  <1>8. Consecutive(s, written)
    BY <1>4, <1>5 DEF Consecutive, Byte
  <1> QED
    BY <1>4, <1>5, <1>7, <1>8

LEMMA MarksAreItems ==
    /\ \A n \in Nat : Size(n) \in Items /\ Size(n).part \notin Parts
    /\ Crlf \in Items /\ Crlf.part \notin Parts
    /\ LastChunk \in Items /\ LastChunk.part \notin Parts
  BY DEF Items, Size, Crlf, LastChunk, Parts

\* A flush sends what it is given, with its marks or without.
LEMMA FlushedItems ==
    ASSUME wire \in Seq(Items), NEW b \in Seq(Items)
    PROVE  Flushed(b) \in Seq(Items)
  <1>1. Len(b) \in Nat
    BY LenProperties
  <1>2. <<Size(Len(b))>> \in Seq(Items) /\ <<Crlf>> \in Seq(Items)
    BY <1>1, MarksAreItems, SingleItem
  <1>3. wire \o b \in Seq(Items)
    BY ConcatProperties
  <1>4. wire \o <<Size(Len(b))>> \o b \o <<Crlf>> \in Seq(Items)
    BY <1>2, ConcatProperties
  <1> QED
    BY <1>3, <1>4 DEF Flushed

LEMMA FlushedInOrder ==
    ASSUME wire \in Seq(Items), NEW b \in Seq(Items), NEW a \in Nat,
           InOrder(wire, 0, a), Consecutive(b, a)
    PROVE  InOrder(Flushed(b), 0, a + Len(b))
  <1>1. Len(b) \in Nat
    BY LenProperties
  <1>2. InOrder(b, a, a + Len(b))
    BY ConsecutiveInOrder
  <1>3. InOrder(wire \o b, 0, a + Len(b))
    BY <1>1, <1>2, InOrderJoined
  <1>4. /\ <<Size(Len(b))>> \in Seq(Items) /\ <<Crlf>> \in Seq(Items)
        /\ InOrder(<<Size(Len(b))>>, a, a)
        /\ InOrder(<<Crlf>>, a + Len(b), a + Len(b))
    BY <1>1, MarksAreItems, SingleItem, MarkInOrder
  <1>5. wire \o <<Size(Len(b))>> \in Seq(Items) /\ InOrder(wire \o <<Size(Len(b))>>, 0, a)
    <2>1. wire \o <<Size(Len(b))>> \in Seq(Items)
      BY <1>4, ConcatProperties
    <2>2. 0 \in Nat /\ 0 <= a /\ a <= a
      OBVIOUS
    <2>3. InOrder(wire \o <<Size(Len(b))>>, 0, a)
      BY <1>4, <2>2, InOrderJoined
    <2> QED
      BY <2>1, <2>3
  <1>6. /\ wire \o <<Size(Len(b))>> \o b \in Seq(Items)
        /\ InOrder(wire \o <<Size(Len(b))>> \o b, 0, a + Len(b))
    <2> DEFINE u == wire \o <<Size(Len(b))>>
    <2>1. u \in Seq(Items) /\ InOrder(u, 0, a)
      BY <1>5
    <2> HIDE DEF u
    <2>2. u \o b \in Seq(Items) /\ InOrder(u \o b, 0, a + Len(b))
      BY <2>1, <1>1, <1>2, InOrderJoined, ConcatProperties
    <2> QED
      BY <2>2 DEF u
  <1>7. InOrder(wire \o <<Size(Len(b))>> \o b \o <<Crlf>>, 0, a + Len(b))
    <2> DEFINE u == wire \o <<Size(Len(b))>> \o b
    <2>1. u \in Seq(Items) /\ InOrder(u, 0, a + Len(b))
      BY <1>6
    <2> HIDE DEF u
    <2>2. 0 \in Nat /\ a + Len(b) \in Nat /\ 0 <= a + Len(b) /\ a + Len(b) <= a + Len(b)
      BY <1>1
    <2>3. InOrder(u \o <<Crlf>>, 0, a + Len(b))
      BY <2>1, <2>2, <1>4, InOrderJoined
    <2> QED
      BY <2>3 DEF u
  <1> QED
    BY <1>3, <1>7 DEF Flushed

LEMMA FlushedHeaderBytes ==
    ASSUME wire \in Seq(Items), NEW b \in Seq(Items), HeaderBytes(wire), HeaderBytes(b)
    PROVE  HeaderBytes(Flushed(b))
  <1>1. Len(b) \in Nat
    BY LenProperties
  <1>2. /\ <<Size(Len(b))>> \in Seq(Items) /\ <<Crlf>> \in Seq(Items)
        /\ HeaderBytes(<<Size(Len(b))>>) /\ HeaderBytes(<<Crlf>>)
    BY <1>1, MarksAreItems, SingleItem, HeaderBytesMark
  <1>3. HeaderBytes(wire \o b)
    BY HeaderBytesJoined
  <1>4. wire \o <<Size(Len(b))>> \in Seq(Items) /\ HeaderBytes(wire \o <<Size(Len(b))>>)
    BY <1>2, HeaderBytesJoined, ConcatProperties
  <1>5. /\ wire \o <<Size(Len(b))>> \o b \in Seq(Items)
        /\ HeaderBytes(wire \o <<Size(Len(b))>> \o b)
    BY <1>4, HeaderBytesJoined, ConcatProperties
  <1>6. HeaderBytes(wire \o <<Size(Len(b))>> \o b \o <<Crlf>>)
    BY <1>2, <1>5, HeaderBytesJoined
  <1> QED
    BY <1>3, <1>6 DEF Flushed

\* What is put behind the items of s leaves their frames as they are.
LEMMA FrameKept ==
    ASSUME NEW s \in Seq(Items), NEW u, Len(s) \in Nat, Len(u) \in Nat, Len(s) <= Len(u),
           \A j \in 1..Len(s) : u[j] = s[j],
           NEW k \in 1..Len(s)
    PROVE  /\ s[k].part = "size" /\ Frame(s, k) => Frame(u, k)
           /\ Inside(s, k) => Inside(u, k)
  <1>1. s[k] \in Items /\ u[k] = s[k]
    BY ElementOfSeq
  <1>2. PICK n \in Nat : n = s[k].n
    BY <1>1 DEF Items
  <1>3. ASSUME Frame(s, k) PROVE Frame(u, k)
    <2>1. n > 0 /\ k + n + 1 <= Len(s) /\ s[k + n + 1] = Crlf
      BY <1>2, <1>3 DEF Frame
    <2>2. \A j \in 1..n : s[k + j].part = "body"
      BY <1>2, <1>3 DEF Frame
    <2>3. \A j \in 1..n : u[k + j] = s[k + j]
      <3> SUFFICES ASSUME NEW j \in 1..n PROVE k + j \in 1..Len(s)
        OBVIOUS
      <3> QED
        BY <2>1
    <2>4. u[k + n + 1] = Crlf
      <3>1. k + n + 1 \in 1..Len(s)
        BY <2>1
      <3> QED
        BY <2>1, <3>1
    <2>5. \A j \in 1..n : u[k + j].part = "body"
      BY <2>2, <2>3
    <2>6. k + n + 1 <= Len(u)
      BY <2>1
    <2> QED
      BY <1>1, <1>2, <2>1, <2>4, <2>5, <2>6 DEF Frame
  <1>4. ASSUME Inside(s, k) PROVE Inside(u, k)
    BY <1>1, <1>4 DEF Inside, InFrame
  <1> QED
    BY <1>3, <1>4

\* A chunk behind the others.
LEMMA ChunkAppended ==
    ASSUME NEW s \in Seq(Items), NEW b \in Seq(Items), b # <<>>,
           \A k \in 1..Len(b) : b[k].part = "body",
           Sized(s), Open(s)
    PROVE  LET u == s \o <<Size(Len(b))>> \o b \o <<Crlf>>
           IN  Sized(u) /\ Open(u)
  <1> DEFINE s1 == s \o <<Size(Len(b))>>
             s2 == s1 \o b
             u == s2 \o <<Crlf>>
  <1>1. Len(s) \in Nat /\ Len(b) \in Nat /\ Len(b) > 0
    BY LenProperties, EmptySeq
  <1>2. /\ <<Size(Len(b))>> \in Seq(Items) /\ Len(<<Size(Len(b))>>) = 1
        /\ <<Size(Len(b))>>[1] = Size(Len(b))
        /\ <<Crlf>> \in Seq(Items) /\ Len(<<Crlf>>) = 1 /\ <<Crlf>>[1] = Crlf
    BY <1>1, MarksAreItems, SingleItem
  <1>3. /\ s1 \in Seq(Items) /\ Len(s1) = Len(s) + 1
        /\ \A k \in 1..Len(s) : s1[k] = s[k]
        /\ s1[Len(s) + 1] = Size(Len(b))
    BY <1>2, Joined2
  <1> HIDE DEF s1
  <1>4. /\ s2 \in Seq(Items) /\ Len(s2) = Len(s1) + Len(b)
        /\ \A k \in 1..Len(s1) : s2[k] = s1[k]
        /\ \A k \in 1..Len(b) : s2[Len(s1) + k] = b[k]
    BY <1>3, Joined2
  <1> HIDE DEF s2
  <1>5. /\ Len(u) = Len(s2) + 1
        /\ \A k \in 1..Len(s2) : u[k] = s2[k]
        /\ u[Len(s2) + 1] = Crlf
    BY <1>2, <1>4, Joined2
  <1> HIDE DEF u
  <1>6. /\ Len(u) = Len(s) + Len(b) + 2
        /\ \A k \in 1..Len(s) : u[k] = s[k]
        /\ u[Len(s) + 1] = Size(Len(b))
        /\ \A k \in 1..Len(b) : u[Len(s) + 1 + k] = b[k]
        /\ u[Len(s) + Len(b) + 2] = Crlf
    <2>1. \A k \in 1..Len(s) : u[k] = s[k]
      BY <1>1, <1>3, <1>4, <1>5
    <2>2. u[Len(s) + 1] = Size(Len(b))
      BY <1>1, <1>3, <1>4, <1>5
    <2>3. ASSUME NEW k \in 1..Len(b) PROVE u[Len(s) + 1 + k] = b[k]
      <3>1. Len(s1) + k \in 1..Len(s2) /\ Len(s1) + k = Len(s) + 1 + k
        BY <1>1, <1>3, <1>4
      <3> QED
        BY <3>1, <1>4, <1>5
    <2> QED
      BY <2>1, <2>2, <2>3, <1>1, <1>3, <1>4, <1>5
  <1>7. u[Len(s) + 1].part = "size" /\ u[Len(s) + 1].n = Len(b)
    BY <1>6 DEF Size
  <1>8. Sized(u)
    <2> SUFFICES ASSUME NEW k \in 1..Len(u), u[k].part = "size"
                 PROVE  Frame(u, k)
      BY DEF Sized
    <2>1. CASE k \in 1..Len(s)
      <3>1. s[k].part = "size" /\ Frame(s, k)
        BY <2>1, <1>6 DEF Sized
      <3> QED
        BY <2>1, <3>1, <1>1, <1>6, FrameKept
    <2>2. CASE k = Len(s) + 1
      BY <2>2, <1>1, <1>6, <1>7 DEF Frame
    <2>3. ASSUME NEW j \in 1..Len(b), k = Len(s) + 1 + j PROVE FALSE
      BY <2>3, <1>6
    <2>4. CASE k = Len(s) + Len(b) + 2
      BY <2>4, <1>6 DEF Crlf
    <2>5. ASSUME k > Len(s) + 1, k < Len(s) + Len(b) + 2 PROVE FALSE
      <3>1. k - (Len(s) + 1) \in 1..Len(b) /\ k = Len(s) + 1 + (k - (Len(s) + 1))
        BY <2>5, <1>1
      <3> QED
        BY <3>1, <2>3
    <2>6. k \in 1..(Len(s) + Len(b) + 2)
      BY <1>6
    <2>7. \/ k \in 1..Len(s) \/ k = Len(s) + 1
          \/ k > Len(s) + 1 /\ k < Len(s) + Len(b) + 2
          \/ k = Len(s) + Len(b) + 2
      BY <2>6, <1>1
    <2> QED
      BY <2>1, <2>2, <2>4, <2>5, <2>7
  <1>9. Open(u)
    <2> SUFFICES ASSUME NEW k \in 1..Len(u)
                 PROVE  Inside(u, k)
      BY DEF Open
    <2>1. CASE k \in 1..Len(s)
      BY <2>1, <1>1, <1>6, FrameKept DEF Open
    <2>2. CASE k = Len(s) + 1
      BY <2>2, <1>7 DEF Inside
    <2>3. CASE k > Len(s) + 1
      <3>1. Len(s) + 1 \in 1..(k - 1) /\ k <= Len(s) + 1 + Len(b) + 1
        BY <2>3, <1>1, <1>6
      <3> QED
        BY <3>1, <1>7 DEF Inside, InFrame
    <2>4. k \in 1..(Len(s) + Len(b) + 2)
      BY <1>6
    <2>5. k \in 1..Len(s) \/ k = Len(s) + 1 \/ k > Len(s) + 1
      BY <2>4, <1>1
    <2> QED
      BY <2>1, <2>2, <2>3, <2>5
  <1> QED
    BY <1>8, <1>9 DEF u, s2, s1

\* The last chunk ends it.
LEMMA LastAppended ==
    ASSUME NEW s \in Seq(Items), Sized(s), Open(s)
    PROVE  Sized(s \o <<LastChunk>>) /\ Ended(s \o <<LastChunk>>)
  <1> DEFINE u == s \o <<LastChunk>>
  <1>1. <<LastChunk>> \in Seq(Items) /\ Len(<<LastChunk>>) = 1 /\ <<LastChunk>>[1] = LastChunk
    BY MarksAreItems, SingleItem
  <1>2. /\ Len(s) \in Nat /\ u \in Seq(Items) /\ Len(u) = Len(s) + 1
        /\ \A k \in 1..Len(s) : u[k] = s[k]
        /\ u[Len(s) + 1] = LastChunk
    BY <1>1, Joined2
  <1> HIDE DEF u
  <1>3. Sized(u)
    <2> SUFFICES ASSUME NEW k \in 1..Len(u), u[k].part = "size"
                 PROVE  Frame(u, k)
      BY DEF Sized
    <2>1. k \in 1..Len(s)
      BY <1>2 DEF LastChunk
    <2>2. s[k].part = "size" /\ Frame(s, k)
      BY <2>1, <1>2 DEF Sized
    <2> QED
      BY <2>1, <2>2, <1>2, FrameKept
  <1>4. ASSUME NEW k \in 1..Len(u) PROVE Inside(u, k) \/ (u[k] = LastChunk /\ k = Len(u))
    <2>1. CASE k \in 1..Len(s)
      BY <2>1, <1>2, FrameKept DEF Open
    <2> QED
      BY <2>1, <1>2
  <1>5. u # <<>> /\ u[Len(u)] = LastChunk
    BY <1>2, EmptySeq
  <1> QED
    BY <1>3, <1>4, <1>5 DEF Ended, u

-----------------------------------------------------------------------------
(***************************************************************************)
(* What a step does to the buffer and the socket: it leaves them alone, or *)
(* writes a header or a string, or one turn of the loop that puts the      *)
(* string into the buffer, or sends the buffer and some bytes behind it,   *)
(* or it is one of HeaderEnd, PlainHeader and CleanUp.                     *)
(***************************************************************************)
Closing == pc \in {"close", "closed"}

Quiet ==
    /\ UNCHANGED <<buf, wire, str, written, headerVars>>
    /\ chunked' \in BOOLEAN /\ (chunked' = chunked \/ headers = 0)
    /\ ~InHeader /\ ~InHeader' /\ (Closing' <=> Closing)

NewHeader ==
    /\ headers = 0 /\ headers' = 1
    /\ \E k \in 1..MaxHeader : Put("header", k) /\ headerLen' = k
    /\ announced' = chunked
    /\ UNCHANGED <<buf, wire, chunked>>
    /\ pc' = "put" /\ ret' = "header_end"

NewString ==
    /\ headers = 1 /\ str = <<>>
    /\ \E k \in Nat : Put("body", k)
    /\ UNCHANGED <<buf, wire, chunked, headerVars>>
    /\ ~InHeader /\ ~InHeader' /\ ~Closing /\ ~Closing'

Cut ==
    /\ pc = "put" /\ headers = 1
    /\ PutFull
    /\ UNCHANGED <<pc, ret, headerVars>>

Fit ==
    /\ pc = "put" /\ pc' = ret /\ headers = 1
    /\ PutRest
    /\ UNCHANGED <<ret, headerVars>>
    /\ ~Closing' /\ (InHeader' <=> InHeader) /\ pc' # "put"

Sent ==
    /\ headers = 1 /\ str = <<>>
    /\ \E k \in Nat : /\ wire' = Flushed(buf \o Bytes("body", k))
                      /\ written' = written + k
    /\ buf' = <<>>
    /\ UNCHANGED <<chunked, str, headerVars>>
    /\ ~InHeader /\ ~InHeader' /\ ~Closing /\ ~Closing'

Kind == Quiet \/ NewHeader \/ NewString \/ Cut \/ Fit \/ Sent \/ HeaderEnd \/ PlainHeader \/ CleanUp

LEMMA BuffersAreItems ==
    ASSUME TypeOK
    PROVE  wire \in Seq(Items) /\ buf \in Seq(Items) /\ str \in Seq(Items) /\ written \in Nat
  <1>1. written \in Nat
    BY DEF TypeOK, BufTypeOK
  <1>2. /\ [part : Parts, n : 1..written] \subseteq Items
        /\ [part : Parts \cup {"size", "crlf", "last"}, n : 0..written] \subseteq Items
    BY <1>1 DEF Items
  <1> QED
    BY <1>1, <1>2, SeqMonotonic DEF TypeOK, BufTypeOK

LEMMA StepKind ==
    ASSUME TypeOK, Calls, Counted, Next
    PROVE  Kind
  <1> USE DEF Calls, Counted, InHeader, Closing, Goto, Once
  <1>1. ASSUME PutTurn PROVE Kind
    <2>1. Cut
      BY <1>1, ReplyAssumption, SendBufferAssumption DEF Cut, PutTurn, PutFull, headerVars
    <2> QED
      BY <2>1 DEF Kind
  <1>2. ASSUME PutReturn PROVE Kind
    <2>1. Fit
      BY <1>2, ReplyAssumption, SendBufferAssumption DEF Fit, PutReturn, Goto, headerVars
    <2> QED
      BY <2>1 DEF Kind
  <1>3. ASSUME HeaderEnd PROVE Kind
    BY <1>3 DEF Kind
  <1>4. ASSUME InfoBody PROVE Kind
    <2>1. NewString
      BY <1>4, ReplyAssumption, SendBufferAssumption DEF NewString, InfoBody, String, headerFrame, headerVars, Room
    <2> QED
      BY <2>1 DEF Kind
  <1>5. ASSUME ReplyError PROVE Kind
    <2>1. NewHeader
      BY <1>5, ReplyAssumption, SendBufferAssumption DEF NewHeader, ReplyError, ErrorInfo, Header, headerFrame
    <2> QED
      BY <2>1 DEF Kind
  <1>6. ASSUME MethodNotAllowed PROVE Kind
    <2>1. NewHeader
      BY <1>6, ReplyAssumption, SendBufferAssumption DEF NewHeader, MethodNotAllowed, Header, headerFrame
    <2> QED
      BY <2>1 DEF Kind
  <1>7. ASSUME StartPage PROVE Kind
    <2>1. Quiet
      BY <1>7, ReplyAssumption, SendBufferAssumption DEF Quiet, StartPage, bufVars, headerVars, TypeOK, BufTypeOK
    <2> QED
      BY <2>1 DEF Kind
  <1>8. ASSUME EmbeddedHeader PROVE Kind
    <2>1. NewHeader
      BY <1>8, ReplyAssumption, SendBufferAssumption DEF NewHeader, EmbeddedHeader, Header, headerFrame
    <2> QED
      BY <2>1 DEF Kind
  <1>9. ASSUME OpenFile PROVE Kind
    <2>1. Quiet
      BY <1>9, ReplyAssumption, SendBufferAssumption DEF Quiet, OpenFile, bufVars, headerVars, TypeOK, BufTypeOK
    <2> QED
      BY <2>1 DEF Kind
  <1>10. ASSUME OpenPage PROVE Kind
    <2>1. Quiet
      BY <1>10, ReplyAssumption, SendBufferAssumption DEF Quiet, OpenPage, bufVars, headerVars, TypeOK, BufTypeOK
    <2> QED
      BY <2>1 DEF Kind
  <1>11. ASSUME NoLuaState PROVE Kind
    <2>1. NewHeader
      BY <1>11, ReplyAssumption, SendBufferAssumption DEF NewHeader, NoLuaState, Header, headerFrame
    <2> QED
      BY <2>1 DEF Kind
  <1>12. ASSUME LoadPage PROVE Kind
    <2>1. Quiet
      BY <1>12, ReplyAssumption, SendBufferAssumption DEF Quiet, LoadPage, bufVars, headerVars, TypeOK, BufTypeOK
    <2> QED
      BY <2>1 DEF Kind
  <1>13. ASSUME EmbeddedData PROVE Kind
    <2>1. PICK k \in Room(1) : Direct(k)
      BY <1>13 DEF EmbeddedData
    <2>2. k \in Nat /\ written \in Nat
      BY SendBufferAssumption, BuffersAreItems DEF Room
    <2>3. Bytes("body", k) \in Seq(Items) /\ wire \in Seq(Items) /\ buf \in Seq(Items)
      BY <2>2, BytesMade, BuffersAreItems DEF Parts
    <2>4. ~chunked
      BY <1>13 DEF EmbeddedData
    <2>5. wire' = (wire \o buf) \o Bytes("body", k)
      BY <2>1, <2>4 DEF Direct, Flushed
    <2>6. (wire \o buf) \o Bytes("body", k) = wire \o (buf \o Bytes("body", k))
      BY <2>3, ConcatAssociative
    <2>7. wire' = Flushed(buf \o Bytes("body", k))
      BY <2>4, <2>5, <2>6 DEF Flushed
    <2>8. Sent
      BY <1>13, <2>1, <2>2, <2>7 DEF Sent, EmbeddedData, Direct, headerVars
    <2> QED
      BY <2>8 DEF Kind
  <1>14. ASSUME PlainHeader PROVE Kind
    BY <1>14 DEF Kind
  <1>15. ASSUME PlainBlock PROVE Kind
    <2>1. PICK k \in Room(BufSize) \ {0} : wire' = wire \o Bytes("body", k) /\ written' = written + k
      BY <1>15 DEF PlainBlock
    <2>2. k \in Nat /\ written \in Nat
      BY SendBufferAssumption, BuffersAreItems DEF Room
    <2>3. Bytes("body", k) \in Seq(Items)
      BY <2>2, BytesMade DEF Parts
    <2>4. ~chunked /\ buf = <<>>
      BY <1>15 DEF PlainBlock
    <2>5. <<>> \o Bytes("body", k) = Bytes("body", k)
      BY <2>3, ConcatEmptySeq
    <2>6. wire' = Flushed(buf \o Bytes("body", k))
      BY <2>1, <2>4, <2>5 DEF Flushed
    <2>7. Sent
      BY <1>15, <2>1, <2>2, <2>4, <2>6 DEF Sent, PlainBlock, headerVars
    <2> QED
      BY <2>7 DEF Kind
  <1>16. ASSUME PlainEnd PROVE Kind
    <2>1. Quiet
      BY <1>16, ReplyAssumption, SendBufferAssumption DEF Quiet, PlainEnd, CloseFile, bufVars, headerVars, TypeOK, BufTypeOK
    <2> QED
      BY <2>1 DEF Kind
  <1>17. ASSUME DeflateInitFails PROVE Kind
    <2>1. NewHeader
      BY <1>17, ReplyAssumption, SendBufferAssumption DEF NewHeader, DeflateInitFails, Header, headerFrame
    <2> QED
      BY <2>1 DEF Kind
  <1>18. ASSUME DeflateInit PROVE Kind
    <2>1. Quiet
      BY <1>18, ReplyAssumption, SendBufferAssumption DEF Quiet, DeflateInit, bufVars, headerVars, TypeOK, BufTypeOK
    <2> QED
      BY <2>1 DEF Kind
  <1>19. ASSUME DeflateHeader PROVE Kind
    <2>1. NewHeader
      BY <1>19, ReplyAssumption, SendBufferAssumption DEF NewHeader, DeflateHeader, Header, headerFrame
    <2> QED
      BY <2>1 DEF Kind
  <1>20. ASSUME DeflateFlush PROVE Kind
    <2>1. Bytes("body", 0) = <<>> /\ buf \o <<>> = buf /\ written + 0 = written
      <3>1. Bytes("body", 0) \in Seq(Items) /\ Len(Bytes("body", 0)) = 0
        BY BytesMade, BuffersAreItems DEF Parts
      <3> QED
        BY <3>1, EmptySeq, ConcatEmptySeq, BuffersAreItems
    <2>2. wire' = Flushed(buf \o Bytes("body", 0)) /\ written' = written + 0
      BY <1>20, <2>1 DEF DeflateFlush, Flush
    <2>3. Sent
      BY <1>20, <2>2 DEF Sent, DeflateFlush, Flush, headerVars
    <2> QED
      BY <2>3 DEF Kind
  <1>21. ASSUME DeflateTurn PROVE Kind
    <2>1. CASE UNCHANGED <<wire, buf, written>>
      <3>1. Quiet
        BY <1>21, <2>1 DEF Quiet, DeflateTurn, headerVars, TypeOK, BufTypeOK
      <3> QED
        BY <3>1 DEF Kind
    <2>2. CASE \E k \in 0..(BufSize - stream_out) :
                  /\ wire' = Flushed(Bytes("body", stream_out + k))
                  /\ buf' = <<>>
                  /\ written' = written + (stream_out + k)
      <3>1. PICK k \in 0..(BufSize - stream_out) :
                  /\ wire' = Flushed(Bytes("body", stream_out + k))
                  /\ buf' = <<>>
                  /\ written' = written + (stream_out + k)
        BY <2>2
      <3>2. stream_out + k \in Nat /\ written \in Nat
        BY SendBufferAssumption, BuffersAreItems DEF TypeOK
      <3>3. <<>> \o Bytes("body", stream_out + k) = Bytes("body", stream_out + k)
        BY <3>2, BytesMade, ConcatEmptySeq DEF Parts
      <3>4. wire' = Flushed(buf \o Bytes("body", stream_out + k))
        BY <1>21, <3>1, <3>3 DEF DeflateTurn
      <3>5. Sent
        BY <1>21, <3>1, <3>2, <3>4 DEF Sent, DeflateTurn, headerVars
      <3> QED
        BY <3>5 DEF Kind
    <2> QED
      BY <1>21, <2>1, <2>2 DEF DeflateTurn
  <1>22. ASSUME DeflateEnd PROVE Kind
    <2>1. Quiet
      BY <1>22, ReplyAssumption, SendBufferAssumption DEF Quiet, DeflateEnd, CloseFile, bufVars, headerVars, TypeOK, BufTypeOK
    <2> QED
      BY <2>1 DEF Kind
  <1>23. ASSUME PageNotThere PROVE Kind
    <2>1. NewHeader
      BY <1>23, ReplyAssumption, SendBufferAssumption DEF NewHeader, PageNotThere, ErrorInfo, Header, headerFrame
    <2> QED
      BY <2>1 DEF Kind
  <1>24. ASSUME LoadError PROVE Kind
    <2>1. CASE \E to : SendHeaders("load_failed", to)
      <3>1. NewHeader
        BY <2>1 DEF SendHeaders, NewHeader, Header, headerFrame
      <3> QED
        BY <3>1 DEF Kind
    <2>2. CASE headers_sent /\ \E to \in {"page", "page_end"} : String("load_failed", to) /\ UNCHANGED <<headerFrame, headerVars>>
      <3>1. NewString
        BY <2>2, SendBufferAssumption DEF NewString, String, headerFrame, headerVars, Room
      <3> QED
        BY <3>1 DEF Kind
    <2>3. CASE headers_sent /\ pc = "load_failed" /\ pc' \in {"page_failed", "cleanup"} /\ UNCHANGED <<bufVars, headerVars>>
      <3>1. Quiet
        BY <2>3 DEF Quiet, bufVars, headerVars, TypeOK, BufTypeOK
      <3> QED
        BY <3>1 DEF Kind
    <2> QED
      BY <1>24, <2>1, <2>2, <2>3 DEF LoadError
  <1>25. ASSUME Echo PROVE Kind
    <2>1. CASE \E to : SendHeaders("page", to)
      <3>1. NewHeader
        BY <2>1 DEF SendHeaders, NewHeader, Header, headerFrame
      <3> QED
        BY <3>1 DEF Kind
    <2>2. CASE headers_sent /\ \E to \in {"page", "page_end"} : String("page", to) /\ UNCHANGED <<headerFrame, headerVars>>
      <3>1. NewString
        BY <2>2, SendBufferAssumption DEF NewString, String, headerFrame, headerVars, Room
      <3> QED
        BY <3>1 DEF Kind
    <2>3. CASE headers_sent /\ pc = "page" /\ pc' \in {"page_failed", "cleanup"} /\ UNCHANGED <<bufVars, headerVars>>
      <3>1. Quiet
        BY <2>3 DEF Quiet, bufVars, headerVars, TypeOK, BufTypeOK
      <3> QED
        BY <3>1 DEF Kind
    <2> QED
      BY <1>25, <2>1, <2>2, <2>3 DEF Echo
  <1>26. ASSUME CallError PROVE Kind
    <2>1. CASE \E to : SendHeaders("page", to)
      <3>1. NewHeader
        BY <2>1 DEF SendHeaders, NewHeader, Header, headerFrame
      <3> QED
        BY <3>1 DEF Kind
    <2>2. CASE headers_sent /\ \E to \in {"page", "page_end"} : String("page", to) /\ UNCHANGED <<headerFrame, headerVars>>
      <3>1. NewString
        BY <2>2, SendBufferAssumption DEF NewString, String, headerFrame, headerVars, Room
      <3> QED
        BY <3>1 DEF Kind
    <2>3. CASE headers_sent /\ pc = "page" /\ pc' \in {"page_failed", "cleanup"} /\ UNCHANGED <<bufVars, headerVars>>
      <3>1. Quiet
        BY <2>3 DEF Quiet, bufVars, headerVars, TypeOK, BufTypeOK
      <3> QED
        BY <3>1 DEF Kind
    <2> QED
      BY <1>26, <2>1, <2>2, <2>3 DEF CallError
  <1>27. ASSUME ErrorOutput PROVE Kind
    <2>1. NewString
      BY <1>27, ReplyAssumption, SendBufferAssumption DEF NewString, ErrorOutput, String, headerFrame, headerVars, Room
    <2> QED
      BY <2>1 DEF Kind
  <1>28. ASSUME ScriptEnds PROVE Kind
    <2>1. Quiet
      BY <1>28, ReplyAssumption, SendBufferAssumption DEF Quiet, ScriptEnds, bufVars, headerVars, TypeOK, BufTypeOK
    <2> QED
      BY <2>1 DEF Kind
  <1>29. ASSUME EndPage PROVE Kind
    <2>1. CASE \E to : SendHeaders("page_end", to)
      <3>1. NewHeader
        BY <2>1 DEF SendHeaders, NewHeader, Header, headerFrame
      <3> QED
        BY <3>1 DEF Kind
    <2>2. CASE headers_sent /\ \E to \in {"page", "page_end"} : String("page_end", to) /\ UNCHANGED <<headerFrame, headerVars>>
      <3>1. NewString
        BY <2>2, SendBufferAssumption DEF NewString, String, headerFrame, headerVars, Room
      <3> QED
        BY <3>1 DEF Kind
    <2>3. CASE headers_sent /\ pc = "page_end" /\ pc' \in {"page_failed", "cleanup"} /\ UNCHANGED <<bufVars, headerVars>>
      <3>1. Quiet
        BY <2>3 DEF Quiet, bufVars, headerVars, TypeOK, BufTypeOK
      <3> QED
        BY <3>1 DEF Kind
    <2> QED
      BY <1>29, <2>1, <2>2, <2>3 DEF EndPage
  <1>30. ASSUME CleanUp PROVE Kind
    BY <1>30 DEF Kind
  <1>31. ASSUME CloseSocket PROVE Kind
    <2>1. Quiet
      BY <1>31, ReplyAssumption, SendBufferAssumption DEF Quiet, CloseSocket, bufVars, headerVars, TypeOK, BufTypeOK
    <2> QED
      BY <2>1 DEF Kind
  <1> HIDE DEF Calls, Counted, InHeader, Closing, Goto, Once
  <1>32. ASSUME FirstStep PROVE Kind
    BY <1>32, <1>5, <1>6, <1>7, <1>8, <1>9 DEF FirstStep
  <1>33. ASSUME LoadStep PROVE Kind
    BY <1>33, <1>10, <1>11, <1>12 DEF LoadStep
  <1>34. ASSUME SendBufferStep PROVE Kind
    BY <1>34, <1>1, <1>2, <1>3, <1>4 DEF SendBufferStep
  <1>35. ASSUME StaticStep PROVE Kind
    BY <1>35, <1>13, <1>14, <1>15, <1>16, <1>17, <1>18, <1>19, <1>20, <1>21, <1>22 DEF StaticStep
  <1>36. ASSUME PageStep PROVE Kind
    BY <1>36, <1>23, <1>24, <1>25, <1>26, <1>27, <1>28, <1>29 DEF PageStep
  <1> QED
    BY <1>32, <1>33, <1>34, <1>35, <1>36, <1>30, <1>31 DEF Next, SendStep

-----------------------------------------------------------------------------
(***************************************************************************)
(* The types of the buffer and the socket, for each kind of step.          *)
(***************************************************************************)
BytesTo(w) == [part : Parts, n : 1..w]
ItemsTo(w) == [part : Parts \cup {"size", "crlf", "last"}, n : 0..w]

LEMMA TypesGrow ==
    ASSUME TypeOK, NEW w \in Nat, written <= w
    PROVE  wire \in Seq(ItemsTo(w)) /\ buf \in Seq(BytesTo(w)) /\ str \in Seq(BytesTo(w))
  <1>1. written \in Nat
    BY DEF TypeOK, BufTypeOK
  <1>2. BytesTo(written) \subseteq BytesTo(w) /\ ItemsTo(written) \subseteq ItemsTo(w)
    BY <1>1 DEF BytesTo, ItemsTo
  <1> QED
    BY <1>1, <1>2, SeqMonotonic DEF TypeOK, BufTypeOK, BytesTo, ItemsTo

LEMMA BytesAreItems ==
    ASSUME NEW w \in Nat, NEW b \in Seq(BytesTo(w))
    PROVE  b \in Seq(ItemsTo(w)) /\ b \in Seq(Items) /\ Len(b) \in Nat
  <1>1. BytesTo(w) \subseteq ItemsTo(w) /\ BytesTo(w) \subseteq Items
    BY DEF BytesTo, ItemsTo, Items
  <1> QED
    BY <1>1, SeqMonotonic, LenProperties

LEMMA FlushedTypes ==
    ASSUME NEW w \in Nat, wire \in Seq(ItemsTo(w)), NEW b \in Seq(BytesTo(w)), Len(b) <= w
    PROVE  Flushed(b) \in Seq(ItemsTo(w))
  <1>1. b \in Seq(ItemsTo(w)) /\ Len(b) \in Nat
    BY BytesAreItems
  <1>2. Size(Len(b)) \in ItemsTo(w) /\ Crlf \in ItemsTo(w)
    BY <1>1 DEF Size, Crlf, ItemsTo
  <1>3. <<Size(Len(b))>> \in Seq(ItemsTo(w)) /\ <<Crlf>> \in Seq(ItemsTo(w))
    BY <1>2
  <1>4. wire \o b \in Seq(ItemsTo(w))
    BY <1>1, ConcatProperties
  <1>5. wire \o <<Size(Len(b))>> \o b \o <<Crlf>> \in Seq(ItemsTo(w))
    BY <1>1, <1>3, ConcatProperties
  <1> QED
    BY <1>4, <1>5 DEF Flushed

\* A turn of the loop sends the buffer with what fits of the string.
LEMMA CutTurn ==
    ASSUME TypeOK, Ordered, PutFull
    PROVE  \E a, r \in Seq(BytesTo(written)) :
              /\ wire' = Flushed(buf \o a) /\ buf' = <<>> /\ str' = r
              /\ Len(a) \in Nat /\ Len(r) \in Nat /\ Len(a) + Len(r) = Len(str)
              /\ \A k \in 1..Len(a) : a[k] = str[k]
              /\ \A k \in 1..Len(r) : r[k] = str[Len(a) + k]
              /\ Consecutive(a, Gone + Len(buf))
              /\ Consecutive(r, Gone + Len(buf) + Len(a))
  <1> DEFINE a == SubSeq(str, 1, Avail)
             r == SubSeq(str, Avail + 1, Len(str))
             S == BytesTo(written)
  <1>1. str \in Seq(S) /\ Len(str) \in Nat /\ Len(buf) \in Nat /\ Len(buf) <= BufSize
    BY LenProperties, SendBufferAssumption DEF TypeOK, BufTypeOK, BytesTo
  <1>2. Avail \in 0..Len(str)
    BY <1>1, SendBufferAssumption DEF Avail, PutFull
  <1> HIDE DEF S
  <1>3. /\ a \in Seq(S) /\ Len(a) = Avail
        /\ \A j \in 1..Avail : a[j] = str[j]
        /\ r \in Seq(S) /\ Len(r) = Len(str) - Avail
        /\ \A j \in 1..(Len(str) - Avail) : r[j] = str[Avail + j]
    BY <1>1, <1>2, Cut2
  <1>4. wire' = Flushed(buf \o a) /\ buf' = <<>> /\ str' = r
    BY DEF PutFull
  <1> HIDE DEF a, r
  <1>5. Len(a) \in Nat /\ Len(r) \in Nat /\ Len(a) + Len(r) = Len(str)
    BY <1>1, <1>2, <1>3
  <1>6. /\ \A k \in 1..Len(a) : a[k] = str[k]
        /\ \A k \in 1..Len(r) : r[k] = str[Len(a) + k]
    BY <1>3
  <1>7. Gone \in Nat /\ Consecutive(str, Gone + Len(buf))
    BY DEF Ordered
  <1>8. Consecutive(a, Gone + Len(buf))
    BY <1>1, <1>5, <1>6, <1>7 DEF Consecutive
  <1>9. ASSUME NEW k \in 1..Len(r)
        PROVE  r[k].part \in Parts /\ r[k].n = Gone + Len(buf) + Len(a) + k
    <2>1. Len(a) + k \in 1..Len(str)
      BY <1>5
    <2>2. /\ str[Len(a) + k].part \in Parts
          /\ str[Len(a) + k].n = Gone + Len(buf) + (Len(a) + k)
      BY <2>1, <1>7 DEF Consecutive
    <2> QED
      BY <2>2, <1>1, <1>5, <1>6, <1>7
  <1>10. Consecutive(r, Gone + Len(buf) + Len(a))
    BY <1>9 DEF Consecutive
  <1> QED
    BY <1>3, <1>4, <1>5, <1>6, <1>8, <1>10 DEF S

LEMMA BufTypes ==
    ASSUME TypeOK, Ordered, Kind
    PROVE  BufTypeOK'
  <1>1. /\ written \in Nat /\ Len(str) \in Nat /\ Len(buf) \in Nat
        /\ Len(buf) <= BufSize /\ Len(buf) + Len(str) <= written
        /\ BufSize \in Nat /\ chunked \in BOOLEAN
    BY LenProperties, SendBufferAssumption DEF TypeOK, BufTypeOK, Ordered, Gone
  <1>2. <<>> \in Seq(BytesTo(written')) /\ Len(<<>>) = 0
    BY EmptySeq
  <1>3. ASSUME Quiet PROVE BufTypeOK'
    BY <1>3 DEF Quiet, TypeOK, BufTypeOK
  <1>4. ASSUME NEW part \in Parts, NEW k \in Nat, Put(part, k), UNCHANGED <<buf, wire, chunked>>
        PROVE  BufTypeOK'
    <2>1. written' \in Nat /\ written <= written' /\ written' = written + k
      BY <1>1, <1>4 DEF Put
    <2>2. wire \in Seq(ItemsTo(written')) /\ buf \in Seq(BytesTo(written'))
      BY <2>1, TypesGrow
    <2>3. str' \in Seq(BytesTo(written'))
      BY <1>1, <1>4, <2>1, BytesMade DEF Put, BytesTo
    <2> QED
      BY <1>1, <1>4, <2>1, <2>2, <2>3 DEF BufTypeOK, BytesTo, ItemsTo
  <1>5. ASSUME NewHeader PROVE BufTypeOK'
    BY <1>4, <1>5, ReplyAssumption DEF NewHeader, Parts
  <1>6. ASSUME NewString PROVE BufTypeOK'
    BY <1>4, <1>6 DEF NewString, Parts
  <1>7. ASSUME Cut PROVE BufTypeOK'
    <2>1. PutFull /\ written' = written /\ chunked' = chunked
      BY <1>7 DEF Cut, PutFull
    <2>2. PICK a, r \in Seq(BytesTo(written)) :
             /\ wire' = Flushed(buf \o a) /\ buf' = <<>> /\ str' = r
             /\ Len(a) \in Nat /\ Len(r) \in Nat /\ Len(a) + Len(r) = Len(str)
      BY <2>1, CutTurn
    <2>3. wire \in Seq(ItemsTo(written)) /\ buf \in Seq(BytesTo(written))
      BY <1>1, TypesGrow
    <2>4. buf \o a \in Seq(BytesTo(written)) /\ Len(buf \o a) = Len(buf) + Len(a)
      BY <2>2, <2>3, ConcatProperties
    <2>5. Flushed(buf \o a) \in Seq(ItemsTo(written))
      <3>1. Len(buf \o a) <= written
        BY <1>1, <2>2, <2>4
      <3> QED
        BY <1>1, <2>3, <2>4, <3>1, FlushedTypes
    <2> QED
      BY <1>1, <1>2, <2>1, <2>2, <2>5 DEF BufTypeOK, BytesTo, ItemsTo
  <1>8. ASSUME Fit PROVE BufTypeOK'
    <2>1. /\ buf' = buf \o str /\ str' = <<>> /\ UNCHANGED <<chunked, wire, written>>
          /\ Len(str) <= BufSize - Len(buf)
      BY <1>8 DEF Fit, PutRest, Avail
    <2>2. /\ wire \in Seq(ItemsTo(written)) /\ buf \in Seq(BytesTo(written))
          /\ str \in Seq(BytesTo(written))
      BY <1>1, TypesGrow
    <2>3. buf \o str \in Seq(BytesTo(written)) /\ Len(buf \o str) = Len(buf) + Len(str)
      BY <2>2, ConcatProperties
    <2> QED
      BY <1>1, <1>2, <2>1, <2>2, <2>3 DEF BufTypeOK, BytesTo, ItemsTo
  <1>9. ASSUME Sent PROVE BufTypeOK'
    <2>1. PICK k \in Nat : wire' = Flushed(buf \o Bytes("body", k)) /\ written' = written + k
      BY <1>9 DEF Sent
    <2>2. written' \in Nat /\ written <= written'
      BY <1>1, <2>1
    <2>3. wire \in Seq(ItemsTo(written')) /\ buf \in Seq(BytesTo(written'))
      BY <2>2, TypesGrow
    <2>4. Bytes("body", k) \in Seq(BytesTo(written')) /\ Len(Bytes("body", k)) = k
      BY <1>1, <2>1, BytesMade DEF BytesTo, Parts
    <2>5. /\ buf \o Bytes("body", k) \in Seq(BytesTo(written'))
          /\ Len(buf \o Bytes("body", k)) = Len(buf) + k
      BY <2>3, <2>4, ConcatProperties
    <2>6. Len(buf \o Bytes("body", k)) <= written'
      BY <1>1, <2>1, <2>5
    <2>7. wire' \in Seq(ItemsTo(written'))
      BY <2>1, <2>2, <2>3, <2>5, <2>6, FlushedTypes
    <2>8. buf' = <<>> /\ str' = <<>> /\ chunked' = chunked
      BY <1>9 DEF Sent
    <2> QED
      BY <1>1, <1>2, <2>2, <2>7, <2>8 DEF BufTypeOK, BytesTo, ItemsTo
  <1>10. ASSUME HeaderEnd PROVE BufTypeOK'
    <2>1. UNCHANGED <<chunked, str, written>>
      BY <1>10 DEF HeaderEnd
    <2>2. /\ wire \in Seq(ItemsTo(written)) /\ buf \in Seq(BytesTo(written))
          /\ str \in Seq(BytesTo(written))
      BY <1>1, TypesGrow
    <2>3. wire \o buf \in Seq(ItemsTo(written))
      BY <1>1, <2>2, BytesAreItems, ConcatProperties
    <2>4. CASE chunked
      <3>1. wire' = wire \o buf /\ buf' = <<>>
        BY <1>10, <2>4 DEF HeaderEnd, FlushInternal
      <3> QED
        BY <1>1, <1>2, <2>1, <2>2, <2>3, <3>1 DEF BufTypeOK, BytesTo, ItemsTo
    <2>5. CASE ~chunked
      BY <1>1, <1>10, <2>1, <2>2, <2>5 DEF HeaderEnd, BufTypeOK, BytesTo, ItemsTo
    <2> QED
      BY <2>4, <2>5
  <1>11. ASSUME PlainHeader PROVE BufTypeOK'
    <2>1. PICK k \in 1..MaxHeader : wire' = wire \o Bytes("header", k) /\ written' = written + k
      BY <1>11 DEF PlainHeader
    <2>2. k \in Nat /\ written' \in Nat /\ written <= written'
      BY <1>1, <2>1, ReplyAssumption
    <2>3. /\ wire \in Seq(ItemsTo(written')) /\ buf \in Seq(BytesTo(written'))
          /\ str \in Seq(BytesTo(written'))
      BY <2>2, TypesGrow
    <2>4. Bytes("header", k) \in Seq(BytesTo(written'))
      BY <1>1, <2>1, <2>2, BytesMade DEF BytesTo, Parts
    <2>5. wire' \in Seq(ItemsTo(written'))
      BY <2>1, <2>2, <2>3, <2>4, BytesAreItems, ConcatProperties
    <2>6. UNCHANGED <<buf, chunked, str>>
      BY <1>11 DEF PlainHeader
    <2> QED
      BY <1>1, <2>2, <2>3, <2>5, <2>6 DEF BufTypeOK, BytesTo, ItemsTo
  <1>12. ASSUME CleanUp PROVE BufTypeOK'
    <2>1. /\ UNCHANGED <<chunked, str, written>> /\ buf' = <<>>
          /\ wire' = Flushed(buf) \o IF chunked THEN <<LastChunk>> ELSE <<>>
      BY <1>12 DEF CleanUp, FlushLast
    <2>2. /\ wire \in Seq(ItemsTo(written)) /\ buf \in Seq(BytesTo(written))
          /\ str \in Seq(BytesTo(written))
      BY <1>1, TypesGrow
    <2>3. Flushed(buf) \in Seq(ItemsTo(written))
      BY <1>1, <2>2, FlushedTypes
    <2>4. <<LastChunk>> \in Seq(ItemsTo(written)) /\ <<>> \in Seq(ItemsTo(written))
      BY <1>1 DEF LastChunk, ItemsTo
    <2>5. wire' \in Seq(ItemsTo(written))
      BY <2>1, <2>3, <2>4, ConcatProperties
    <2> QED
      BY <1>1, <1>2, <2>1, <2>2, <2>5 DEF BufTypeOK, BytesTo, ItemsTo
  <1> QED
    BY <1>3, <1>5, <1>6, <1>7, <1>8, <1>9, <1>10, <1>11, <1>12 DEF Kind

-----------------------------------------------------------------------------
(***************************************************************************)
(* The bytes stay in order, and those of the header in front.              *)
(***************************************************************************)
LEMMA OrderedKind ==
    ASSUME TypeOK, Ordered, Calls, Counted, Kind
    PROVE  Ordered'
  <1>1. /\ wire \in Seq(Items) /\ buf \in Seq(Items) /\ str \in Seq(Items)
        /\ written \in Nat /\ Len(buf) \in Nat /\ Len(str) \in Nat
    BY BuffersAreItems, LenProperties
  <1>2. /\ Gone \in Nat /\ Gone + Len(buf) + Len(str) = written
        /\ InOrder(wire, 0, Gone)
        /\ Consecutive(buf, Gone) /\ Consecutive(str, Gone + Len(buf))
    BY <1>1 DEF Ordered, Gone
  <1>3. Len(<<>>) = 0 /\ \A a : Consecutive(<<>>, a)
    BY EmptySeq DEF Consecutive
  <1>4. ASSUME Quiet PROVE Ordered'
    BY <1>4 DEF Quiet, Ordered, Gone
  <1>5. ASSUME NEW part \in Parts, NEW k \in Nat, Put(part, k), UNCHANGED <<buf, wire>>, str = <<>>
        PROVE  Ordered'
    <2>1. Len(str') = k /\ Consecutive(str', written) /\ written' = written + k
      BY <1>1, <1>5, BytesMade DEF Put
    <2>2. Gone' = Gone /\ Gone + Len(buf) = written
      BY <1>1, <1>2, <1>3, <1>5, <2>1 DEF Gone
    <2> QED
      BY <1>2, <1>5, <2>1, <2>2 DEF Ordered
  <1>6. ASSUME NewHeader PROVE Ordered'
    <2>1. str = <<>>
      <3>1. written = 0
        BY <1>6 DEF NewHeader, Counted
      <3> QED
        BY <1>1, <1>2, <3>1, EmptySeq
    <2> QED
      BY <1>5, <1>6, <2>1, ReplyAssumption DEF NewHeader, Parts
  <1>7. ASSUME NewString PROVE Ordered'
    BY <1>5, <1>7 DEF NewString, Parts
  <1>8. ASSUME Cut PROVE Ordered'
    <2>1. PutFull /\ written' = written
      BY <1>8 DEF Cut, PutFull
    <2>2. PICK a, r \in Seq(BytesTo(written)) :
              /\ wire' = Flushed(buf \o a) /\ buf' = <<>> /\ str' = r
              /\ Len(a) \in Nat /\ Len(r) \in Nat /\ Len(a) + Len(r) = Len(str)
              /\ Consecutive(a, Gone + Len(buf))
              /\ Consecutive(r, Gone + Len(buf) + Len(a))
      BY <2>1, CutTurn
    <2>3. a \in Seq(Items)
      BY <1>1, BytesAreItems
    <2>4. /\ buf \o a \in Seq(Items) /\ Len(buf \o a) = Len(buf) + Len(a)
          /\ Consecutive(buf \o a, Gone)
      BY <1>1, <1>2, <2>2, <2>3, ConcatProperties, ConsecutiveJoined
    <2>5. InOrder(wire', 0, Gone + (Len(buf) + Len(a)))
      BY <1>1, <1>2, <2>2, <2>4, FlushedInOrder
    <2>6. Gone' = Gone + (Len(buf) + Len(a)) /\ Len(buf') = 0
      <3>1. Len(buf') = 0 /\ Gone' = written - Len(r) - 0
        BY <1>3, <2>1, <2>2 DEF Gone
      <3>2. Len(a) \in Nat /\ Len(r) \in Nat /\ Len(a) + Len(r) = Len(str)
        BY <2>2
      <3>3. Gone \in Nat /\ Gone + Len(buf) + Len(str) = written
        BY <1>2
      <3> QED
        <4>1. Len(buf') = 0 /\ Gone' = written - Len(r)
          BY <3>1, <3>2, <1>1
        <4>2. Len(buf) \in Nat /\ Gone + Len(buf) + (Len(a) + Len(r)) = written
          BY <1>1, <3>2, <3>3
        <4>3. written - Len(r) = Gone + (Len(buf) + Len(a))
          BY <3>2, <3>3, <4>2
        <4> QED
          BY <4>1, <4>3
    <2>7. Gone' \in Nat /\ Gone' + Len(buf') = Gone + Len(buf) + Len(a)
      BY <1>1, <1>2, <2>2, <2>6
    <2>8. Consecutive(buf', Gone') /\ Consecutive(str', Gone' + Len(buf'))
      BY <1>3, <2>2, <2>7
    <2> QED
      BY <2>5, <2>6, <2>7, <2>8 DEF Ordered
  <1>9. ASSUME Fit PROVE Ordered'
    <2>1. buf' = buf \o str /\ str' = <<>> /\ UNCHANGED <<wire, written>>
      BY <1>9 DEF Fit, PutRest
    <2>2. Len(buf') = Len(buf) + Len(str) /\ Consecutive(buf', Gone)
      BY <1>1, <1>2, <2>1, ConcatProperties, ConsecutiveJoined
    <2>3. Gone' = Gone
      BY <1>1, <1>2, <1>3, <2>1, <2>2 DEF Gone
    <2> QED
      BY <1>2, <1>3, <2>1, <2>2, <2>3 DEF Ordered
  <1>10. ASSUME Sent PROVE Ordered'
    <2>1. PICK k \in Nat : wire' = Flushed(buf \o Bytes("body", k)) /\ written' = written + k
      BY <1>10 DEF Sent
    <2>2. buf' = <<>> /\ str' = <<>> /\ str = <<>>
      BY <1>10 DEF Sent
    <2>3. /\ Bytes("body", k) \in Seq(Items) /\ Len(Bytes("body", k)) = k
          /\ Consecutive(Bytes("body", k), written)
      BY <1>1, BytesMade DEF Parts
    <2>4. written = Gone + Len(buf)
      BY <1>1, <1>2, <1>3, <2>2
    <2>5. /\ buf \o Bytes("body", k) \in Seq(Items)
          /\ Len(buf \o Bytes("body", k)) = Len(buf) + k
          /\ Consecutive(buf \o Bytes("body", k), Gone)
      <3>1. /\ buf \o Bytes("body", k) \in Seq(Items)
            /\ Len(buf \o Bytes("body", k)) = Len(buf) + Len(Bytes("body", k))
        BY <1>1, <2>3, Joined2
      <3>2. Consecutive(Bytes("body", k), Gone + Len(buf))
        BY <2>3, <2>4
      <3>3. Consecutive(buf \o Bytes("body", k), Gone)
        BY <1>1, <1>2, <2>3, <3>2, ConsecutiveJoined
      <3> QED
        BY <2>3, <3>1, <3>3
    <2>6. InOrder(wire', 0, Gone + (Len(buf) + k))
      BY <1>1, <1>2, <2>1, <2>5, FlushedInOrder
    <2>7. Gone' = Gone + (Len(buf) + k) /\ Gone' \in Nat
      BY <1>1, <1>2, <1>3, <2>1, <2>2, <2>4 DEF Gone
    <2> QED
      BY <1>3, <2>2, <2>6, <2>7 DEF Ordered
  <1>11. ASSUME HeaderEnd PROVE Ordered'
    <2>1. CASE UNCHANGED <<buf, wire>>
      BY <1>11, <2>1 DEF HeaderEnd, Ordered, Gone
    <2>2. CASE wire' = wire \o buf /\ buf' = <<>>
      <3>1. InOrder(buf, Gone, Gone + Len(buf))
        BY <1>1, <1>2, ConsecutiveInOrder
      <3>2. 0 \in Nat /\ Gone + Len(buf) \in Nat /\ 0 <= Gone /\ Gone <= Gone + Len(buf)
        BY <1>1, <1>2
      <3>3. InOrder(wire', 0, Gone + Len(buf))
        BY <1>1, <1>2, <2>2, <3>1, <3>2, InOrderJoined
      <3>4. Gone' = Gone + Len(buf) /\ str' = str /\ Len(buf') = 0
        BY <1>1, <1>2, <1>3, <1>11, <2>2 DEF HeaderEnd, Gone
      <3>5. Gone' + Len(buf') = Gone + Len(buf)
        BY <3>2, <3>4
      <3> QED
        BY <1>2, <1>3, <2>2, <3>2, <3>3, <3>4, <3>5 DEF Ordered
    <2> QED
      BY <1>11, <2>1, <2>2 DEF HeaderEnd, FlushInternal
  <1>12. ASSUME PlainHeader PROVE Ordered'
    <2>1. PICK k \in 1..MaxHeader : wire' = wire \o Bytes("header", k) /\ written' = written + k
      BY <1>12 DEF PlainHeader
    <2>2. /\ k \in Nat /\ UNCHANGED <<buf, str>>
          /\ wire = <<>> /\ written = 0 /\ buf = <<>> /\ str = <<>>
      BY <1>12, <2>1, ReplyAssumption DEF PlainHeader, Counted, Calls
    <2>3. /\ Bytes("header", k) \in Seq(Items) /\ Len(Bytes("header", k)) = k
          /\ Consecutive(Bytes("header", k), 0)
      BY <1>1, <2>2, BytesMade DEF Parts
    <2>4. wire' = Bytes("header", k)
      BY <2>1, <2>2, <2>3, ConcatEmptySeq
    <2>5. InOrder(wire', 0, 0 + k)
      BY <2>3, <2>4, ConsecutiveInOrder
    <2>6. 0 + k = k /\ Gone' = k
      BY <1>3, <2>1, <2>2 DEF Gone
    <2> QED
      BY <1>3, <2>2, <2>5, <2>6 DEF Ordered
  <1>13. ASSUME CleanUp PROVE Ordered'
    <2>1. /\ UNCHANGED <<str, written>> /\ buf' = <<>>
          /\ wire' = Flushed(buf) \o IF chunked THEN <<LastChunk>> ELSE <<>>
      BY <1>13 DEF CleanUp, FlushLast
    <2>2. Flushed(buf) \in Seq(Items) /\ InOrder(Flushed(buf), 0, Gone + Len(buf))
      BY <1>1, <1>2, FlushedItems, FlushedInOrder
    <2>3. Gone' = Gone + Len(buf) /\ Gone' \in Nat
      BY <1>1, <1>2, <1>3, <2>1 DEF Gone
    <2>4. InOrder(wire', 0, Gone')
      <3>1. CASE chunked
        <4>1. <<LastChunk>> \in Seq(Items) /\ InOrder(<<LastChunk>>, Gone', Gone')
          BY <2>3, MarksAreItems, SingleItem, MarkInOrder
        <4>2. 0 \in Nat /\ 0 <= Gone' /\ Gone' <= Gone'
          BY <2>3
        <4>3. InOrder(Flushed(buf) \o <<LastChunk>>, 0, Gone')
          BY <2>2, <2>3, <4>1, <4>2, InOrderJoined
        <4> QED
          BY <2>1, <3>1, <4>3
      <3>2. CASE ~chunked
        BY <2>1, <2>2, <2>3, <3>2, ConcatEmptySeq
      <3> QED
        BY <3>1, <3>2
    <2>5. Gone' + Len(buf') = Gone + Len(buf)
      BY <1>1, <1>2, <1>3, <2>1, <2>3
    <2> QED
      BY <1>2, <1>3, <2>1, <2>3, <2>4, <2>5 DEF Ordered
  <1> QED
    BY <1>4, <1>6, <1>7, <1>8, <1>9, <1>10, <1>11, <1>12, <1>13 DEF Kind

LEMMA BytesHeader ==
    ASSUME NEW b, headerLen \in Nat, NEW a \in Nat, headerLen <= a, Consecutive(b, a),
           \A k \in 1..Len(b) : b[k].part # "header"
    PROVE  HeaderBytes(b)
  <1> SUFFICES ASSUME NEW k \in Data(b)
               PROVE  b[k].part # "header" /\ ~(b[k].n <= headerLen)
    BY DEF HeaderBytes
  <1>1. k \in 1..Len(b) /\ k \in Nat /\ k > 0 /\ b[k].n = a + k
    BY DEF Data, Consecutive
  <1> QED
    BY <1>1

LEMMA HeaderFirstKind ==
    ASSUME TypeOK, Ordered, Calls, Counted, HeaderFirst, Kind
    PROVE  HeaderFirst'
  <1>1. /\ wire \in Seq(Items) /\ buf \in Seq(Items) /\ str \in Seq(Items)
        /\ written \in Nat /\ Len(buf) \in Nat /\ Len(str) \in Nat /\ headerLen \in Nat
    BY BuffersAreItems, LenProperties, ReplyAssumption DEF TypeOK
  <1>2. HeaderBytes(wire) /\ HeaderBytes(buf) /\ HeaderBytes(str)
    BY DEF HeaderFirst
  <1>3. HeaderBytes(<<>>)
    BY EmptySeq DEF HeaderBytes, Data
  <1>4. headers = 1 => headerLen <= written
    BY DEF Counted
  <1>5. ASSUME NEW k \in Nat, headers = 1 PROVE HeaderBytes(Bytes("body", k))
    <2>1. /\ Consecutive(Bytes("body", k), written) /\ Len(Bytes("body", k)) = k
          /\ \A j \in 1..k : Bytes("body", k)[j] = Byte("body", written + j)
      BY <1>1, BytesMade DEF Parts
    <2>2. \A n : Byte("body", n).part = "body"
      BY DEF Byte
    <2>3. \A j \in 1..k : Bytes("body", k)[j].part # "header"
      BY <2>1, <2>2
    <2> QED
      BY <1>1, <1>4, <1>5, <2>1, <2>3, BytesHeader
  <1>6. ASSUME Quiet PROVE HeaderFirst'
    BY <1>6 DEF Quiet, headerVars, HeaderFirst, HeaderBytes
  <1>7. ASSUME NewHeader PROVE HeaderFirst'
    <2>1. PICK k \in 1..MaxHeader : str' = Bytes("header", k) /\ headerLen' = k
      BY <1>7 DEF NewHeader, Put
    <2>2. k \in Nat /\ written = 0 /\ wire' = <<>> /\ buf' = <<>>
      BY <1>7, <2>1, ReplyAssumption DEF NewHeader, Counted
    <2>3. /\ Len(str') = k
          /\ \A j \in 1..k : str'[j] = Byte("header", 0 + j)
      BY <1>1, <2>1, <2>2, BytesMade DEF Parts
    <2>4. HeaderBytes(str)'
      <3> SUFFICES ASSUME NEW j \in 1..k PROVE str'[j].part = "header" /\ str'[j].n <= k
        BY <2>1, <2>3 DEF HeaderBytes, Data
      <3> QED
        BY <2>3 DEF Byte
    <2>5. HeaderBytes(wire)' /\ HeaderBytes(buf)'
      BY <2>2, EmptySeq DEF HeaderBytes, Data
    <2> QED
      BY <2>4, <2>5 DEF HeaderFirst
  <1>8. ASSUME NewString PROVE HeaderFirst'
    <2>1. PICK k \in Nat : str' = Bytes("body", k)
      BY <1>8 DEF NewString, Put
    <2>2. UNCHANGED <<wire, buf, headerLen>> /\ headers = 1
      BY <1>8 DEF NewString, headerVars
    <2>3. HeaderBytes(Bytes("body", k))
      BY <2>2, <1>5
    <2> QED
      BY <1>2, <2>1, <2>2, <2>3 DEF HeaderFirst, HeaderBytes
  <1>9. ASSUME Cut PROVE HeaderFirst'
    <2>1. PutFull /\ headerLen' = headerLen
      BY <1>9 DEF Cut, headerVars
    <2>2. PICK a, r \in Seq(BytesTo(written)) :
              /\ wire' = Flushed(buf \o a) /\ buf' = <<>> /\ str' = r
              /\ Len(a) \in Nat /\ Len(r) \in Nat /\ Len(a) + Len(r) = Len(str)
              /\ \A k \in 1..Len(a) : a[k] = str[k]
              /\ \A k \in 1..Len(r) : r[k] = str[Len(a) + k]
      BY <2>1, CutTurn
    <2>3. a \in Seq(Items)
      BY <1>1, BytesAreItems
    <2>4. HeaderBytes(a) /\ HeaderBytes(r)
      <3>1. 1..Len(a) \subseteq 1..Len(str) /\ \A k \in 1..Len(r) : Len(a) + k \in 1..Len(str)
        BY <2>2
      <3>2. ASSUME NEW k \in Data(a) PROVE a[k].part = "header" <=> a[k].n <= headerLen
        <4>1. k \in Data(str) /\ a[k] = str[k]
          BY <2>2, <3>1, <3>2 DEF Data
        <4> QED
          BY <4>1, <1>2 DEF HeaderBytes
      <3>3. ASSUME NEW k \in Data(r) PROVE r[k].part = "header" <=> r[k].n <= headerLen
        <4>1. Len(a) + k \in Data(str) /\ r[k] = str[Len(a) + k]
          BY <2>2, <3>1, <3>3 DEF Data
        <4> QED
          BY <4>1, <1>2 DEF HeaderBytes
      <3> QED
        BY <3>2, <3>3 DEF HeaderBytes
    <2>5. buf \o a \in Seq(Items) /\ HeaderBytes(buf \o a)
      BY <1>1, <1>2, <2>3, <2>4, ConcatProperties, HeaderBytesJoined
    <2>6. HeaderBytes(Flushed(buf \o a))
      BY <1>1, <1>2, <2>5, FlushedHeaderBytes
    <2> QED
      BY <1>3, <2>1, <2>2, <2>4, <2>6 DEF HeaderFirst, HeaderBytes
  <1>10. ASSUME Fit PROVE HeaderFirst'
    <2>1. buf' = buf \o str /\ str' = <<>> /\ UNCHANGED <<wire, headerLen>>
      BY <1>10 DEF Fit, PutRest, headerVars
    <2>2. HeaderBytes(buf \o str)
      BY <1>1, <1>2, HeaderBytesJoined
    <2> QED
      BY <1>2, <1>3, <2>1, <2>2 DEF HeaderFirst, HeaderBytes
  <1>11. ASSUME Sent PROVE HeaderFirst'
    <2>1. PICK k \in Nat : wire' = Flushed(buf \o Bytes("body", k))
      BY <1>11 DEF Sent
    <2>2. buf' = <<>> /\ str' = str /\ headerLen' = headerLen /\ headers = 1
      BY <1>11 DEF Sent, headerVars
    <2>3. Bytes("body", k) \in Seq(Items) /\ HeaderBytes(Bytes("body", k))
      BY <1>1, <1>5, <2>2, BytesMade DEF Parts
    <2>4. buf \o Bytes("body", k) \in Seq(Items) /\ HeaderBytes(buf \o Bytes("body", k))
      BY <1>1, <1>2, <2>3, ConcatProperties, HeaderBytesJoined
    <2>5. HeaderBytes(Flushed(buf \o Bytes("body", k)))
      BY <1>1, <1>2, <2>4, FlushedHeaderBytes
    <2> QED
      BY <1>2, <1>3, <2>1, <2>2, <2>5 DEF HeaderFirst, HeaderBytes
  <1>12. ASSUME HeaderEnd PROVE HeaderFirst'
    <2>1. CASE UNCHANGED <<buf, wire>>
      BY <1>12, <2>1 DEF HeaderEnd, HeaderFirst, HeaderBytes, headerVars
    <2>2. CASE wire' = wire \o buf /\ buf' = <<>>
      <3>1. HeaderBytes(wire \o buf)
        BY <1>1, <1>2, HeaderBytesJoined
      <3>2. str' = str /\ headerLen' = headerLen
        BY <1>12 DEF HeaderEnd, headerVars
      <3> QED
        BY <1>2, <1>3, <2>2, <3>1, <3>2 DEF HeaderFirst, HeaderBytes
    <2> QED
      BY <1>12, <2>1, <2>2 DEF HeaderEnd, FlushInternal
  <1>13. ASSUME PlainHeader PROVE HeaderFirst'
    <2>1. PICK k \in 1..MaxHeader : wire' = wire \o Bytes("header", k) /\ headerLen' = k
      BY <1>13 DEF PlainHeader
    <2>2. /\ k \in Nat /\ UNCHANGED <<buf, str>>
          /\ wire = <<>> /\ written = 0 /\ buf = <<>> /\ str = <<>>
      BY <1>13, <2>1, ReplyAssumption DEF PlainHeader, Counted, Calls
    <2>3. /\ Bytes("header", k) \in Seq(Items) /\ Len(Bytes("header", k)) = k
          /\ \A j \in 1..k : Bytes("header", k)[j] = Byte("header", 0 + j)
      BY <1>1, <2>2, BytesMade DEF Parts
    <2>4. wire' = Bytes("header", k)
      BY <2>1, <2>2, <2>3, ConcatEmptySeq
    <2>5. HeaderBytes(wire)'
      <3> SUFFICES ASSUME NEW j \in 1..k PROVE wire'[j].part = "header" /\ wire'[j].n <= k
        BY <2>1, <2>3, <2>4 DEF HeaderBytes, Data
      <3>1. wire'[j] = Byte("header", 0 + j)
        BY <2>3, <2>4
      <3> QED
        BY <2>2, <3>1 DEF Byte
    <2>6. HeaderBytes(str)' /\ HeaderBytes(buf)'
      BY <2>2, EmptySeq DEF HeaderBytes, Data
    <2> QED
      BY <2>5, <2>6 DEF HeaderFirst
  <1>14. ASSUME CleanUp PROVE HeaderFirst'
    <2>1. /\ str' = str /\ buf' = <<>> /\ headerLen' = headerLen
          /\ wire' = Flushed(buf) \o IF chunked THEN <<LastChunk>> ELSE <<>>
      BY <1>14 DEF CleanUp, FlushLast, headerVars
    <2>2. Flushed(buf) \in Seq(Items) /\ HeaderBytes(Flushed(buf))
      BY <1>1, <1>2, FlushedItems, FlushedHeaderBytes
    <2>3. <<LastChunk>> \in Seq(Items) /\ HeaderBytes(<<LastChunk>>)
      BY MarksAreItems, SingleItem, HeaderBytesMark
    <2>4. HeaderBytes(Flushed(buf) \o <<LastChunk>>) /\ Flushed(buf) \o <<>> = Flushed(buf)
      BY <2>2, <2>3, HeaderBytesJoined, ConcatEmptySeq
    <2> QED
      BY <1>2, <1>3, <2>1, <2>2, <2>4 DEF HeaderFirst, HeaderBytes
  <1> QED
    BY <1>6, <1>7, <1>8, <1>9, <1>10, <1>11, <1>12, <1>13, <1>14 DEF Kind

-----------------------------------------------------------------------------
(***************************************************************************)
(* The chunks.                                                             *)
(***************************************************************************)
\* A flush keeps the framing: a chunk is put behind the chunks, or bytes
\* behind the bytes.
LEMMA FlushedFraming ==
    ASSUME wire \in Seq(Items), NEW b \in Seq(Items),
           \A k \in 1..Len(b) : b[k].part \in Parts
    PROVE  /\ ~chunked /\ (\A k \in 1..Len(wire) : wire[k].part \in Parts)
                => \A k \in 1..Len(Flushed(b)) : Flushed(b)[k].part \in Parts
           /\ chunked /\ Sized(wire) /\ Open(wire) /\ (\A k \in 1..Len(b) : b[k].part # "header")
                => Sized(Flushed(b)) /\ Open(Flushed(b))
  <1>1. ASSUME ~chunked, \A k \in 1..Len(wire) : wire[k].part \in Parts
        PROVE  \A k \in 1..Len(Flushed(b)) : Flushed(b)[k].part \in Parts
    <2>1. Flushed(b) = wire \o b
      BY <1>1 DEF Flushed
    <2>2. \A k \in 1..Len(wire \o b) : (wire \o b)[k].part \in Parts
      <3> SUFFICES ASSUME NEW k \in 1..Len(wire \o b) PROVE (wire \o b)[k].part \in Parts
        OBVIOUS
      <3>1. CASE k \in 1..Len(wire)
        BY <3>1, <1>1, Joined2
      <3>2. ASSUME NEW j \in 1..Len(b), k = Len(wire) + j PROVE (wire \o b)[k].part \in Parts
        BY <3>2, Joined2
      <3> QED
        BY <3>1, <3>2, Joined2
    <2> QED
      BY <2>1, <2>2
  <1>2. ASSUME chunked, Sized(wire), Open(wire), \A k \in 1..Len(b) : b[k].part # "header"
        PROVE  Sized(Flushed(b)) /\ Open(Flushed(b))
    <2>1. CASE b = <<>>
      BY <1>2, <2>1, ConcatEmptySeq DEF Flushed
    <2>2. CASE b # <<>>
      <3>1. \A k \in 1..Len(b) : b[k].part = "body"
        BY <1>2 DEF Parts
      <3>2. Flushed(b) = wire \o <<Size(Len(b))>> \o b \o <<Crlf>>
        BY <1>2, <2>2 DEF Flushed
      <3> QED
        BY <1>2, <2>2, <3>1, <3>2, ChunkAppended
    <2> QED
      BY <2>1, <2>2
  <1> QED
    BY <1>1, <1>2

LEMMA FramingKind ==
    ASSUME TypeOK, Ordered, Calls, Counted, HeaderFirst, Framing, Kind
    PROVE  Framing'
  <1>1. /\ wire \in Seq(Items) /\ buf \in Seq(Items) /\ str \in Seq(Items)
        /\ written \in Nat /\ Len(buf) \in Nat /\ Len(str) \in Nat /\ headerLen \in Nat
        /\ chunked \in BOOLEAN /\ BufSize \in Nat
    BY BuffersAreItems, LenProperties, ReplyAssumption, SendBufferAssumption DEF TypeOK, BufTypeOK
  <1>2. /\ Gone \in Nat /\ Gone + Len(buf) + Len(str) = written
        /\ Consecutive(buf, Gone) /\ Consecutive(str, Gone + Len(buf))
    BY <1>1 DEF Ordered, Gone
  <1>3. Len(<<>>) = 0 /\ Sized(<<>>) /\ Open(<<>>)
    BY EmptySeq DEF Sized, Open
  <1>4. /\ \A k \in 1..Len(buf) : buf[k].part \in Parts
        /\ \A k \in 1..Len(str) : str[k].part \in Parts
    BY <1>2 DEF Consecutive
  \* What is not sent when the header is, is not of the header.
  <1>5. ASSUME Gone >= headerLen
        PROVE  /\ \A k \in 1..Len(buf) : buf[k].part # "header"
               /\ \A k \in 1..Len(str) : str[k].part # "header"
    <2>1. ASSUME NEW k \in 1..Len(buf) PROVE buf[k].part # "header"
      <3>1. k \in Data(buf) /\ buf[k].n = Gone + k
        BY <1>2 DEF Data, Consecutive
      <3> QED
        BY <3>1, <1>1, <1>2, <1>5 DEF HeaderFirst, HeaderBytes
    <2>2. ASSUME NEW k \in 1..Len(str) PROVE str[k].part # "header"
      <3>1. k \in Data(str) /\ str[k].n = Gone + Len(buf) + k
        BY <1>2 DEF Data, Consecutive
      <3> QED
        BY <3>1, <1>1, <1>2, <1>5 DEF HeaderFirst, HeaderBytes
    <2> QED
      BY <2>1, <2>2
  <1>6. ASSUME Quiet PROVE Framing'
    <2>1. /\ UNCHANGED <<wire, buf, str, written, headers, headerLen>>
          /\ ~InHeader /\ ~InHeader' /\ (Closing' <=> Closing)
          /\ chunked' \in BOOLEAN /\ (chunked' = chunked \/ headers = 0)
      BY <1>6 DEF Quiet, headerVars
    <2>2. Gone' = Gone
      BY <2>1 DEF Gone
    <2>3. ~(pc' = "put" /\ ret' = "header_end") /\ ~(pc = "put" /\ ret = "header_end")
      BY <2>1 DEF InHeader
    <2>4. CASE headers = 0
      <3>1. wire' = <<>> /\ headers' = 0
        BY <2>1, <2>4 DEF Counted
      <3> QED
        BY <1>3, <2>1, <3>1 DEF Framing
    <2>5. CASE chunked' = chunked
      <3>1. ~chunked' => \A k \in 1..Len(wire') : wire'[k].part \in Parts
        BY <2>1, <2>5 DEF Framing
      <3>2. chunked' /\ headers' = 1 => Gone' >= headerLen'
        BY <2>1, <2>2, <2>5 DEF Framing
      <3>3. ASSUME chunked', headers' = 1, headerLen' <= BufSize
            PROVE  /\ Sized(wire')
                   /\ pc' \notin {"close", "closed"} => Open(wire')
                   /\ pc' \in {"close", "closed"} => Ended(wire')
        BY <2>1, <2>5, <3>3 DEF Framing, Closing
      <3> QED
        BY <2>1, <2>3, <3>1, <3>2, <3>3 DEF Framing
    <2> QED
      BY <2>1, <2>4, <2>5
  <1>7. ASSUME NewHeader PROVE Framing'
    <2>1. wire' = <<>> /\ buf' = <<>> /\ InHeader' /\ pc' = "put"
      BY <1>7 DEF NewHeader, Counted, InHeader
    <2> QED
      BY <1>3, <2>1 DEF Framing
  <1>8. ASSUME NewString PROVE Framing'
    <2>1. Gone' = Gone
      <3>1. PICK k \in Nat : str' = Bytes("body", k) /\ written' = written + k
        BY <1>8 DEF NewString, Put
      <3>2. Len(str') = k /\ str = <<>> /\ buf' = buf
        BY <1>1, <1>8, <3>1, BytesMade DEF NewString, Parts
      <3> QED
        BY <1>1, <1>3, <3>1, <3>2 DEF Gone
    <2> QED
      BY <1>8, <2>1 DEF NewString, Framing, Closing, headerVars, InHeader
  <1>9. ASSUME Cut PROVE Framing'
    <2>1. /\ PutFull /\ pc = "put" /\ headers = 1
          /\ UNCHANGED <<pc, ret, headers, headerLen, chunked, written>>
      BY <1>9 DEF Cut, PutFull, headerVars
    <2>2. PICK a, r \in Seq(BytesTo(written)) :
              /\ wire' = Flushed(buf \o a) /\ buf' = <<>> /\ str' = r
              /\ Len(a) \in Nat /\ Len(r) \in Nat /\ Len(a) + Len(r) = Len(str)
              /\ \A k \in 1..Len(a) : a[k] = str[k]
              /\ Consecutive(a, Gone + Len(buf))
      BY <2>1, CutTurn
    <2>3. a \in Seq(Items) /\ 1..Len(a) \subseteq 1..Len(str)
      BY <1>1, <2>2, BytesAreItems
    <2>4. /\ buf \o a \in Seq(Items) /\ Len(buf \o a) = Len(buf) + Len(a)
          /\ Consecutive(buf \o a, Gone)
      BY <1>1, <1>2, <2>2, <2>3, ConcatProperties, ConsecutiveJoined
    <2>5. \A k \in 1..Len(buf \o a) : (buf \o a)[k].part \in Parts
      BY <2>4 DEF Consecutive
    <2>6. Gone' >= Gone
      <3>1. Gone' = written - Len(r) - 0
        BY <1>3, <2>1, <2>2 DEF Gone
      <3>2. Len(a) \in Nat /\ Len(r) \in Nat /\ Len(a) + Len(r) = Len(str)
        BY <2>2
      <3> QED
        BY <1>1, <1>2, <3>1, <3>2
    <2>7. ASSUME ~chunked PROVE \A k \in 1..Len(wire') : wire'[k].part \in Parts
      BY <1>1, <2>2, <2>4, <2>5, <2>7, FlushedFraming DEF Framing
    <2>8. InHeader' <=> InHeader
      BY <2>1 DEF InHeader
    <2>9. ASSUME chunked, ~InHeader, headerLen <= BufSize
          PROVE  Sized(wire') /\ Open(wire')
      <3>1. Gone >= headerLen /\ Sized(wire) /\ Open(wire)
        BY <2>1, <2>9 DEF Framing
      <3>2. \A k \in 1..Len(buf \o a) : (buf \o a)[k].part # "header"
        <4> SUFFICES ASSUME NEW k \in 1..Len(buf \o a) PROVE (buf \o a)[k].part # "header"
          OBVIOUS
        <4>1. CASE k \in 1..Len(buf)
          BY <4>1, <1>1, <1>5, <2>3, <3>1, Joined2
        <4>2. ASSUME NEW j \in 1..Len(a), k = Len(buf) + j PROVE (buf \o a)[k].part # "header"
          <5>1. (buf \o a)[k] = str[j] /\ j \in 1..Len(str)
            BY <4>2, <1>1, <2>2, <2>3, Joined2
          <5> QED
            BY <5>1, <1>5, <3>1
        <4> QED
          BY <4>1, <4>2, <1>1, <2>3, Joined2
      <3> QED
        BY <1>1, <2>2, <2>4, <2>5, <2>9, <3>1, <3>2, FlushedFraming
    \* A header that fits into the buffer is not cut.
    <2>10. ASSUME chunked, InHeader, headerLen <= BufSize PROVE FALSE
      <3>1. buf = <<>> /\ written = headerLen
        BY <2>1, <2>10 DEF Framing, Counted, InHeader
      <3>2. Len(str) > BufSize - 0
        BY <1>3, <2>1, <3>1 DEF PutFull, Avail
      <3> QED
        BY <1>1, <1>2, <1>3, <2>10, <3>1, <3>2
    <2>11. Gone \in Nat /\ Gone' >= Gone
      BY <1>2, <2>6
    <2>12. ASSUME chunked, ~InHeader PROVE Gone' >= headerLen
      <3>1. Gone >= headerLen
        BY <2>1, <2>12 DEF Framing
      <3>2. Gone' \in Int
        BY <1>1, <1>3, <2>1, <2>2 DEF Gone
      <3> QED
        BY <1>1, <2>11, <3>1, <3>2
    <2>13. chunked' = chunked /\ headers' = 1 /\ headerLen' = headerLen /\ pc' = "put"
      BY <2>1
    <2>14. CASE ~chunked
      BY <2>7, <2>13, <2>14 DEF Framing
    <2>15. CASE chunked /\ ~InHeader
      <3>1. ~(pc' = "put" /\ ret' = "header_end")
        BY <2>8, <2>15 DEF InHeader
      <3> QED
        BY <2>8, <2>9, <2>12, <2>13, <2>15, <3>1 DEF Framing
    <2>16. CASE chunked /\ InHeader
      BY <2>8, <2>10, <2>13, <2>16 DEF Framing
    <2> QED
      BY <1>1, <2>14, <2>15, <2>16
  <1>10. ASSUME Fit PROVE Framing'
    <2>1. buf' = buf \o str /\ str' = <<>> /\ UNCHANGED <<wire, written, chunked, headers, headerLen>>
      BY <1>10 DEF Fit, PutRest, headerVars
    <2>2. Gone' = Gone
      <3>1. Len(buf') = Len(buf) + Len(str) /\ Len(str') = 0
        BY <1>1, <1>3, <2>1, ConcatProperties
      <3> QED
        BY <1>1, <2>1, <3>1 DEF Gone
    <2> QED
      BY <1>10, <2>1, <2>2 DEF Fit, Framing, Closing
  <1>11. ASSUME Sent PROVE Framing'
    <2>1. PICK k \in Nat : wire' = Flushed(buf \o Bytes("body", k)) /\ written' = written + k
      BY <1>11 DEF Sent
    <2>2. /\ buf' = <<>> /\ str' = <<>> /\ str = <<>> /\ UNCHANGED <<chunked, headers, headerLen>>
          /\ headers = 1 /\ ~InHeader /\ ~InHeader' /\ ~Closing /\ ~Closing'
      BY <1>11 DEF Sent, headerVars
    <2>3. /\ Bytes("body", k) \in Seq(Items) /\ Len(Bytes("body", k)) = k
          /\ \A j \in 1..k : Bytes("body", k)[j] = Byte("body", written + j)
      BY <1>1, BytesMade DEF Parts
    <2>4. \A n : Byte("body", n).part = "body"
      BY DEF Byte
    <2>5. /\ buf \o Bytes("body", k) \in Seq(Items)
          /\ \A j \in 1..Len(buf \o Bytes("body", k)) :
               LET p == (buf \o Bytes("body", k))[j].part
               IN  p \in Parts /\ (Gone >= headerLen => p # "header")
      <3>1. buf \o Bytes("body", k) \in Seq(Items)
        BY <1>1, <2>3, ConcatProperties
      <3>2. ASSUME NEW j \in 1..Len(buf \o Bytes("body", k))
            PROVE  LET p == (buf \o Bytes("body", k))[j].part
                   IN  p \in Parts /\ (Gone >= headerLen => p # "header")
        <4>1. CASE j \in 1..Len(buf)
          <5>1. (buf \o Bytes("body", k))[j] = buf[j]
            <6> DEFINE t == Bytes("body", k)
            <6>1. buf \in Seq(Items) /\ t \in Seq(Items) /\ j \in 1..Len(buf)
              BY <4>1, <1>1, <2>3
            <6> HIDE DEF t
            <6>2. (buf \o t)[j] = buf[j]
              BY <6>1, Joined2
            <6> QED
              BY <6>2 DEF t
          <5> QED
            BY <4>1, <5>1, <1>4, <1>5
        <4>2. ASSUME NEW i \in 1..k, j = Len(buf) + i
              PROVE  (buf \o Bytes("body", k))[j].part = "body"
          <5> DEFINE t == Bytes("body", k)
          <5>1. /\ buf \in Seq(Items) /\ t \in Seq(Items) /\ i \in 1..Len(t)
                /\ t[i].part = "body"
            BY <4>2, <1>1, <2>3, <2>4
          <5> HIDE DEF t
          <5>2. (buf \o t)[Len(buf) + i] = t[i]
            BY <5>1, Joined2
          <5> QED
            BY <4>2, <5>1, <5>2 DEF t
        <4>3. j \in 1..Len(buf) \/ \E i \in 1..k : j = Len(buf) + i
          <5> DEFINE t == Bytes("body", k)
          <5>1. buf \in Seq(Items) /\ t \in Seq(Items) /\ Len(t) = k /\ j \in 1..Len(buf \o t)
            BY <1>1, <2>3
          <5> HIDE DEF t
          <5> QED
            BY <5>1, Joined2
        <4> QED
          BY <4>1, <4>2, <4>3 DEF Parts
      <3> QED
        BY <3>1, <3>2
    <2>6. ASSUME ~chunked PROVE \A j \in 1..Len(wire') : wire'[j].part \in Parts
      BY <1>1, <2>1, <2>5, <2>6, FlushedFraming DEF Framing
    <2>7. ASSUME chunked PROVE Gone >= headerLen
      BY <2>2, <2>7 DEF Framing
    <2>8. ASSUME chunked, headerLen <= BufSize PROVE Sized(wire') /\ Open(wire')
      <3>1. Sized(wire) /\ Open(wire)
        BY <2>2, <2>8 DEF Framing, Closing
      <3> QED
        BY <1>1, <2>1, <2>5, <2>7, <2>8, <3>1, FlushedFraming
    <2>9. ASSUME chunked PROVE Gone' >= headerLen
      <3>1. Gone' = written + k
        BY <1>1, <1>3, <2>1, <2>2 DEF Gone
      <3> QED
        BY <1>1, <1>2, <2>7, <2>9, <3>1
    <2> QED
      BY <2>2, <2>6, <2>8, <2>9 DEF Framing, Closing
  <1>12. ASSUME HeaderEnd PROVE Framing'
    <2>1. /\ pc = "header_end" /\ InHeader /\ headers = 1 /\ str = <<>>
          /\ UNCHANGED <<str, written, chunked, headers, headerLen>>
          /\ ~InHeader' /\ ~Closing'
      BY <1>12 DEF HeaderEnd, Goto, InHeader, Closing, Calls, Counted, Once, headerVars
    <2>2. CASE ~chunked
      <3>1. UNCHANGED <<buf, wire>>
        BY <1>12, <2>2 DEF HeaderEnd
      <3> QED
        BY <2>1, <2>2, <3>1 DEF Framing
    <2>3. CASE chunked
      <3>1. wire' = wire \o buf /\ buf' = <<>>
        BY <1>12, <2>3 DEF HeaderEnd, FlushInternal
      <3>2. written = headerLen
        BY <2>1 DEF Counted
      <3>3. Gone' = headerLen
        BY <1>1, <1>3, <2>1, <3>1, <3>2 DEF Gone
      <3>4. ASSUME headerLen <= BufSize
            PROVE  Sized(wire') /\ Open(wire')
        <4>1. wire = <<>>
          BY <2>1, <2>3, <3>4 DEF Framing
        <4>2. wire' = buf
          BY <1>1, <3>1, <4>1, ConcatEmptySeq
        <4>3. \A k \in 1..Len(buf) : buf[k].part = "header"
          <5> SUFFICES ASSUME NEW k \in 1..Len(buf) PROVE buf[k].part = "header"
            OBVIOUS
          <5>1. k \in Data(buf) /\ buf[k].n = Gone + k /\ Gone + k <= written
            BY <1>1, <1>2 DEF Data, Consecutive
          <5> QED
            BY <5>1, <3>2 DEF HeaderFirst, HeaderBytes
        <4> QED
          BY <4>2, <4>3 DEF Sized, Open, Inside
      <3>5. Gone' >= headerLen'
        BY <1>1, <2>1, <3>3
      <3>6. chunked' = chunked /\ headers' = 1 /\ headerLen' = headerLen
        BY <2>1
      <3>7. /\ pc' \notin {"close", "closed"}
            /\ ~(pc' = "put" /\ ret' = "header_end")
        BY <2>1 DEF Closing, InHeader
      <3> QED
        BY <2>1, <2>3, <3>4, <3>5, <3>6, <3>7 DEF Framing
    <2> QED
      BY <1>1, <2>2, <2>3
  <1>13. ASSUME PlainHeader PROVE Framing'
    <2>1. PICK k \in 1..MaxHeader : wire' = wire \o Bytes("header", k)
      BY <1>13 DEF PlainHeader
    <2>2. k \in Nat /\ wire = <<>> /\ ~chunked /\ chunked' = chunked
      BY <1>13, <2>1, ReplyAssumption DEF PlainHeader, Counted, Calls
    <2>3. /\ Bytes("header", k) \in Seq(Items)
          /\ Consecutive(Bytes("header", k), written)
      BY <1>1, <2>2, BytesMade DEF Parts
    <2>4. wire' = Bytes("header", k)
      BY <2>1, <2>2, <2>3, ConcatEmptySeq
    <2> QED
      BY <2>2, <2>3, <2>4 DEF Framing, Consecutive
  <1>14. ASSUME CleanUp PROVE Framing'
    <2>1. /\ pc = "cleanup" /\ pc' = "close"
          /\ UNCHANGED <<str, written, chunked, headers, headerLen>> /\ buf' = <<>>
          /\ wire' = Flushed(buf) \o IF chunked THEN <<LastChunk>> ELSE <<>>
      BY <1>14 DEF CleanUp, FlushLast, Goto, headerVars
    <2>2. ~InHeader /\ ~InHeader' /\ headers = 1
      BY <2>1 DEF InHeader, Counted, Once
    <2>3. Flushed(buf) \in Seq(Items) /\ Flushed(buf) \o <<>> = Flushed(buf)
      BY <1>1, FlushedItems, ConcatEmptySeq
    <2>4. CASE ~chunked
      BY <1>1, <1>4, <2>1, <2>3, <2>4, FlushedFraming DEF Framing
    <2>5. CASE chunked
      <3>1. Gone >= headerLen
        BY <2>2, <2>5 DEF Framing
      <3>2. Gone' >= Gone
        <4>1. Gone' = written - Len(str) - 0
          BY <1>3, <2>1 DEF Gone
        <4> QED
          BY <1>1, <1>2, <4>1
      <3>3. ASSUME headerLen <= BufSize
            PROVE  Sized(wire') /\ Ended(wire')
        <4>1. Sized(wire) /\ Open(wire)
          BY <2>1, <2>2, <2>5, <3>3 DEF Framing
        <4>2. Sized(Flushed(buf)) /\ Open(Flushed(buf))
          BY <1>1, <1>4, <1>5, <2>5, <3>1, <4>1, FlushedFraming
        <4> QED
          BY <2>1, <2>3, <2>5, <4>2, LastAppended
      <3>4. Gone' >= headerLen'
        <4>1. Gone' \in Int
          BY <1>1, <1>3, <2>1 DEF Gone
        <4> QED
          BY <1>1, <1>2, <2>1, <3>1, <3>2, <4>1
      <3> QED
        BY <2>1, <2>2, <2>5, <3>3, <3>4 DEF Framing
    <2> QED
      BY <1>1, <2>4, <2>5
  <1> QED
    BY <1>6, <1>7, <1>8, <1>9, <1>10, <1>11, <1>12, <1>13, <1>14 DEF Kind

-----------------------------------------------------------------------------
(***************************************************************************)
(* Where the code is and what it knows there.                              *)
(***************************************************************************)
ControlTypes ==
    /\ pc \in PCs /\ ret \in PCs /\ after \in PCs
    /\ http_1_1 \in BOOLEAN /\ headers_sent \in BOOLEAN /\ fp \in BOOLEAN
    /\ announced \in BOOLEAN /\ noLua \in BOOLEAN
    /\ stream_out \in 0..BufSize
    /\ headerLen \in 0..MaxHeader /\ headers \in Nat

\* The other variables keep their types.
LEMMA TypesNext ==
    ASSUME TypeOK, Next
    PROVE  ControlTypes'
  <1>0. /\ ControlTypes /\ MaxHeader \in Nat /\ BufSize \in Nat
        /\ chunked \in BOOLEAN /\ written \in Nat
    BY ReplyAssumption, SendBufferAssumption DEF TypeOK, BufTypeOK, ControlTypes
  <1> USE DEF headerFrame, replyVars, headerVars, bufVars, Goto, Put, Room, ControlTypes, PCs
  <1>1. ASSUME PutTurn PROVE ControlTypes'
    BY <1>1, <1>0 DEF PutTurn, PutFull
  <1>2. ASSUME PutReturn PROVE ControlTypes'
    BY <1>2, <1>0 DEF PutReturn, Goto
  <1>3. ASSUME HeaderEnd PROVE ControlTypes'
    BY <1>3, <1>0 DEF HeaderEnd, FlushInternal
  <1>4. ASSUME InfoBody PROVE ControlTypes'
    BY <1>4, <1>0 DEF InfoBody, String
  <1>5. ASSUME ReplyError PROVE ControlTypes'
    BY <1>5, <1>0 DEF ReplyError, ErrorInfo, Header
  <1>6. ASSUME MethodNotAllowed PROVE ControlTypes'
    BY <1>6, <1>0 DEF MethodNotAllowed, Header
  <1>7. ASSUME StartPage PROVE ControlTypes'
    BY <1>7, <1>0 DEF StartPage
  <1>8. ASSUME EmbeddedHeader PROVE ControlTypes'
    BY <1>8, <1>0 DEF EmbeddedHeader, Header
  <1>9. ASSUME OpenFile PROVE ControlTypes'
    BY <1>9, <1>0 DEF OpenFile
  <1>10. ASSUME OpenPage PROVE ControlTypes'
    BY <1>10, <1>0 DEF OpenPage
  <1>11. ASSUME NoLuaState PROVE ControlTypes'
    BY <1>11, <1>0 DEF NoLuaState, Header
  <1>12. ASSUME LoadPage PROVE ControlTypes'
    <2>1. /\ pc' \in PCs /\ fp' = FALSE
          /\ UNCHANGED <<ret, after, http_1_1, headers_sent, announced, noLua, stream_out, headerLen, headers>>
      BY <1>12 DEF LoadPage
    <2>2. fp' \in BOOLEAN
      BY <2>1, Zenon
    <2>3. UNCHANGED <<ret, after, http_1_1, headers_sent, announced, noLua, stream_out, headerLen, headers>>
      BY <2>1
    <2> QED
      BY <1>0, <2>1, <2>2, <2>3, Zenon
  <1>13. ASSUME EmbeddedData PROVE ControlTypes'
    BY <1>13, <1>0 DEF EmbeddedData, Direct
  <1>14. ASSUME PlainHeader PROVE ControlTypes'
    BY <1>14, <1>0 DEF PlainHeader
  <1>15. ASSUME PlainBlock PROVE ControlTypes'
    BY <1>15, <1>0 DEF PlainBlock
  <1>16. ASSUME PlainEnd PROVE ControlTypes'
    <2>1. /\ pc' \in PCs /\ fp' = FALSE
          /\ UNCHANGED <<ret, after, http_1_1, headers_sent, announced, noLua, stream_out, headerLen, headers>>
      BY <1>16 DEF PlainEnd, CloseFile
    <2>2. fp' \in BOOLEAN
      BY <2>1, Zenon
    <2>3. UNCHANGED <<ret, after, http_1_1, headers_sent, announced, noLua, stream_out, headerLen, headers>>
      BY <2>1
    <2> QED
      BY <1>0, <2>1, <2>2, <2>3, Zenon
  <1>17. ASSUME DeflateInitFails PROVE ControlTypes'
    BY <1>17, <1>0 DEF DeflateInitFails, Header
  <1>18. ASSUME DeflateInit PROVE ControlTypes'
    BY <1>18, <1>0 DEF DeflateInit
  <1>19. ASSUME DeflateHeader PROVE ControlTypes'
    BY <1>19, <1>0 DEF DeflateHeader, Header
  <1>20. ASSUME DeflateFlush PROVE ControlTypes'
    BY <1>20, <1>0 DEF DeflateFlush, Flush
  <1>21. ASSUME DeflateTurn PROVE ControlTypes'
    BY <1>21, <1>0 DEF DeflateTurn
  <1>22. ASSUME DeflateEnd PROVE ControlTypes'
    <2>1. /\ pc' \in PCs /\ fp' = FALSE
          /\ UNCHANGED <<ret, after, http_1_1, headers_sent, announced, noLua, stream_out, headerLen, headers>>
      BY <1>22 DEF DeflateEnd, CloseFile
    <2>2. fp' \in BOOLEAN
      BY <2>1, Zenon
    <2>3. UNCHANGED <<ret, after, http_1_1, headers_sent, announced, noLua, stream_out, headerLen, headers>>
      BY <2>1
    <2> QED
      BY <1>0, <2>1, <2>2, <2>3, Zenon
  <1>23. ASSUME PageNotThere PROVE ControlTypes'
    BY <1>23, <1>0 DEF PageNotThere, ErrorInfo, Header
  <1>24. ASSUME LoadError PROVE ControlTypes'
    <2>1. CASE SendHeaders("load_failed", "load_failed")
      <3>1. /\ pc' = "put" /\ ret' = "header_end" /\ after' = "load_failed" /\ headers_sent' = TRUE
            /\ headers' = headers + 1 /\ headerLen' \in 1..MaxHeader /\ announced' = chunked
            /\ UNCHANGED <<http_1_1, fp, stream_out, noLua>>
        BY <2>1 DEF SendHeaders, Header
      <3>2. headers' \in Nat /\ headerLen' \in 0..MaxHeader
        BY <1>0, <3>1
      <3> QED
        BY <1>0, <3>1, <3>2, Zenon
    <2>2. CASE String("load_failed", "page_end") /\ UNCHANGED <<after, replyVars, headerVars>>
      BY <1>0, <2>2 DEF String
    <2> QED
      BY <1>24, <2>1, <2>2 DEF LoadError
  <1>25. ASSUME Echo PROVE ControlTypes'
    <2>1. CASE SendHeaders("page", "page")
      <3>1. /\ pc' = "put" /\ ret' = "header_end" /\ after' = "page" /\ headers_sent' = TRUE
            /\ headers' = headers + 1 /\ headerLen' \in 1..MaxHeader /\ announced' = chunked
            /\ UNCHANGED <<http_1_1, fp, stream_out, noLua>>
        BY <2>1 DEF SendHeaders, Header
      <3>2. headers' \in Nat /\ headerLen' \in 0..MaxHeader
        BY <1>0, <3>1
      <3> QED
        BY <1>0, <3>1, <3>2, Zenon
    <2>2. CASE String("page", "page") /\ UNCHANGED <<after, replyVars, headerVars>>
      BY <1>0, <2>2 DEF String
    <2> QED
      BY <1>25, <2>1, <2>2 DEF Echo
  <1>26. ASSUME CallError PROVE ControlTypes'
    <2>1. CASE SendHeaders("page", "page_failed")
      <3>1. /\ pc' = "put" /\ ret' = "header_end" /\ after' = "page_failed" /\ headers_sent' = TRUE
            /\ headers' = headers + 1 /\ headerLen' \in 1..MaxHeader /\ announced' = chunked
            /\ UNCHANGED <<http_1_1, fp, stream_out, noLua>>
        BY <2>1 DEF SendHeaders, Header
      <3>2. headers' \in Nat /\ headerLen' \in 0..MaxHeader
        BY <1>0, <3>1
      <3> QED
        BY <1>0, <3>1, <3>2, Zenon
    <2>2. CASE Goto("page", "page_failed") /\ UNCHANGED <<ret, after, replyVars, headerVars>>
      BY <1>0, <2>2
    <2> QED
      BY <1>26, <2>1, <2>2 DEF CallError
  <1>27. ASSUME ErrorOutput PROVE ControlTypes'
    BY <1>27, <1>0 DEF ErrorOutput, String
  <1>28. ASSUME ScriptEnds PROVE ControlTypes'
    BY <1>28, <1>0 DEF ScriptEnds
  <1>29. ASSUME EndPage PROVE ControlTypes'
    <2>1. CASE SendHeaders("page_end", "cleanup")
      <3>1. /\ pc' = "put" /\ ret' = "header_end" /\ after' = "cleanup" /\ headers_sent' = TRUE
            /\ headers' = headers + 1 /\ headerLen' \in 1..MaxHeader /\ announced' = chunked
            /\ UNCHANGED <<http_1_1, fp, stream_out, noLua>>
        BY <2>1 DEF SendHeaders, Header
      <3>2. headers' \in Nat /\ headerLen' \in 0..MaxHeader
        BY <1>0, <3>1
      <3> QED
        BY <1>0, <3>1, <3>2, Zenon
    <2>2. CASE Goto("page_end", "cleanup") /\ UNCHANGED <<ret, after, replyVars, headerVars>>
      BY <1>0, <2>2
    <2> QED
      BY <1>29, <2>1, <2>2 DEF EndPage
  <1>30. ASSUME CleanUp PROVE ControlTypes'
    BY <1>30, <1>0 DEF CleanUp, FlushLast
  <1>31. ASSUME CloseSocket PROVE ControlTypes'
    BY <1>31, <1>0 DEF CloseSocket
  <1> HIDE DEF headerFrame, replyVars, headerVars, bufVars, Goto, Put, Room, ControlTypes, PCs
  <1>32. ASSUME FirstStep PROVE ControlTypes'
    BY <1>32, <1>5, <1>6, <1>7, <1>8, <1>9 DEF FirstStep
  <1>33. ASSUME LoadStep PROVE ControlTypes'
    BY <1>33, <1>10, <1>11, <1>12 DEF LoadStep
  <1>34. ASSUME SendBufferStep PROVE ControlTypes'
    BY <1>34, <1>1, <1>2, <1>3, <1>4 DEF SendBufferStep
  <1>35. ASSUME StaticStep PROVE ControlTypes'
    BY <1>35, <1>13, <1>14, <1>15, <1>16, <1>17, <1>18, <1>19, <1>20, <1>21, <1>22 DEF StaticStep
  <1>36. ASSUME PageStep PROVE ControlTypes'
    BY <1>36, <1>23, <1>24, <1>25, <1>26, <1>27, <1>28, <1>29 DEF PageStep
  <1> QED
    BY <1>32, <1>33, <1>34, <1>35, <1>36, <1>30, <1>31 DEF Next, SendStep

\* What each place of the code knows.
LEMMA CallsNext ==
    ASSUME TypeOK, Calls, Counted, Next
    PROVE  Calls'
  <1>0. chunked \in BOOLEAN
    BY DEF TypeOK, BufTypeOK
  <1> USE DEF headerFrame, replyVars, headerVars, bufVars, Goto, Put, Room, Calls, InHeader
  <1>1. ASSUME PutTurn PROVE Calls'
    BY <1>1, <1>0 DEF PutTurn, PutFull
  <1>2. ASSUME PutReturn PROVE Calls'
    <2>1. /\ pc = "put" /\ pc' = ret /\ str' = <<>>
          /\ UNCHANGED <<ret, after, chunked, headers_sent>>
      BY <1>2 DEF PutReturn, PutRest
    <2>2. CASE ret = "header_end"
      BY <1>0, <2>1, <2>2
    <2>3. CASE ret # "header_end"
      BY <1>0, <2>1, <2>3
    <2> QED
      BY <2>2, <2>3
  <1>3. ASSUME HeaderEnd PROVE Calls'
    BY <1>3, <1>0 DEF HeaderEnd, FlushInternal
  <1>4. ASSUME InfoBody PROVE Calls'
    BY <1>4, <1>0 DEF InfoBody, String
  <1>5. ASSUME ReplyError PROVE Calls'
    BY <1>5, <1>0 DEF ReplyError, ErrorInfo, Header
  <1>6. ASSUME MethodNotAllowed PROVE Calls'
    BY <1>6, <1>0 DEF MethodNotAllowed, Header
  <1>7. ASSUME StartPage PROVE Calls'
    BY <1>7, <1>0 DEF StartPage
  <1>8. ASSUME EmbeddedHeader PROVE Calls'
    BY <1>8, <1>0 DEF EmbeddedHeader, Header
  <1>9. ASSUME OpenFile PROVE Calls'
    <2>1. buf = <<>> /\ str = <<>>
      BY <1>9 DEF OpenFile, Counted
    <2> QED
      BY <1>9, <2>1 DEF OpenFile
  <1>10. ASSUME OpenPage PROVE Calls'
    BY <1>10, <1>0 DEF OpenPage
  <1>11. ASSUME NoLuaState PROVE Calls'
    BY <1>11, <1>0 DEF NoLuaState, Header
  <1>12. ASSUME LoadPage PROVE Calls'
    BY <1>12, <1>0 DEF LoadPage
  <1>13. ASSUME EmbeddedData PROVE Calls'
    BY <1>13, <1>0 DEF EmbeddedData, Direct
  <1>14. ASSUME PlainHeader PROVE Calls'
    BY <1>14, <1>0 DEF PlainHeader
  <1>15. ASSUME PlainBlock PROVE Calls'
    BY <1>15, <1>0 DEF PlainBlock
  <1>16. ASSUME PlainEnd PROVE Calls'
    BY <1>16, <1>0 DEF PlainEnd, CloseFile
  <1>17. ASSUME DeflateInitFails PROVE Calls'
    BY <1>17, <1>0 DEF DeflateInitFails, Header
  <1>18. ASSUME DeflateInit PROVE Calls'
    BY <1>18, <1>0 DEF DeflateInit
  <1>19. ASSUME DeflateHeader PROVE Calls'
    BY <1>19, <1>0 DEF DeflateHeader, Header
  <1>20. ASSUME DeflateFlush PROVE Calls'
    BY <1>20, <1>0 DEF DeflateFlush, Flush
  <1>21. ASSUME DeflateTurn PROVE Calls'
    BY <1>21, <1>0 DEF DeflateTurn
  <1>22. ASSUME DeflateEnd PROVE Calls'
    BY <1>22, <1>0 DEF DeflateEnd, CloseFile
  <1>23. ASSUME PageNotThere PROVE Calls'
    BY <1>23, <1>0 DEF PageNotThere, ErrorInfo, Header
  <1>24. ASSUME LoadError PROVE Calls'
    BY <1>24, <1>0 DEF LoadError, SendHeaders, Header, String
  <1>25. ASSUME Echo PROVE Calls'
    BY <1>25, <1>0 DEF Echo, SendHeaders, Header, String
  <1>26. ASSUME CallError PROVE Calls'
    BY <1>26, <1>0 DEF CallError, SendHeaders, Header
  <1>27. ASSUME ErrorOutput PROVE Calls'
    BY <1>27, <1>0 DEF ErrorOutput, String
  <1>28. ASSUME ScriptEnds PROVE Calls'
    BY <1>28, <1>0 DEF ScriptEnds
  <1>29. ASSUME EndPage PROVE Calls'
    BY <1>29, <1>0 DEF EndPage, SendHeaders, Header
  <1>30. ASSUME CleanUp PROVE Calls'
    BY <1>30, <1>0 DEF CleanUp, FlushLast
  <1>31. ASSUME CloseSocket PROVE Calls'
    BY <1>31, <1>0 DEF CloseSocket
  <1> HIDE DEF headerFrame, replyVars, headerVars, bufVars, Goto, Put, Room, Calls, InHeader
  <1>32. ASSUME FirstStep PROVE Calls'
    BY <1>32, <1>5, <1>6, <1>7, <1>8, <1>9 DEF FirstStep
  <1>33. ASSUME LoadStep PROVE Calls'
    BY <1>33, <1>10, <1>11, <1>12 DEF LoadStep
  <1>34. ASSUME SendBufferStep PROVE Calls'
    BY <1>34, <1>1, <1>2, <1>3, <1>4 DEF SendBufferStep
  <1>35. ASSUME StaticStep PROVE Calls'
    BY <1>35, <1>13, <1>14, <1>15, <1>16, <1>17, <1>18, <1>19, <1>20, <1>21, <1>22 DEF StaticStep
  <1>36. ASSUME PageStep PROVE Calls'
    BY <1>36, <1>23, <1>24, <1>25, <1>26, <1>27, <1>28, <1>29 DEF PageStep
  <1> QED
    BY <1>32, <1>33, <1>34, <1>35, <1>36, <1>30, <1>31 DEF Next, SendStep

\* The header is written once.
LEMMA CountedNext ==
    ASSUME TypeOK, Calls, Counted, Next
    PROVE  Counted'
  <1>0. /\ chunked \in BOOLEAN /\ written \in Nat /\ headers_sent \in BOOLEAN /\ announced \in BOOLEAN
        /\ headerLen \in Nat /\ stream_out \in Nat
    BY ReplyAssumption, SendBufferAssumption DEF TypeOK, BufTypeOK
  <1> USE DEF headerFrame, replyVars, headerVars, bufVars, Goto, Put, Room, Calls, Counted, Once, InHeader
  <1>1. ASSUME PutTurn PROVE Counted'
    BY <1>1, <1>0, ReplyAssumption DEF PutTurn, PutFull
  <1>2. ASSUME PutReturn PROVE Counted'
    <2>1. /\ pc = "put" /\ pc' = ret /\ headers = 1
          /\ UNCHANGED <<ret, written, chunked, headers_sent, headerLen, headers, announced>>
      BY <1>2 DEF PutReturn, PutRest
    <2>2. CASE ret = "header_end"
      BY <1>0, <2>1, <2>2
    <2>3. CASE ret # "header_end"
      BY <1>0, <2>1, <2>3
    <2> QED
      BY <2>2, <2>3
  <1>3. ASSUME HeaderEnd PROVE Counted'
    BY <1>3, <1>0, ReplyAssumption DEF HeaderEnd, FlushInternal
  <1>4. ASSUME InfoBody PROVE Counted'
    BY <1>4, <1>0, ReplyAssumption DEF InfoBody, String
  <1>5. ASSUME ReplyError PROVE Counted'
    BY <1>5, <1>0, ReplyAssumption DEF ReplyError, ErrorInfo, Header
  <1>6. ASSUME MethodNotAllowed PROVE Counted'
    BY <1>6, <1>0, ReplyAssumption DEF MethodNotAllowed, Header
  <1>7. ASSUME StartPage PROVE Counted'
    BY <1>7, <1>0, ReplyAssumption DEF StartPage
  <1>8. ASSUME EmbeddedHeader PROVE Counted'
    BY <1>8, <1>0, ReplyAssumption DEF EmbeddedHeader, Header
  <1>9. ASSUME OpenFile PROVE Counted'
    BY <1>9, <1>0, ReplyAssumption DEF OpenFile
  <1>10. ASSUME OpenPage PROVE Counted'
    BY <1>10, <1>0, ReplyAssumption DEF OpenPage
  <1>11. ASSUME NoLuaState PROVE Counted'
    BY <1>11, <1>0, ReplyAssumption DEF NoLuaState, Header
  <1>12. ASSUME LoadPage PROVE Counted'
    BY <1>12, <1>0, ReplyAssumption DEF LoadPage
  <1>13. ASSUME EmbeddedData PROVE Counted'
    BY <1>13, <1>0, ReplyAssumption DEF EmbeddedData, Direct
  <1>14. ASSUME PlainHeader PROVE Counted'
    BY <1>14, <1>0, ReplyAssumption DEF PlainHeader
  <1>15. ASSUME PlainBlock PROVE Counted'
    BY <1>15, <1>0, ReplyAssumption DEF PlainBlock
  <1>16. ASSUME PlainEnd PROVE Counted'
    BY <1>16, <1>0, ReplyAssumption DEF PlainEnd, CloseFile
  <1>17. ASSUME DeflateInitFails PROVE Counted'
    BY <1>17, <1>0, ReplyAssumption DEF DeflateInitFails, Header
  <1>18. ASSUME DeflateInit PROVE Counted'
    BY <1>18, <1>0, ReplyAssumption DEF DeflateInit
  <1>19. ASSUME DeflateHeader PROVE Counted'
    BY <1>19, <1>0, ReplyAssumption DEF DeflateHeader, Header
  <1>20. ASSUME DeflateFlush PROVE Counted'
    BY <1>20, <1>0, ReplyAssumption DEF DeflateFlush, Flush
  <1>21. ASSUME DeflateTurn PROVE Counted'
    BY <1>21, <1>0, ReplyAssumption DEF DeflateTurn
  <1>22. ASSUME DeflateEnd PROVE Counted'
    BY <1>22, <1>0, ReplyAssumption DEF DeflateEnd, CloseFile
  <1>23. ASSUME PageNotThere PROVE Counted'
    BY <1>23, <1>0, ReplyAssumption DEF PageNotThere, ErrorInfo, Header
  <1>24. ASSUME LoadError PROVE Counted'
    BY <1>24, <1>0, ReplyAssumption DEF LoadError, SendHeaders, Header, String
  <1>25. ASSUME Echo PROVE Counted'
    BY <1>25, <1>0, ReplyAssumption DEF Echo, SendHeaders, Header, String
  <1>26. ASSUME CallError PROVE Counted'
    BY <1>26, <1>0, ReplyAssumption DEF CallError, SendHeaders, Header
  <1>27. ASSUME ErrorOutput PROVE Counted'
    BY <1>27, <1>0, ReplyAssumption DEF ErrorOutput, String
  <1>28. ASSUME ScriptEnds PROVE Counted'
    BY <1>28, <1>0, ReplyAssumption DEF ScriptEnds
  <1>29. ASSUME EndPage PROVE Counted'
    BY <1>29, <1>0, ReplyAssumption DEF EndPage, SendHeaders, Header
  <1>30. ASSUME CleanUp PROVE Counted'
    BY <1>30, <1>0, ReplyAssumption DEF CleanUp, FlushLast
  <1>31. ASSUME CloseSocket PROVE Counted'
    BY <1>31, <1>0, ReplyAssumption DEF CloseSocket
  <1> HIDE DEF headerFrame, replyVars, headerVars, bufVars, Goto, Put, Room, Calls, Counted, Once, InHeader
  <1>32. ASSUME FirstStep PROVE Counted'
    BY <1>32, <1>5, <1>6, <1>7, <1>8, <1>9 DEF FirstStep
  <1>33. ASSUME LoadStep PROVE Counted'
    BY <1>33, <1>10, <1>11, <1>12 DEF LoadStep
  <1>34. ASSUME SendBufferStep PROVE Counted'
    BY <1>34, <1>1, <1>2, <1>3, <1>4 DEF SendBufferStep
  <1>35. ASSUME StaticStep PROVE Counted'
    BY <1>35, <1>13, <1>14, <1>15, <1>16, <1>17, <1>18, <1>19, <1>20, <1>21, <1>22 DEF StaticStep
  <1>36. ASSUME PageStep PROVE Counted'
    BY <1>36, <1>23, <1>24, <1>25, <1>26, <1>27, <1>28, <1>29 DEF PageStep
  <1> QED
    BY <1>32, <1>33, <1>34, <1>35, <1>36, <1>30, <1>31 DEF Next, SendStep

\* An open file is closed.
LEMMA FileOpenNext ==
    ASSUME TypeOK, Calls, FileOpen, Next
    PROVE  FileOpen'
  <1>0. fp \in BOOLEAN
    BY DEF TypeOK
  <1> USE DEF headerFrame, replyVars, headerVars, bufVars, Goto, Put, Room, Calls, FileOpen, InHeader
  <1>1. ASSUME PutTurn PROVE FileOpen'
    BY <1>1, <1>0 DEF PutTurn, PutFull
  <1>2. ASSUME PutReturn PROVE FileOpen'
    BY <1>2, <1>0 DEF PutReturn, Goto
  <1>3. ASSUME HeaderEnd PROVE FileOpen'
    BY <1>3, <1>0 DEF HeaderEnd, FlushInternal
  <1>4. ASSUME InfoBody PROVE FileOpen'
    BY <1>4, <1>0 DEF InfoBody, String
  <1>5. ASSUME ReplyError PROVE FileOpen'
    BY <1>5, <1>0 DEF ReplyError, ErrorInfo, Header
  <1>6. ASSUME MethodNotAllowed PROVE FileOpen'
    BY <1>6, <1>0 DEF MethodNotAllowed, Header
  <1>7. ASSUME StartPage PROVE FileOpen'
    BY <1>7, <1>0 DEF StartPage
  <1>8. ASSUME EmbeddedHeader PROVE FileOpen'
    BY <1>8, <1>0 DEF EmbeddedHeader, Header
  <1>9. ASSUME OpenFile PROVE FileOpen'
    BY <1>9, <1>0 DEF OpenFile
  <1>10. ASSUME OpenPage PROVE FileOpen'
    BY <1>10, <1>0 DEF OpenPage
  <1>11. ASSUME NoLuaState PROVE FileOpen'
    BY <1>11, <1>0 DEF NoLuaState, Header
  <1>12. ASSUME LoadPage PROVE FileOpen'
    BY <1>12, <1>0 DEF LoadPage
  <1>13. ASSUME EmbeddedData PROVE FileOpen'
    BY <1>13, <1>0 DEF EmbeddedData, Direct
  <1>14. ASSUME PlainHeader PROVE FileOpen'
    BY <1>14, <1>0 DEF PlainHeader
  <1>15. ASSUME PlainBlock PROVE FileOpen'
    BY <1>15, <1>0 DEF PlainBlock
  <1>16. ASSUME PlainEnd PROVE FileOpen'
    BY <1>16, <1>0 DEF PlainEnd, CloseFile
  <1>17. ASSUME DeflateInitFails PROVE FileOpen'
    BY <1>17, <1>0 DEF DeflateInitFails, Header
  <1>18. ASSUME DeflateInit PROVE FileOpen'
    BY <1>18, <1>0 DEF DeflateInit
  <1>19. ASSUME DeflateHeader PROVE FileOpen'
    BY <1>19, <1>0 DEF DeflateHeader, Header
  <1>20. ASSUME DeflateFlush PROVE FileOpen'
    BY <1>20, <1>0 DEF DeflateFlush, Flush
  <1>21. ASSUME DeflateTurn PROVE FileOpen'
    BY <1>21, <1>0 DEF DeflateTurn
  <1>22. ASSUME DeflateEnd PROVE FileOpen'
    BY <1>22, <1>0 DEF DeflateEnd, CloseFile
  <1>23. ASSUME PageNotThere PROVE FileOpen'
    BY <1>23, <1>0 DEF PageNotThere, ErrorInfo, Header
  <1>24. ASSUME LoadError PROVE FileOpen'
    BY <1>24, <1>0 DEF LoadError, SendHeaders, Header, String
  <1>25. ASSUME Echo PROVE FileOpen'
    BY <1>25, <1>0 DEF Echo, SendHeaders, Header, String
  <1>26. ASSUME CallError PROVE FileOpen'
    BY <1>26, <1>0 DEF CallError, SendHeaders, Header
  <1>27. ASSUME ErrorOutput PROVE FileOpen'
    BY <1>27, <1>0 DEF ErrorOutput, String
  <1>28. ASSUME ScriptEnds PROVE FileOpen'
    BY <1>28, <1>0 DEF ScriptEnds
  <1>29. ASSUME EndPage PROVE FileOpen'
    BY <1>29, <1>0 DEF EndPage, SendHeaders, Header
  <1>30. ASSUME CleanUp PROVE FileOpen'
    BY <1>30, <1>0 DEF CleanUp, FlushLast
  <1>31. ASSUME CloseSocket PROVE FileOpen'
    BY <1>31, <1>0 DEF CloseSocket
  <1> HIDE DEF headerFrame, replyVars, headerVars, bufVars, Goto, Put, Room, Calls, FileOpen, InHeader
  <1>32. ASSUME FirstStep PROVE FileOpen'
    BY <1>32, <1>5, <1>6, <1>7, <1>8, <1>9 DEF FirstStep
  <1>33. ASSUME LoadStep PROVE FileOpen'
    BY <1>33, <1>10, <1>11, <1>12 DEF LoadStep
  <1>34. ASSUME SendBufferStep PROVE FileOpen'
    BY <1>34, <1>1, <1>2, <1>3, <1>4 DEF SendBufferStep
  <1>35. ASSUME StaticStep PROVE FileOpen'
    BY <1>35, <1>13, <1>14, <1>15, <1>16, <1>17, <1>18, <1>19, <1>20, <1>21, <1>22 DEF StaticStep
  <1>36. ASSUME PageStep PROVE FileOpen'
    BY <1>36, <1>23, <1>24, <1>25, <1>26, <1>27, <1>28, <1>29 DEF PageStep
  <1> QED
    BY <1>32, <1>33, <1>34, <1>35, <1>36, <1>30, <1>31 DEF Next, SendStep

-----------------------------------------------------------------------------
(***************************************************************************)
(* The invariant, and what it says of the reply.                           *)
(***************************************************************************)
LEMMA ReplyInvInit == Init => ReplyInv
  <1> SUFFICES ASSUME Init PROVE ReplyInv
    OBVIOUS
  <1>1. Len(<<>>) = 0 /\ (\A T : <<>> \in Seq(T)) /\ Data(<<>>) = {}
    BY EmptySeq DEF Data
  <1>2. /\ pc = "request" /\ ret = "request" /\ after = "request"
        /\ http_1_1 \in BOOLEAN /\ ~headers_sent /\ ~fp /\ stream_out = 0
        /\ headerLen = 0 /\ headers = 0 /\ ~announced /\ ~noLua
        /\ buf = <<>> /\ ~chunked /\ wire = <<>> /\ str = <<>> /\ written = 0
    BY DEF Init, BufInit
  <1>3. /\ headers_sent \in BOOLEAN /\ fp \in BOOLEAN /\ announced \in BOOLEAN /\ noLua \in BOOLEAN
        /\ chunked \in BOOLEAN
    BY Zenon DEF Init, BufInit
  <1>4. BufTypeOK
    BY <1>1, <1>2, <1>3, SendBufferAssumption DEF BufTypeOK
  <1>5. ControlTypes
    BY <1>2, <1>3, ReplyAssumption, SendBufferAssumption DEF ControlTypes, PCs
  <1>6. TypeOK
    BY <1>4, <1>5 DEF TypeOK, ControlTypes
  <1>7. Gone = 0
    <2>1. Gone = 0 - 0 - 0
      BY <1>1, <1>2 DEF Gone
    <2> QED
      BY <2>1
  <1>8. InOrder(<<>>, 0, 0)
    BY <1>1 DEF InOrder
  <1>9. Ordered
    BY <1>1, <1>2, <1>7, <1>8 DEF Ordered, Consecutive
  <1>10. Calls /\ Counted /\ FileOpen
    BY <1>2 DEF Calls, Counted, FileOpen, Once, InHeader
  <1>11. HeaderFirst
    BY <1>1, <1>2 DEF HeaderFirst, HeaderBytes
  <1>12. Framing
    BY <1>1, <1>2 DEF Framing
  <1> QED
    BY <1>6, <1>9, <1>10, <1>11, <1>12 DEF ReplyInv

\* A step of the code keeps the invariant.
LEMMA ReplyInvStep == ReplyInv /\ Next => ReplyInv'
  <1> SUFFICES ASSUME ReplyInv, Next PROVE ReplyInv'
    OBVIOUS
  <1>1. TypeOK /\ Ordered /\ Calls /\ Counted /\ HeaderFirst /\ FileOpen /\ Framing
    BY DEF ReplyInv
  <1>2. Kind
    BY <1>1, StepKind
  <1>3. BufTypeOK'
    BY <1>1, <1>2, BufTypes
  <1>4. ControlTypes'
    BY <1>1, TypesNext
  <1>5. TypeOK'
    BY <1>3, <1>4 DEF TypeOK, ControlTypes
  <1>6. Ordered'
    BY <1>1, <1>2, OrderedKind
  <1>7. HeaderFirst'
    BY <1>1, <1>2, HeaderFirstKind
  <1>8. Framing'
    BY <1>1, <1>2, FramingKind
  <1>9. Calls' /\ Counted' /\ FileOpen'
    BY <1>1, CallsNext, CountedNext, FileOpenNext
  <1> QED
    BY <1>5, <1>6, <1>7, <1>8, <1>9 DEF ReplyInv

\* ReplyInv says nothing of http_1_1 but its type.
LEMMA ReplyInvStutter ==
    ASSUME ReplyInv, http_1_1' \in BOOLEAN,
           UNCHANGED <<bufVars, pc, ret, after, headers_sent, fp, stream_out, noLua, headerVars>>
    PROVE  ReplyInv'
  <1>1. /\ UNCHANGED <<buf, chunked, wire, str, written, pc, ret, after>>
        /\ UNCHANGED <<headers_sent, fp, stream_out, noLua, headerLen, headers, announced>>
    BY DEF bufVars, headerVars
  <1>2. TypeOK'
    BY <1>1 DEF ReplyInv, TypeOK, BufTypeOK
  <1>3. Gone' = Gone /\ (InHeader' <=> InHeader)
    BY <1>1 DEF Gone, InHeader
  <1>4. Ordered'
    BY <1>1, <1>3 DEF ReplyInv, Ordered
  <1>5. Calls' /\ Counted' /\ FileOpen'
    BY <1>1, <1>3 DEF ReplyInv, Calls, Counted, FileOpen
  <1>6. HeaderFirst'
    BY <1>1 DEF ReplyInv, HeaderFirst, HeaderBytes
  <1>7. Framing'
    BY <1>1, <1>3 DEF ReplyInv, Framing
  <1> QED
    BY <1>2, <1>4, <1>5, <1>6, <1>7 DEF ReplyInv

\* The invariant, for a thread that answers one request.
THEOREM ReplyInvariant == Spec => []ReplyInv
  <1>1. ReplyInv /\ UNCHANGED vars => ReplyInv'
    BY ReplyInvStutter DEF vars, replyVars, ReplyInv, TypeOK
  <1> QED
    BY <1>1, ReplyInvInit, ReplyInvStep, PTL DEF Spec

\* The bytes that are sent, those in the buffer and the rest of the string
\* are the bytes of the reply, in order.
LEMMA OrderFromInv == ReplyInv => StreamInOrder
  <1> SUFFICES ASSUME ReplyInv PROVE StreamInOrder
    OBVIOUS
  <1>1. TypeOK /\ Ordered
    BY DEF ReplyInv
  <1>2. /\ wire \in Seq(Items) /\ buf \in Seq(Items) /\ str \in Seq(Items)
        /\ written \in Nat /\ Len(buf) \in Nat /\ Len(str) \in Nat
    BY <1>1, BuffersAreItems, LenProperties
  <1>3. /\ Gone \in Nat /\ Gone + Len(buf) + Len(str) = written
        /\ InOrder(wire, 0, Gone)
        /\ Consecutive(buf, Gone) /\ Consecutive(str, Gone + Len(buf))
    BY <1>1, <1>2 DEF Ordered, Gone
  <1> DEFINE g == Gone
             b == Gone + Len(buf)
  <1>4. InOrder(buf, g, b) /\ InOrder(str, b, b + Len(str))
    BY <1>2, <1>3, ConsecutiveInOrder
  <1>5. g \in Nat /\ b \in Nat /\ 0 <= g /\ g <= b /\ b <= written /\ b + Len(str) = written
    BY <1>2, <1>3
  <1> HIDE DEF g, b
  <1>6. InOrder(wire, 0, g)
    BY <1>3 DEF g
  <1>7. wire \o buf \in Seq(Items) /\ InOrder(wire \o buf, 0, b)
    BY <1>2, <1>4, <1>5, <1>6, InOrderJoined, Joined2
  <1>8. InOrder((wire \o buf) \o str, 0, written)
    <2>1. InOrder(str, b, written)
      BY <1>4, <1>5
    <2> DEFINE u == wire \o buf
    <2>2. u \in Seq(Items) /\ InOrder(u, 0, b)
      BY <1>7
    <2> HIDE DEF u
    <2>3. InOrder(u \o str, 0, written)
      BY <1>2, <1>5, <2>1, <2>2, InOrderJoined
    <2> QED
      BY <2>3 DEF u
  <1> QED
    BY <1>8 DEF StreamInOrder, Stream

\* A reply has one header, before anything else.
LEMMA HeaderFromInv == ReplyInv => OneHeaderFirst
  <1> SUFFICES ASSUME ReplyInv PROVE OneHeaderFirst
    OBVIOUS
  <1>1. TypeOK /\ HeaderFirst /\ Counted
    BY DEF ReplyInv
  <1>2. wire \in Seq(Items) /\ buf \in Seq(Items) /\ str \in Seq(Items)
    BY <1>1, BuffersAreItems
  <1>3. wire \o buf \in Seq(Items) /\ HeaderBytes(wire \o buf)
    BY <1>1, <1>2, HeaderBytesJoined, Joined2 DEF HeaderFirst
  <1>4. HeaderBytes((wire \o buf) \o str)
    BY <1>1, <1>2, <1>3, HeaderBytesJoined DEF HeaderFirst
  <1>5. \A k \in Data(Stream) : Stream[k].part = "header" <=> Stream[k].n <= headerLen
    BY <1>4 DEF Stream, HeaderBytes
  <1>6. headers <= 1 /\ (pc = "closed" => headers = 1)
    BY <1>1 DEF Counted, Once
  <1> QED
    BY <1>5, <1>6 DEF OneHeaderFirst

\* The reply is framed as its header says.
LEMMA FramedFromInv == ReplyInv => WellFramed
  <1> SUFFICES ASSUME ReplyInv, pc = "closed", headerLen <= BufSize
               PROVE  IF announced
                      THEN Sized(wire) /\ Ended(wire)
                      ELSE \A k \in 1..Len(wire) : wire[k].part \in Parts
    BY DEF WellFramed, Sized, Ended, Inside
  <1>1. headers = 1 /\ (announced <=> chunked) /\ ~InHeader
    BY DEF ReplyInv, Counted, Once, InHeader
  <1> QED
    BY <1>1 DEF ReplyInv, Framing

LEMMA ClosedFromInv == ReplyInv => FileClosed
  BY DEF ReplyInv, FileOpen, FileClosed, InHeader

\* TypeOK: the send buffer never holds more than its size.
THEOREM ReplyTypeCorrect == Spec => []TypeOK
  BY ReplyInvariant, PTL DEF ReplyInv

\* StreamInOrder: strings of any length, cut by a buffer of any size and any
\* fill, with flushes, direct sends and the compressor's blocks between them:
\* every byte is sent once, in the order it was written.
THEOREM BytesInOrder == Spec => []StreamInOrder
  BY ReplyInvariant, OrderFromInv, PTL

\* WellFramed: with any buffer the header fits into, the reply is what its
\* header announces: chunks of the sizes before them and one last chunk, or
\* no marks at all.
THEOREM ReplyFramed == Spec => []WellFramed
  BY ReplyInvariant, FramedFromInv, PTL

\* OneHeaderFirst: no way through the pages, the errors and the files writes
\* two headers, or none, or something before the header.
THEOREM OneHeader == Spec => []OneHeaderFirst
  BY ReplyInvariant, HeaderFromInv, PTL

\* FileClosed: every way through a reply closes its file, but for the one of
\* luasp.c:468-473 without a Lua state.
THEOREM FileIsClosed == Spec => []FileClosed
  BY ReplyInvariant, ClosedFromInv, PTL
=============================================================================
