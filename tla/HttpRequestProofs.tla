------------------------- MODULE HttpRequestProofs -------------------------
(***************************************************************************)
(* Proofs about the reading of a request for buffers and forms of every    *)
(* size, and requests that are cut into segments anywhere: no text         *)
(* outgrows its buffer, and a failure is not taken for a request.          *)
(***************************************************************************)
EXTENDS HttpRequest, SequenceTheorems, WellFoundedInduction, TLAPS

\* A set of natural numbers that is not empty has a least one, which
\* is what Min takes.
LEMMA LeastOf ==
    ASSUME NEW S, S \subseteq Nat, S # {}
    PROVE  \E m \in S : \A k \in S : m <= k
  <1> DEFINE Below == {p \in Nat \X Nat : p[1] < p[2]}
  <1>1. IsWellFoundedOn(Below, Nat)
    BY NatLessThanWellFounded DEF OpToRel
  <1>2. PICK m \in S : \A k \in S : ~ (<<k, m>> \in Below)
    BY <1>1, WFMin
  <1>3. ASSUME NEW k \in S PROVE m <= k
    <2>1. ~ (<<k, m>> \in Below) /\ k \in Nat /\ m \in Nat
      BY <1>2
    <2>2. ~ (k < m)
      BY <2>1
    <2> QED
      BY <2>1, <2>2
  <1> QED
    BY <1>3

\* The bytes that are still to come, and the text in the buffer.
Typed ==
    /\ input \in Seq(Alphabet) /\ rest \in Seq(Alphabet)
    /\ pos \in Nat /\ bufbytes \in Nat /\ buflen \in Nat /\ searched \in Nat
    /\ post \in BOOLEAN /\ bodyApart \in BOOLEAN

\* Before the body, at its fields, and when the request is read or given up.
EarlyPCs == {"alloc", "no_request", "first", "more", "line", "header", "header_recv", "post"}
FieldPCs == {"form", "form_first", "form_loop", "form_key", "form_value"}
LatePCs == {"read_end", "throw_away", "drain", "read", "done"}

\* Where the text is in its buffer: it ends where the code believes the bytes
\* of the buffer end, or behind that when the form came apart.
Placed ==
    /\ rpc \in EarlyPCs => ~post /\ pos = 0
    /\ rpc \in FieldPCs \cup {"form_rest"} => post
    /\ rpc = "more" => Len(rest) < 4
    /\ rpc \in {"header", "header_recv", "post"} => Len(rest) < buflen0
    /\ rpc \in FieldPCs => /\ bufbytes <= pos + Len(rest)
                           /\ ~bodyApart => bufbytes = pos + Len(rest)

\* What a failure leaves behind.
Failed ==
    /\ rpc = "no_request" => err = NoMemory
    /\ rpc = "broken" => err = NoMemory \/ bodyApart \/ ~post
    /\ fault \in {"first", "header", "form"} => rpc \in LatePCs /\ err # "okay"

ReadInv == Typed /\ Placed /\ BuffersFit /\ Failed

-----------------------------------------------------------------------------
(***************************************************************************)
(* The helpers.                                                            *)
(***************************************************************************)
LEMMA Parameters ==
    /\ LineBuf \in Nat /\ LineBuf > 6 /\ buflen0 \in Nat /\ buflen0 = LineBuf - 1 /\ buflen0 > 5
    /\ MinForm \in Nat /\ MinForm > 1 /\ MaxForm \in Nat /\ MaxForm > 0
  BY RequestAssumption, FormAssumption DEF buflen0

LEMMA MinIs ==
    ASSUME NEW S, S \subseteq Nat, S # {}
    PROVE  Min(S) \in S
  BY LeastOf DEF Min

LEMMA MaxOfTwo ==
    ASSUME NEW a \in Int, NEW b \in Int
    PROVE  Max({a, b}) \in {a, b} /\ a <= Max({a, b}) /\ b <= Max({a, b})
  <1> DEFINE S == {a, b}
  <1>1. \E x \in S : \A y \in S : x >= y
    <2>1. CASE a >= b
      BY <2>1
    <2>2. CASE b >= a
      BY <2>2
    <2> QED
      BY <2>1, <2>2
  <1>2. Max(S) \in S /\ \A y \in S : Max(S) >= y
    BY <1>1 DEF Max
  <1> QED
    BY <1>2

LEMMA PlaceIs ==
    ASSUME NEW s \in Seq(Alphabet), NEW c
    PROVE  Place(s, c) \in 0..Len(s)
  <1> DEFINE P == {k \in 1..Len(s) : s[k] = c}
  <1>1. Len(s) \in Nat /\ P \subseteq Nat /\ P \subseteq 1..Len(s)
    BY LenProperties
  <1>2. CASE P = {}
    BY <1>1, <1>2 DEF Place
  <1>3. CASE P # {}
    <2>1. Min(P) \in P
      BY <1>1, <1>3, MinIs
    <2> QED
      BY <1>1, <1>3, <2>1 DEF Place
  <1> QED
    BY <1>2, <1>3

LEMMA CrLfIs ==
    ASSUME NEW s \in Seq(Alphabet), NEW a \in Nat
    PROVE  CrLfAt(s, a) \in Nat
  <1> DEFINE P == {p \in a..(Len(s) - 1) : s[p] = CR /\ s[p + 1] = LF /\ \A k \in a..p : s[k] # Nul}
  <1>1. Len(s) \in Nat /\ P \subseteq Nat
    BY LenProperties
  <1>2. CASE P = {}
    BY <1>2 DEF CrLfAt
  <1>3. CASE P # {}
    <2>1. Min(P) \in P
      BY <1>1, <1>3, MinIs
    <2> QED
      BY <1>1, <1>3, <2>1 DEF CrLfAt
  <1> QED
    BY <1>2, <1>3

\* A piece of a text.
LEMMA PieceOf ==
    ASSUME NEW s \in Seq(Alphabet), NEW a \in Nat \ {0}, NEW b \in 0..Len(s)
    PROVE  /\ SubSeq(s, a, b) \in Seq(Alphabet)
           /\ Len(SubSeq(s, a, b)) = IF a <= b THEN b - a + 1 ELSE 0
  <1>1. Len(s) \in Nat /\ \A k \in 1..Len(s) : s[k] \in Alphabet
    BY LenProperties, ElementOfSeq
  <1>2. CASE a <= b
    BY <1>1, <1>2, SubSeqProperties
  <1>3. CASE ~(a <= b)
    BY <1>1, <1>3, SubSeqProperties
  <1> QED
    BY <1>2, <1>3

\* The text behind a place is shorter.
LEMMA RestOf ==
    ASSUME NEW s \in Seq(Alphabet), NEW p \in Nat \ {0}
    PROVE  /\ From(s, p) \in Seq(Alphabet)
           /\ Len(From(s, p)) \in Nat
           /\ Len(From(s, p)) = IF p <= Len(s) THEN Len(s) - p + 1 ELSE 0
  BY PieceOf, LenProperties DEF From

\* The text in front of a 0 byte.
LEMMA CStringTyped ==
    ASSUME NEW s \in Seq(Alphabet)
    PROVE  CString(s) \in Seq(Alphabet) /\ Len(CString(s)) \in 0..Len(s)
  <1>1. Len(s) \in Nat /\ Place(s, Nul) \in 0..Len(s)
    BY PlaceIs, LenProperties
  <1>2. CASE CString(s) = s
    BY <1>1, <1>2
  <1>3. CASE CString(s) = SubSeq(s, 1, Place(s, Nul) - 1)
    <2>1. CASE Place(s, Nul) = 0
      <3>1. SubSeq(s, 1, -1) = <<>>
        BY <1>1, SubSeqProperties
      <3> QED
        BY <1>1, <1>3, <2>1, <3>1, EmptySeq
    <2>2. CASE Place(s, Nul) # 0
      <3> DEFINE b == Place(s, Nul) - 1
      <3>1. b \in 0..Len(s)
        BY <1>1, <2>2
      <3> HIDE DEF b
      <3>2. SubSeq(s, 1, b) \in Seq(Alphabet) /\ Len(SubSeq(s, 1, b)) = IF 1 <= b THEN b - 1 + 1 ELSE 0
        BY <3>1, PieceOf
      <3> QED
        BY <1>1, <1>3, <3>1, <3>2 DEF b
    <2> QED
      BY <2>1, <2>2
  <1> QED
    BY <1>2, <1>3 DEF CString

\* A byte is found in the text, or not.
LEMMA StrChrIs ==
    ASSUME NEW s \in Seq(Alphabet), NEW c
    PROVE  StrChr(s, c) \in 0..Len(s)
  <1>1. CString(s) \in Seq(Alphabet) /\ Len(CString(s)) \in 0..Len(s) /\ Len(s) \in Nat
    BY CStringTyped, LenProperties
  <1>2. Place(CString(s), c) \in 0..Len(CString(s))
    BY <1>1, PlaceIs
  <1> QED
    BY <1>1, <1>2 DEF StrChr

LEMMA FoundIs ==
    ASSUME rest \in Seq(Alphabet), searched \in Nat, NEW c
    PROVE  Found(c) \in 0..Len(rest)
  <1> DEFINE text == From(rest, searched + 1)
             p == StrChr(text, c)
  <1>1. searched + 1 \in Nat \ {0} /\ Len(rest) \in Nat
    BY LenProperties
  <1>2. /\ text \in Seq(Alphabet) /\ Len(text) \in Nat
        /\ Len(text) = IF searched + 1 <= Len(rest) THEN Len(rest) - (searched + 1) + 1 ELSE 0
    BY <1>1, RestOf
  <1> HIDE DEF text
  <1>3. p \in 0..Len(text)
    BY <1>2, StrChrIs
  <1>4. Found(c) = IF p = 0 THEN 0 ELSE searched + p
    BY DEF Found, text
  <1> HIDE DEF p
  <1> QED
    BY <1>1, <1>2, <1>3, <1>4

\* A recv that gives bytes, nothing, or an error.
LEMMA Received ==
    ASSUME input \in Seq(Alphabet), NEW room \in Int, NEW k, k \in DOMAIN input, Arrive(room, k)
    PROVE  /\ k \in Nat /\ 1 <= k /\ k <= room
           /\ Segment(k) \in Seq(Alphabet) /\ Len(Segment(k)) = k
           /\ input' \in Seq(Alphabet)
  <1>1. Len(input) \in Nat /\ k \in Nat /\ 1 <= k /\ k <= room /\ k <= Len(input)
    BY LenProperties DEF Arrive
  <1>2. SubSeq(input, 1, k) \in Seq(Alphabet) /\ Len(SubSeq(input, 1, k)) = k
    BY <1>1, PieceOf
  <1>3. SubSeq(input, k + 1, Len(input)) \in Seq(Alphabet)
    BY <1>1, PieceOf
  <1> QED
    BY <1>1, <1>2, <1>3 DEF Arrive, Segment

LEMMA NotReceived ==
    ASSUME input \in Seq(Alphabet),
           Nothing \/ \E kind, at : RecvFails(kind, at)
    PROVE  input' \in Seq(Alphabet)
  <1>1. <<>> \in Seq(Alphabet)
    BY EmptySeq
  <1> QED
    BY <1>1 DEF Nothing, RecvFails

LEMMA Appended ==
    ASSUME NEW s \in Seq(Alphabet), NEW u \in Seq(Alphabet)
    PROVE  s \o u \in Seq(Alphabet) /\ Len(s \o u) = Len(s) + Len(u) /\ Len(s) \in Nat /\ Len(u) \in Nat
  BY ConcatProperties, LenProperties

\* What the buffer held before.
LEMMA GarbageIs ==
    ASSUME NEW g \in Garbage
    PROVE  g \in Seq(Alphabet) /\ Len(g) \in Nat
  <1> DEFINE G == {"x", SP, LF}
  <1>1. PICK n \in 0..3 : g \in [1..n -> G]
    BY DEF Garbage, BoundedSeq, SeqOf
  <1>2. g \in Seq(G)
    BY <1>1, IsASeq
  <1>3. G \subseteq Alphabet
    BY AlphabetAssumption
  <1> QED
    BY <1>2, <1>3, SeqMonotonic, LenProperties

-----------------------------------------------------------------------------
(***************************************************************************)
(* The bytes that a request is sent as: those of its first line, those of  *)
(* its header lines one by one, and those of its form.                     *)
(***************************************************************************)
\* f has what the first sequences of q are together, for every number of them.
Together(q, n, f) ==
    f = [i \in 1..n |-> IF i = 1 THEN q[i] ELSE f[i - 1] \o q[i]]

\* There is one: it exists for every number of them since it does for one less.
LEMMA TogetherIs ==
    ASSUME NEW q, NEW n \in Nat
    PROVE  \E f : Together(q, n, f)
  <1> DEFINE Bad == {m \in 0..n : \A f : ~Together(q, m, f)}
  <1>1. ASSUME Bad # {} PROVE FALSE
    <2>1. PICK m \in Bad : \A k \in Bad : m <= k
      <3>1. Bad \subseteq Nat
        OBVIOUS
      <3> HIDE DEF Bad
      <3> QED
        BY <1>1, <3>1, LeastOf
    <2>2. m \in 0..n /\ \A f : ~Together(q, m, f)
      BY <2>1
    <2>3. CASE m = 0
      <3> DEFINE f == [i \in 1..0 |-> q[i]]
      <3>1. f = [i \in 1..0 |-> IF i = 1 THEN q[i] ELSE f[i - 1] \o q[i]]
        OBVIOUS
      <3>2. Together(q, 0, f)
        BY <3>1 DEF Together
      <3> QED
        BY <2>2, <2>3, <3>2
    <2>4. CASE m # 0
      <3>1. m - 1 \in 0..n /\ m - 1 \notin Bad
        <4> HIDE DEF Bad
        <4> QED
          BY <2>1, <2>2, <2>4
      <3>2. PICK f : Together(q, m - 1, f)
        BY <3>1
      <3> DEFINE g == [i \in 1..m |-> IF i < m THEN f[i] ELSE IF i = 1 THEN q[i] ELSE f[i - 1] \o q[i]]
                 Next(h, i) == IF i = 1 THEN q[i] ELSE h[i - 1] \o q[i]
      <3>3. ASSUME NEW i \in 1..m PROVE g[i] = Next(g, i)
        <4>1. i > 1 => g[i - 1] = f[i - 1]
          BY <2>2
        <4>2. CASE i < m
          <5>1. i \in 1..(m - 1)
            BY <2>2, <4>2
          <5>2. f[i] = Next(f, i)
            BY <3>2, <5>1 DEF Together
          <5>3. g[i] = f[i]
            BY <4>2
          <5> HIDE DEF g
          <5> QED
            BY <4>1, <5>1, <5>2, <5>3
        <4>3. CASE ~(i < m)
          <5>1. g[i] = Next(f, i)
            BY <4>3
          <5> QED
            BY <4>1, <5>1
        <4> QED
          BY <4>2, <4>3
      <3>4. g = [i \in 1..m |-> g[i]]
        OBVIOUS
      <3> HIDE DEF g
      <3>5. g = [i \in 1..m |-> IF i = 1 THEN q[i] ELSE g[i - 1] \o q[i]]
        BY <3>3, <3>4
      <3> QED
        BY <2>2, <3>5 DEF Together
    <2> QED
      BY <2>3, <2>4
  <1>2. \E f : Together(q, n, f)
    BY <1>1
  <1> QED
    BY <1>2

\* FlattenSeq adds one sequence after the other.
LEMMA FlattenIs ==
    ASSUME NEW S, NEW q \in Seq(Seq(S))
    PROVE  \E f \in [0..Len(q) -> Seq(S)] :
              /\ f[0] = <<>>
              /\ \A i \in 1..Len(q) : f[i] = f[i - 1] \o q[i]
              /\ FlattenSeq(q) = f[Len(q)]
  <1> DEFINE n == Len(q)
  <1>1. n \in Nat /\ (\A i \in 1..n : q[i] \in Seq(S)) /\ <<>> \in Seq(S)
    BY LenProperties, ElementOfSeq, EmptySeq
  <1>2. CASE n = 0
    <2> DEFINE f == [i \in 0..0 |-> <<>>]
    <2>1. q = <<>>
      BY <1>2, EmptySeq
    <2>2. FlattenSeq(q) = <<>>
      BY <1>2, <2>1 DEF FlattenSeq
    <2>3. f \in [0..n -> Seq(S)] /\ f[0] = <<>> /\ \A i \in 1..n : FALSE
      BY <1>1, <1>2
    <2> QED
      BY <1>2, <2>2, <2>3
  <1>3. CASE n # 0
    <2> DEFINE h == CHOOSE h : h = [i \in 1..n |-> IF i = 1 THEN q[i] ELSE h[i - 1] \o q[i]]
    <2>1. FlattenSeq(q) = h[n]
      BY <1>3 DEF FlattenSeq
    <2>2. h = [i \in 1..n |-> IF i = 1 THEN q[i] ELSE h[i - 1] \o q[i]]
      BY <1>1, TogetherIs DEF Together
    <2> HIDE DEF h
    <2> DEFINE f == [i \in 0..n |-> IF i = 0 THEN <<>> ELSE h[i]]
               Bad == {i \in 0..n : f[i] \notin Seq(S)}
    <2>3. \A i \in 1..n : f[i] = h[i] /\ (i # 1 => f[i - 1] = h[i - 1])
      BY <1>1
    <2>4. ASSUME NEW i \in 1..n, f[i - 1] \in Seq(S) PROVE f[i] = f[i - 1] \o q[i]
      <3>1. CASE i = 1
        <4>1. f[i - 1] = <<>> /\ f[i] = q[i]
          BY <1>1, <2>2, <3>1
        <4>2. <<>> \o q[i] = q[i]
          BY <1>1, ConcatEmptySeq
        <4> QED
          BY <4>1, <4>2
      <3>2. CASE i # 1
        BY <2>2, <2>3, <3>2
      <3> QED
        BY <3>1, <3>2
    <2>5. f[0] = <<>>
      BY <1>1
    <2>6. f = [i \in 0..n |-> f[i]]
      OBVIOUS
    <2>7. FlattenSeq(q) = f[n]
      BY <1>1, <1>3, <2>1
    <2> HIDE DEF f
    <2>8. ASSUME Bad # {} PROVE FALSE
      <3>1. PICK m \in Bad : \A k \in Bad : m <= k
        <4>1. Bad \subseteq Nat
          OBVIOUS
        <4> HIDE DEF Bad
        <4> QED
          BY <2>8, <4>1, LeastOf
      <3>2. m \in 0..n /\ f[m] \notin Seq(S)
        BY <3>1
      <3>3. m # 0
        BY <1>1, <2>5, <3>2
      <3>4. m \in 1..n /\ m - 1 \in 0..n /\ m - 1 \notin Bad
        <4> HIDE DEF Bad
        <4> QED
          BY <1>1, <3>1, <3>2, <3>3
      <3>5. f[m - 1] \in Seq(S) /\ q[m] \in Seq(S)
        BY <1>1, <3>4
      <3>6. f[m] = f[m - 1] \o q[m]
        BY <2>4, <3>4, <3>5
      <3> QED
        BY <3>2, <3>5, <3>6, ConcatProperties
    <2>9. \A i \in 0..n : f[i] \in Seq(S)
      BY <2>8
    <2>10. \A i \in 1..n : f[i] = f[i - 1] \o q[i]
      <3>1. \A i \in 1..n : i - 1 \in 0..n
        BY <1>1
      <3> QED
        BY <2>4, <2>9, <3>1
    <2>11. f \in [0..n -> Seq(S)]
      BY ONLY <2>6, <2>9
    <2> HIDE DEF n
    <2>12. \E g \in [0..n -> Seq(S)] :
              g[0] = <<>> /\ (\A i \in 1..n : g[i] = g[i - 1] \o q[i]) /\ FlattenSeq(q) = g[n]
      BY ONLY <2>5, <2>7, <2>10, <2>11
    <2> QED
      BY ONLY <2>12 DEF n
  <1> HIDE DEF n
  <1> QED
    BY ONLY <1>2, <1>3, Zenon

\* The first sequence, then the others.
LEMMA FlattenFirst ==
    ASSUME NEW S, NEW q \in Seq(Seq(S)), NEW t \in Seq(Seq(S)), Len(q) = Len(t) + 1,
           \A i \in 1..Len(t) : t[i] = q[i + 1]
    PROVE  FlattenSeq(q) = q[1] \o FlattenSeq(t)
  <1>0. \A u, v, w \in Seq(S) : (w \o u) \o v = w \o (u \o v)
    BY ONLY ConcatAssociative
  <1> DEFINE n == Len(t)
  <1>1. n \in Nat /\ Len(q) = n + 1 /\ (\A i \in 1..(n + 1) : q[i] \in Seq(S))
    BY LenProperties, ElementOfSeq
  <1>2. PICK f \in [0..(n + 1) -> Seq(S)] :
           /\ f[0] = <<>>
           /\ \A i \in 1..(n + 1) : f[i] = f[i - 1] \o q[i]
           /\ FlattenSeq(q) = f[n + 1]
    <2>1. \E f \in [0..Len(q) -> Seq(S)] :
             /\ f[0] = <<>>
             /\ \A i \in 1..Len(q) : f[i] = f[i - 1] \o q[i]
             /\ FlattenSeq(q) = f[Len(q)]
      BY FlattenIs
    <2> HIDE DEF n
    <2> QED
      BY <1>1, <2>1
  <1>3. PICK g \in [0..n -> Seq(S)] :
           /\ g[0] = <<>>
           /\ \A i \in 1..n : g[i] = g[i - 1] \o t[i]
           /\ FlattenSeq(t) = g[n]
    BY FlattenIs
  <1> HIDE DEF n
  <1>4. f[1] = q[1] \o g[0]
    <2>1. f[1] = f[0] \o q[1] /\ q[1] \in Seq(S)
      <3>1. 1 \in 1..(n + 1) /\ 1 - 1 = 0
        BY <1>1
      <3> QED
        BY <1>1, <1>2, <3>1
    <2>2. <<>> \o q[1] = q[1] /\ q[1] \o <<>> = q[1]
      BY <2>1, ConcatEmptySeq
    <2> QED
      BY <1>2, <1>3, <2>1, <2>2
  <1>5. ASSUME NEW i \in 1..n, f[i] = q[1] \o g[i - 1]
        PROVE  f[i + 1] = q[1] \o g[i]
    <2>1. f[i + 1] = f[i] \o q[i + 1]
      <3>1. i + 1 \in 1..(n + 1) /\ (i + 1) - 1 = i
        BY <1>1
      <3> QED
        BY <1>2, <3>1
    <2>2. g[i] = g[i - 1] \o q[i + 1]
      BY <1>3 DEF n
    <2>3. q[1] \in Seq(S) /\ g[i - 1] \in Seq(S) /\ q[i + 1] \in Seq(S)
      <3>1. 1 \in 1..(n + 1) /\ i - 1 \in 0..n /\ i + 1 \in 1..(n + 1)
        BY <1>1
      <3> QED
        BY <1>1, <1>3, <3>1
    <2>4. (q[1] \o g[i - 1]) \o q[i + 1] = q[1] \o (g[i - 1] \o q[i + 1])
      <3> DEFINE u == g[i - 1]
                 v == q[i + 1]
                 w == q[1]
      <3>1. u \in Seq(S) /\ v \in Seq(S) /\ w \in Seq(S)
        BY <2>3
      <3> HIDE DEF u, v, w
      <3>2. (w \o u) \o v = w \o (u \o v)
        BY <1>0, <3>1
      <3> QED
        BY <3>2 DEF u, v, w
    <2> QED
      BY <1>5, <2>1, <2>2, <2>4
  <1> DEFINE Bad == {i \in 0..n : f[i + 1] # q[1] \o g[i]}
  <1>6. ASSUME Bad # {} PROVE FALSE
    <2>1. PICK m \in Bad : \A k \in Bad : m <= k
      <3>1. Bad \subseteq Nat
        OBVIOUS
      <3> HIDE DEF Bad
      <3> QED
        BY <1>6, <3>1, LeastOf
    <2>2. m \in 0..n /\ f[m + 1] # q[1] \o g[m]
      BY <2>1
    <2>3. m # 0
      <3>1. 0 + 1 = 1
        OBVIOUS
      <3>2. ASSUME m = 0 PROVE FALSE
        <4>1. m + 1 = 1
          BY <3>1, <3>2
        <4> QED
          BY <1>4, <2>2, <3>2, <4>1, Zenon
      <3> QED
        BY <3>2
    <2>4. m \in 1..n /\ m - 1 \in 0..n /\ m - 1 \notin Bad /\ (m - 1) + 1 = m
      <3> HIDE DEF Bad
      <3> QED
        BY <1>1, <2>1, <2>2, <2>3
    <2>5. f[m] = q[1] \o g[m - 1]
      BY <2>4
    <2> QED
      BY <1>5, <2>2, <2>4, <2>5
  <1>7. n \in 0..n
    BY <1>1
  <1>8. f[n + 1] = q[1] \o g[n]
    BY <1>6, <1>7
  <1> QED
    BY <1>2, <1>3, <1>8

\* One sequence, or none.
LEMMA FlattenNone ==
    ASSUME NEW S, NEW q \in Seq(Seq(S)), Len(q) = 0
    PROVE  FlattenSeq(q) = <<>>
  <1>1. \E f : f[0] = <<>> /\ FlattenSeq(q) = f[Len(q)]
    BY FlattenIs
  <1> QED
    BY ONLY <1>1, Len(q) = 0

LEMMA FlattenTyped ==
    ASSUME NEW S, NEW q \in Seq(Seq(S))
    PROVE  FlattenSeq(q) \in Seq(S)
  <1>1. Len(q) \in 0..Len(q)
    BY LenProperties
  <1>2. PICK f \in [0..Len(q) -> Seq(S)] : FlattenSeq(q) = f[Len(q)]
    BY FlattenIs
  <1> QED
    BY <1>1, <1>2

-----------------------------------------------------------------------------
\* The texts of a request are sequences of bytes.
LEMMA BytesAre ==
    /\ <<>> \in Seq(Alphabet) /\ <<SP>> \in Seq(Alphabet) /\ <<QMARK>> \in Seq(Alphabet)
    /\ <<AMP>> \in Seq(Alphabet) /\ <<EQUAL>> \in Seq(Alphabet)
    /\ CRLF \in Seq(Alphabet) /\ Len(CRLF) = 2 /\ CRLF[1] = CR /\ CRLF[2] = LF
    /\ <<COLON, SP>> \in Seq(Alphabet) /\ <<SEMICOLON, SP>> \in Seq(Alphabet)
    /\ <<"Cookie">> \in Seq(Alphabet)
  BY AlphabetAssumption DEF CRLF

\* A sequence of texts.
LEMMA TextsTyped ==
    ASSUME NEW n \in Nat, NEW q, q = [k \in 1..n |-> q[k]], \A k \in 1..n : q[k] \in Seq(Alphabet)
    PROVE  q \in Seq(Seq(Alphabet)) /\ Len(q) = n
  <1>1. q \in [1..n -> Seq(Alphabet)]
    OBVIOUS
  <1>2. q \in Seq(Seq(Alphabet))
    BY <1>1, SeqDef
  <1> QED
    BY <1>1, <1>2, LenProperties

LEMMA WordsJoin == \A s, t \in Seq(Alphabet) : s \o t \in Seq(Alphabet)
  BY ConcatProperties

LEMMA PairTextTyped ==
    ASSUME NEW p \in Pair
    PROVE  PairText(p) \in Seq(Alphabet)
  <1>1. p.key \in Seq(Alphabet) /\ p.value \in Seq(Alphabet)
    BY DEF Pair
  <1> QED
    BY <1>1, BytesAre, WordsJoin DEF PairText

LEMMA HeaderTextTyped ==
    ASSUME NEW h \in Pair
    PROVE  HeaderText(h) \in Seq(Alphabet) /\ HeaderLine(h) \in Seq(Alphabet)
  <1>1. h.key \in Seq(Alphabet) /\ h.value \in Seq(Alphabet)
    BY DEF Pair
  <1>2. HeaderText(h) \in Seq(Alphabet)
    BY <1>1, BytesAre, WordsJoin DEF HeaderText
  <1> QED
    BY <1>2, BytesAre, WordsJoin DEF HeaderLine

\* The texts of pairs, each but the first behind a separator.
PairPiece(pairs, sep, k) == (IF k = 1 THEN <<>> ELSE sep) \o PairText(pairs[k])

LEMMA PairPieces ==
    ASSUME NEW pairs \in Seq(Pair), NEW sep \in Seq(Alphabet),
           NEW q, q = [k \in DOMAIN pairs |-> PairPiece(pairs, sep, k)]
    PROVE  /\ q \in Seq(Seq(Alphabet)) /\ Len(q) = Len(pairs)
           /\ \A k \in 1..Len(pairs) : q[k] = PairPiece(pairs, sep, k)
  <1>1. Len(pairs) \in Nat /\ DOMAIN pairs = 1..Len(pairs) /\ \A k \in 1..Len(pairs) : pairs[k] \in Pair
    BY LenProperties, ElementOfSeq
  <1>2. ASSUME NEW k \in 1..Len(pairs) PROVE q[k] = PairPiece(pairs, sep, k) /\ q[k] \in Seq(Alphabet)
    <2>1. q[k] = PairPiece(pairs, sep, k)
      BY <1>1
    <2>2. PairText(pairs[k]) \in Seq(Alphabet)
      BY <1>1, PairTextTyped
    <2>3. (IF k = 1 THEN <<>> ELSE sep) \in Seq(Alphabet)
      BY BytesAre
    <2> QED
      BY <2>1, <2>2, <2>3, WordsJoin DEF PairPiece
  <1>3. q = [k \in 1..Len(pairs) |-> q[k]]
    BY <1>1
  <1>4. q \in Seq(Seq(Alphabet)) /\ Len(q) = Len(pairs)
    BY <1>1, <1>2, <1>3, TextsTyped
  <1> QED
    BY <1>2, <1>4

LEMMA JoinedTyped ==
    ASSUME NEW pairs \in Seq(Pair), NEW sep \in Seq(Alphabet)
    PROVE  Joined(pairs, sep) \in Seq(Alphabet)
  <1> DEFINE q == [k \in DOMAIN pairs |-> PairPiece(pairs, sep, k)]
  <1>1. q \in Seq(Seq(Alphabet))
    BY PairPieces
  <1>2. Joined(pairs, sep) = FlattenSeq(q)
    BY DEF Joined, PairPiece
  <1> HIDE DEF q
  <1>3. FlattenSeq(q) \in Seq(Alphabet)
    BY <1>1, FlattenTyped
  <1> QED
    BY <1>2, <1>3

\* The parts of a request.
LEMMA PartsAre ==
    ASSUME NEW r \in Requests
    PROVE  /\ r.method \in Seq(Alphabet) /\ r.url \in Seq(Alphabet) /\ r.version \in Seq(Alphabet)
           /\ r.vars \in Seq(Pair) /\ r.headers \in Seq(Pair) /\ r.cookies \in Seq(Pair) /\ r.form \in Seq(Pair)
  <1>1. r \in RequestParts
    BY RequestsAssumption
  <1> QED
    BY <1>1 DEF RequestParts

\* One line has all cookies, and comes behind the other lines.
LEMMA CookieLinesAre ==
    ASSUME NEW r \in Requests
    PROVE  /\ CookieLines(r) \in Seq(Pair)
           /\ r.cookies = <<>> => CookieLines(r) = <<>> /\ Len(CookieLines(r)) = 0
           /\ r.cookies # <<>> =>
                /\ Len(CookieLines(r)) = 1
                /\ CookieLines(r)[1] = [key |-> <<"Cookie">>, value |-> Joined(r.cookies, <<SEMICOLON, SP>>)]
  <1>1. r.cookies \in Seq(Pair)
    BY PartsAre
  <1>2. CASE r.cookies = <<>>
    BY <1>2, EmptySeq DEF CookieLines
  <1>3. CASE r.cookies # <<>>
    <2> DEFINE v == Joined(r.cookies, <<SEMICOLON, SP>>)
               c == [key |-> <<"Cookie">>, value |-> v]
    <2>1. v \in Seq(Alphabet)
      BY <1>1, BytesAre, JoinedTyped
    <2> HIDE DEF v
    <2>2. c \in Pair
      BY <2>1, BytesAre DEF Pair
    <2>3. CookieLines(r) = <<c>>
      BY <1>3 DEF CookieLines, v
    <2> HIDE DEF c
    <2>4. <<c>> \in Seq(Pair) /\ Len(<<c>>) = 1 /\ <<c>>[1] = c
      BY <2>2
    <2> QED
      BY <1>3, <2>3, <2>4 DEF c, v
  <1> QED
    BY <1>2, <1>3

LEMMA HeaderLinesAre ==
    ASSUME NEW r \in Requests
    PROVE  /\ HeaderLines(r) \in Seq(Pair)
           /\ Len(HeaderLines(r)) = Len(r.headers) + Len(CookieLines(r))
           /\ Len(r.headers) \in Nat /\ Len(HeaderLines(r)) \in Nat
           /\ \A k \in 1..Len(r.headers) : HeaderLines(r)[k] = r.headers[k] /\ r.headers[k] \in Pair
           /\ \A k \in 1..Len(HeaderLines(r)) : HeaderLines(r)[k] \in Pair
           /\ r.cookies # <<>> => HeaderLines(r)[Len(r.headers) + 1] = CookieLines(r)[1]
  <1> DEFINE h == r.headers
             c == CookieLines(r)
  <1>1. h \in Seq(Pair) /\ c \in Seq(Pair)
    BY PartsAre, CookieLinesAre
  <1>2. r.cookies # <<>> => Len(c) = 1
    BY CookieLinesAre
  <1>3. HeaderLines(r) = h \o c
    BY DEF HeaderLines
  <1> HIDE DEF h, c
  <1>4. /\ h \o c \in Seq(Pair) /\ Len(h \o c) = Len(h) + Len(c)
        /\ Len(h) \in Nat /\ Len(c) \in Nat
        /\ \A k \in 1..(Len(h) + Len(c)) : (h \o c)[k] = IF k <= Len(h) THEN h[k] ELSE c[k - Len(h)]
    BY <1>1, ConcatProperties, LenProperties
  <1>5. \A k \in 1..Len(h) : (h \o c)[k] = h[k] /\ h[k] \in Pair
    BY <1>1, <1>4, ElementOfSeq
  <1>6. r.cookies # <<>> => (h \o c)[Len(h) + 1] = c[1]
    BY <1>2, <1>4
  <1>7. \A k \in 1..Len(h \o c) : (h \o c)[k] \in Pair
    BY <1>4, ElementOfSeq
  <1>8. Len(h \o c) \in Nat
    BY <1>4
  <1> QED
    BY <1>3, <1>4, <1>5, <1>6, <1>7, <1>8 DEF h, c

\* The header lines behind the first k, and all that comes behind those.
LinesFrom(r, k) == [j \in 1..(Len(HeaderLines(r)) - k) |-> HeaderLine(HeaderLines(r)[k + j])]
FormText(r) == Joined(r.form, <<AMP>>)
After(r, k) == FlattenSeq(LinesFrom(r, k)) \o (CRLF \o FormText(r))

\* A text may be split anywhere.
LEMMA Assoc == \A s, t, u \in Seq(Alphabet) : (s \o t) \o u = s \o (t \o u)
  BY ConcatAssociative

LEMMA LinesFromAre ==
    ASSUME NEW r \in Requests, NEW k \in 0..Len(HeaderLines(r))
    PROVE  /\ LinesFrom(r, k) \in Seq(Seq(Alphabet))
           /\ Len(LinesFrom(r, k)) = Len(HeaderLines(r)) - k
           /\ \A j \in 1..(Len(HeaderLines(r)) - k) :
                LinesFrom(r, k)[j] = HeaderLine(HeaderLines(r)[k + j])
  <1> DEFINE m == Len(HeaderLines(r)) - k
             q == LinesFrom(r, k)
  <1>1. m \in Nat /\ \A j \in 1..m : HeaderLines(r)[k + j] \in Pair
    <2>1. Len(HeaderLines(r)) \in Nat /\ \A i \in 1..Len(HeaderLines(r)) : HeaderLines(r)[i] \in Pair
      BY HeaderLinesAre
    <2>2. \A j \in 1..m : k + j \in 1..Len(HeaderLines(r))
      BY <2>1
    <2> QED
      BY <2>1, <2>2
  <1>2. q = [j \in 1..m |-> HeaderLine(HeaderLines(r)[k + j])]
    BY DEF LinesFrom
  <1> HIDE DEF m, q
  <1>3. \A j \in 1..m : q[j] = HeaderLine(HeaderLines(r)[k + j]) /\ q[j] \in Seq(Alphabet)
    BY <1>1, <1>2, HeaderTextTyped
  <1>4. q = [j \in 1..m |-> q[j]]
    BY <1>2
  <1>5. q \in Seq(Seq(Alphabet)) /\ Len(q) = m
    BY <1>1, <1>3, <1>4, TextsTyped
  <1> QED
    BY <1>3, <1>5 DEF m, q

LEMMA FormTyped ==
    ASSUME NEW r \in Requests
    PROVE  FormText(r) \in Seq(Alphabet)
  <1>1. r.form \in Seq(Pair)
    BY PartsAre
  <1> QED
    BY <1>1, BytesAre, JoinedTyped DEF FormText

LEMMA AfterTyped ==
    ASSUME NEW r \in Requests, NEW k \in 0..Len(HeaderLines(r))
    PROVE  FlattenSeq(LinesFrom(r, k)) \in Seq(Alphabet) /\ After(r, k) \in Seq(Alphabet)
  <1>1. LinesFrom(r, k) \in Seq(Seq(Alphabet))
    BY LinesFromAre
  <1>2. FlattenSeq(LinesFrom(r, k)) \in Seq(Alphabet)
    BY <1>1, FlattenTyped
  <1> QED
    BY <1>2, FormTyped, BytesAre, WordsJoin DEF After

\* Behind the last header line an empty one comes, and then the form.
LEMMA AfterLast ==
    ASSUME NEW r \in Requests
    PROVE  After(r, Len(HeaderLines(r))) = CRLF \o FormText(r)
  <1> DEFINE n == Len(HeaderLines(r))
  <1>1. n \in 0..n /\ n - n = 0
    BY HeaderLinesAre
  <1>2. LinesFrom(r, n) \in Seq(Seq(Alphabet)) /\ Len(LinesFrom(r, n)) = 0
    BY <1>1, LinesFromAre
  <1>3. FlattenSeq(LinesFrom(r, n)) = <<>>
    BY <1>2, FlattenNone
  <1>4. CRLF \o FormText(r) \in Seq(Alphabet)
    BY FormTyped, BytesAre, WordsJoin
  <1> QED
    BY <1>3, <1>4, ConcatEmptySeq DEF After

\* Behind k header lines comes the next one, then what comes behind k + 1.
LEMMA AfterNext ==
    ASSUME NEW r \in Requests, NEW k \in 0..Len(HeaderLines(r)), k < Len(HeaderLines(r))
    PROVE  /\ After(r, k) = HeaderText(HeaderLines(r)[k + 1]) \o (CRLF \o After(r, k + 1))
           /\ k + 1 \in 0..Len(HeaderLines(r)) /\ k + 1 \in 1..Len(HeaderLines(r))
  <1> DEFINE n == Len(HeaderLines(r))
             h == HeaderText(HeaderLines(r)[k + 1])
             e == CRLF
             f == FlattenSeq(LinesFrom(r, k + 1))
             z == e \o FormText(r)
  <1>1. n \in Nat /\ k \in Nat /\ k + 1 \in 0..n /\ k + 1 \in 1..n /\ HeaderLines(r)[k + 1] \in Pair
    BY HeaderLinesAre
  <1>2. h \in Seq(Alphabet) /\ HeaderLine(HeaderLines(r)[k + 1]) = h \o e
    BY <1>1, HeaderTextTyped DEF HeaderLine
  <1>3. e \in Seq(Alphabet) /\ f \in Seq(Alphabet) /\ z \in Seq(Alphabet)
    BY <1>1, AfterTyped, FormTyped, BytesAre, WordsJoin
  <1>4. FlattenSeq(LinesFrom(r, k)) = (h \o e) \o f
    <2> DEFINE q == LinesFrom(r, k)
               t == LinesFrom(r, k + 1)
    <2>1. /\ q \in Seq(Seq(Alphabet)) /\ Len(q) = n - k
          /\ \A j \in 1..(n - k) : q[j] = HeaderLine(HeaderLines(r)[k + j])
      BY LinesFromAre
    <2>2. /\ t \in Seq(Seq(Alphabet)) /\ Len(t) = n - (k + 1)
          /\ \A j \in 1..(n - (k + 1)) : t[j] = HeaderLine(HeaderLines(r)[k + 1 + j])
      BY <1>1, LinesFromAre
    <2> HIDE DEF q, t
    <2>3. Len(q) = Len(t) + 1
      BY <1>1, <2>1, <2>2
    <2>4. ASSUME NEW i \in 1..Len(t) PROVE t[i] = q[i + 1]
      <3>1. i + 1 \in 1..(n - k) /\ k + (i + 1) = k + 1 + i /\ i \in 1..(n - (k + 1))
        BY <1>1, <2>2
      <3> QED
        BY <2>1, <2>2, <3>1
    <2>5. FlattenSeq(q) = q[1] \o FlattenSeq(t)
      BY <2>1, <2>2, <2>3, <2>4, FlattenFirst
    <2>6. 1 \in 1..(n - k)
      BY <1>1
    <2>7. q[1] = h \o e
      BY <1>2, <2>1, <2>6
    <2> QED
      BY <2>5, <2>7 DEF q, t
  <1>5. After(r, k) = FlattenSeq(LinesFrom(r, k)) \o z /\ After(r, k + 1) = f \o z
    BY DEF After
  <1> HIDE DEF n, h, e, f, z
  <1>6. ((h \o e) \o f) \o z = h \o (e \o (f \o z))
    <2> DEFINE x == h \o e
               y == f \o z
    <2>1. x \in Seq(Alphabet) /\ y \in Seq(Alphabet)
      BY <1>2, <1>3, WordsJoin
    <2>2. (x \o f) \o z = x \o y
      <3> HIDE DEF x
      <3>1. x \in Seq(Alphabet) /\ f \in Seq(Alphabet) /\ z \in Seq(Alphabet)
        BY <1>3, <2>1
      <3> QED
        BY ONLY <3>1, Assoc
    <2>3. x \o y = h \o (e \o y)
      <3> HIDE DEF y
      <3>1. h \in Seq(Alphabet) /\ e \in Seq(Alphabet) /\ y \in Seq(Alphabet)
        BY <1>2, <1>3, <2>1
      <3> QED
        BY ONLY <3>1, Assoc
    <2> QED
      BY <2>2, <2>3
  <1>7. After(r, k) = h \o (e \o After(r, k + 1))
    BY <1>4, <1>5, <1>6
  <1> QED
    BY <1>1, <1>7 DEF n, h, e

LEMMA TargetTyped ==
    ASSUME NEW r \in Requests
    PROVE  Target(r) \in Seq(Alphabet) /\ FirstLine(r) \in Seq(Alphabet)
  <1>1. r.method \in Seq(Alphabet) /\ r.url \in Seq(Alphabet) /\ r.version \in Seq(Alphabet) /\ r.vars \in Seq(Pair)
    BY PartsAre
  <1>2. Joined(r.vars, <<AMP>>) \in Seq(Alphabet)
    BY <1>1, BytesAre, JoinedTyped
  <1>3. Target(r) \in Seq(Alphabet)
    BY <1>1, <1>2, BytesAre, WordsJoin DEF Target
  <1> QED
    BY <1>1, <1>3, BytesAre, WordsJoin DEF FirstLine

\* A request is sent as its first line, and all that comes behind it.
LEMMA EncodedIs ==
    ASSUME NEW r \in Requests
    PROVE  /\ Encoded(r) \in Seq(Alphabet)
           /\ Encoded(r) = FirstLine(r) \o (CRLF \o After(r, 0))
  <1> DEFINE a == FirstLine(r)
             e == CRLF
             f == FlattenSeq(LinesFrom(r, 0))
             g == FormText(r)
             n == Len(HeaderLines(r))
  <1>1. 0 \in 0..n /\ n \in Nat /\ n - 0 = n /\ DOMAIN HeaderLines(r) = 1..n
    BY HeaderLinesAre, LenProperties
  <1>2. a \in Seq(Alphabet) /\ e \in Seq(Alphabet) /\ f \in Seq(Alphabet) /\ g \in Seq(Alphabet)
    BY <1>1, TargetTyped, AfterTyped, FormTyped, BytesAre
  <1>3. LinesFrom(r, 0) = [k \in DOMAIN HeaderLines(r) |-> HeaderLine(HeaderLines(r)[k])]
    <2>1. \A j \in 1..n : 0 + j = j
      BY <1>1
    <2> QED
      BY <1>1, <2>1 DEF LinesFrom
  <1>4. Encoded(r) = (((a \o e) \o f) \o e) \o g
    BY <1>3 DEF Encoded, FormText
  <1>5. After(r, 0) = f \o (e \o g)
    BY DEF After
  <1> HIDE DEF a, e, f, g
  <1>6. /\ a \o e \in Seq(Alphabet) /\ (a \o e) \o f \in Seq(Alphabet) /\ e \o g \in Seq(Alphabet)
        /\ f \o (e \o g) \in Seq(Alphabet)
    BY <1>2, WordsJoin
  <1>7. (((a \o e) \o f) \o e) \o g = a \o (e \o (f \o (e \o g)))
    <2> DEFINE x == a \o e
               y == x \o f
               w == e \o g
               v == f \o w
    <2>1. x \in Seq(Alphabet) /\ y \in Seq(Alphabet) /\ w \in Seq(Alphabet) /\ v \in Seq(Alphabet)
      BY <1>6
    <2>2. (y \o e) \o g = y \o w
      <3> HIDE DEF y
      <3>1. y \in Seq(Alphabet) /\ e \in Seq(Alphabet) /\ g \in Seq(Alphabet)
        BY <1>2, <2>1
      <3> QED
        BY ONLY <3>1, Assoc
    <2>3. y \o w = x \o v
      <3> HIDE DEF x, w
      <3>1. x \in Seq(Alphabet) /\ f \in Seq(Alphabet) /\ w \in Seq(Alphabet)
        BY <1>2, <2>1
      <3> QED
        BY ONLY <3>1, Assoc
    <2>4. x \o v = a \o (e \o v)
      <3> HIDE DEF v
      <3>1. a \in Seq(Alphabet) /\ e \in Seq(Alphabet) /\ v \in Seq(Alphabet)
        BY <1>2, <2>1
      <3> QED
        BY ONLY <3>1, Assoc
    <2> QED
      BY <2>2, <2>3, <2>4
  <1>8. a \o (e \o (f \o (e \o g))) \in Seq(Alphabet)
    BY <1>2, <1>6, WordsJoin
  <1> QED
    BY <1>4, <1>5, <1>7, <1>8 DEF a, e

-----------------------------------------------------------------------------
(***************************************************************************)
(* The steps, up to the header of a POST.                                  *)
(***************************************************************************)

\* The invariant at the end of a step that reads no field, for the parts that
\* such a step changes.
LEMMA ReadInvNext ==
    ASSUME ReadInv, input' \in Seq(Alphabet), rest' \in Seq(Alphabet),
           UNCHANGED <<pos, searched, bufbytes, buflen, post, bodyApart>>,
           rpc' \notin FieldPCs \cup {"form_rest"},
           rpc \in EarlyPCs \ {"post"} \/ (rpc' \in LatePCs \cup {"post"} /\ rest' = rest),
           rpc \in EarlyPCs \/ rpc' \notin EarlyPCs,
           ~post => Len(rest') <= buflen0,
           rpc' = "more" => Len(rest') < 4,
           rpc' \in {"header", "header_recv", "post"} => Len(rest') < buflen0,
           Failed'
    PROVE  ReadInv'
  <1>1. Typed'
    BY DEF ReadInv, Typed
  <1>2. Placed'
    BY DEF ReadInv, Placed, EarlyPCs, FieldPCs, LatePCs
  <1>3. BuffersFit'
    BY DEF ReadInv, BuffersFit, Placed, EarlyPCs, FieldPCs, LatePCs
  <1> QED
    BY <1>1, <1>2, <1>3 DEF ReadInv

\* A line, its end behind the text that was searched, leaves less text.
LEMMA LineTaken ==
    ASSUME rest \in Seq(Alphabet), NEW text \in Seq(Alphabet), NEW p \in Nat \ {0},
           Len(text) <= buflen0, Len(text) > 0, TakeLine(text, p)
    PROVE  \/ ReadEnd("malformed") /\ rest' = rest
           \/ Goes("header") /\ rest' \in Seq(Alphabet) /\ Len(rest') < buflen0
  <1>1. CASE ReadEnd("malformed") /\ rest' = rest
    BY <1>1
  <1>2. CASE Goes("header") /\ rest' = BehindLine(text, p)
    <2>1. /\ From(text, p + 2) \in Seq(Alphabet)
          /\ Len(From(text, p + 2)) = IF p + 2 <= Len(text) THEN Len(text) - (p + 2) + 1 ELSE 0
      BY RestOf
    <2>2. Len(text) \in Nat
      BY LenProperties
    <2> QED
      BY <1>2, <2>1, <2>2, Parameters DEF BehindLine
  <1> QED
    BY <1>1, <1>2 DEF TakeLine

\* What the buffer may hold behind a 0 byte.
LEMMA StaleLinesAre ==
    ASSUME NEW text \in StaleLines
    PROVE  text \in Seq(Alphabet) /\ Len(text) < buflen0
  <1>1. {"x", COLON, CR, LF} \subseteq Alphabet
    BY AlphabetAssumption
  <1>2. CASE text = <<>>
    BY <1>2, EmptySeq, Parameters
  <1>3. CASE text = <<"x", COLON, CR, LF>>
    <2>1. <<"x", COLON, CR, LF>> \in Seq(Alphabet) /\ Len(<<"x", COLON, CR, LF>>) = 4
      BY <1>1
    <2> QED
      BY <1>3, <2>1, Parameters
  <1>4. CASE text = <<"x", CR, LF>>
    <2>1. <<"x", CR, LF>> \in Seq(Alphabet) /\ Len(<<"x", CR, LF>>) = 3
      BY <1>1
    <2> QED
      BY <1>4, <2>1, Parameters
  <1> QED
    BY <1>2, <1>3, <1>4 DEF StaleLines

LEMMA EarlyKeeps ==
    ASSUME ReadInv, AllocRequest \/ FirstRecv \/ MoreRecv \/ RequestLine \/ NextLine \/ LineRecv
    PROVE  ReadInv'
  <1>1. /\ input \in Seq(Alphabet) /\ rest \in Seq(Alphabet) /\ Len(rest) \in Nat
        /\ <<>> \in Seq(Alphabet) /\ Len(<<>>) = 0
    BY LenProperties, EmptySeq DEF ReadInv, Typed
  <1>2. rpc \in {"alloc", "first", "more", "line", "header", "header_recv"}
    BY DEF AllocRequest, FirstRecv, MoreRecv, RequestLine, NextLine, LineRecv
  <1>3. /\ ~post /\ Len(rest) <= buflen0
        /\ fault \notin {"first", "header", "form"}
        /\ rpc = "more" => Len(rest) < 4
        /\ rpc \in {"header", "header_recv"} => Len(rest) < buflen0
    BY <1>2 DEF ReadInv, Placed, BuffersFit, Failed, EarlyPCs, LatePCs
  <1>4. UNCHANGED <<pos, searched, bufbytes, buflen, post, bodyApart>>
    BY DEF AllocRequest, FirstRecv, MoreRecv, RequestLine, NextLine, LineRecv, lineFrame, lineVars,
           formVars, fieldVars
  \* What is left to show.
  <1>5. ASSUME input' \in Seq(Alphabet), rest' \in Seq(Alphabet),
               \/ /\ rpc' \in {"first", "more", "line", "header", "header_recv", "post"}
                  /\ fault' \notin {"first", "header", "form"}
               \/ rpc' = "read_end" /\ err' # "okay"
               \/ rpc' = "no_request" /\ err' = NoMemory /\ fault' = fault
               \/ rpc' = "broken" /\ fault' = fault,
               Len(rest') <= buflen0,
               rpc' = "more" => Len(rest') < 4,
               rpc' \in {"header", "header_recv", "post"} => Len(rest') < buflen0
        PROVE  ReadInv'
    <2>1. Failed'
      BY <1>3, <1>4, <1>5 DEF Failed, LatePCs
    <2>2. /\ rpc \in EarlyPCs \ {"post"}
          /\ rpc' \notin FieldPCs \cup {"form_rest"}
      BY <1>2, <1>5 DEF EarlyPCs, FieldPCs
    <2> QED
      BY <1>4, <1>5, <2>1, <2>2, ReadInvNext
  <1>6. CASE AllocRequest
    <2>1. UNCHANGED <<input, rest, fault>>
      BY <1>6 DEF AllocRequest, connVars, formVars, fieldVars
    <2> QED
      BY <1>1, <1>3, <1>5, <1>6, <2>1, Parameters DEF AllocRequest, Goes
  <1>7. CASE FirstRecv
    <2>1. ASSUME NEW k \in DOMAIN input, Arrive(buflen0, k), rest' = Segment(k),
                 Goes(IF k < 4 THEN "more" ELSE "line")
          PROVE  ReadInv'
      <3>1. /\ k \in Nat /\ k <= buflen0 /\ input' \in Seq(Alphabet)
            /\ rest' \in Seq(Alphabet) /\ Len(rest') = k
        BY <1>1, <2>1, Received, Parameters
      <3>2. fault' = fault
        BY <2>1 DEF Arrive
      <3> QED
        BY <1>3, <1>5, <2>1, <3>1, <3>2 DEF Goes
    <2>2. CASE Nothing /\ ReadEnd("malformed") /\ rest' = rest
      BY <1>1, <1>3, <1>5, <2>2, NotReceived DEF ReadEnd
    <2>3. CASE RecvFails("socket", "first") /\ ReadEnd("socket_err") /\ rest' = rest
      BY <1>1, <1>3, <1>5, <2>3, NotReceived DEF ReadEnd
    <2> QED
      BY <1>7, <2>1, <2>2, <2>3 DEF FirstRecv
  <1>8. CASE MoreRecv
    <2>1. Len(rest) < 4 /\ rpc = "more"
      BY <1>3, <1>8 DEF MoreRecv
    <2>2. ASSUME NEW k \in DOMAIN input, Arrive(buflen0 - Len(rest), k), rest' = rest \o Segment(k),
                 IF Len(rest) + k < 4 THEN ReadEnd("malformed") ELSE Goes("line")
          PROVE  ReadInv'
      <3>1. /\ k \in Nat /\ k <= buflen0 - Len(rest) /\ input' \in Seq(Alphabet)
            /\ Segment(k) \in Seq(Alphabet) /\ Len(Segment(k)) = k
        <4>1. buflen0 - Len(rest) \in Int
          BY <1>1, Parameters
        <4> QED
          BY <1>1, <2>2, <4>1, Received
      <3>2. rest' \in Seq(Alphabet) /\ Len(rest') = Len(rest) + k
        BY <1>1, <2>2, <3>1, Appended
      <3>3. fault' = fault
        BY <2>2 DEF Arrive
      <3>4. Len(rest') <= buflen0
        BY <1>1, <3>1, <3>2, Parameters
      <3> QED
        BY <1>3, <1>5, <2>2, <3>1, <3>2, <3>3, <3>4 DEF Goes, ReadEnd
    <2>3. CASE Nothing /\ ReadEnd("malformed") /\ rest' = rest
      BY <1>1, <1>3, <1>5, <2>3, NotReceived DEF ReadEnd
    <2>4. ASSUME NEW kind \in Failures, RecvFails(kind, "more"),
                 ReadEnd("malformed") /\ rest' = rest
          PROVE  ReadInv'
      BY <1>1, <1>3, <1>5, <2>4, NotReceived DEF ReadEnd
    <2>5. ASSUME NEW kind \in Failures, RecvFails(kind, "more"), Goes("line"),
                 NEW g \in Garbage, Len(g) <= Rrt[kind], rest' = rest \o g
          PROVE  ReadInv'
      <3>1. Rrt[kind] \in 0..3
        BY DEF Failures, Rrt
      <3>2. g \in Seq(Alphabet) /\ Len(g) \in Nat
        BY GarbageIs
      <3>3. rest' \in Seq(Alphabet) /\ Len(rest') = Len(rest) + Len(g)
        BY <1>1, <2>5, <3>2, Appended
      <3>4. Len(rest') <= buflen0
        BY <1>1, <2>1, <2>5, <3>1, <3>2, <3>3, Parameters
      <3>5. fault' = "more" /\ input' \in Seq(Alphabet)
        BY <1>1, <2>5, NotReceived DEF RecvFails
      <3> QED
        BY <1>5, <2>5, <3>3, <3>4, <3>5 DEF Goes
    <2> QED
      BY <1>8, <2>2, <2>3, <2>4, <2>5 DEF MoreRecv
  <1>9. CASE RequestLine
    <2>1. UNCHANGED <<input, fault>>
      BY <1>9 DEF RequestLine, connVars
    <2>2. ASSUME NEW e, e # "okay", ReadEnd(e), rest' = rest PROVE ReadInv'
      BY <1>1, <1>3, <1>5, <2>1, <2>2 DEF ReadEnd
    <2>3. ASSUME NEW v, NEW text \in Seq(Alphabet), Len(text) < buflen0, Headed(v, text)
          PROVE  ReadInv'
      <3>1. Len(text) \in Nat
        BY LenProperties
      <3>2. Len(text) <= buflen0
        BY <2>3, <3>1, Parameters
      <3> QED
        BY <1>1, <1>3, <1>5, <2>1, <2>3, <3>2 DEF Headed, Goes
    <2>4. ASSUME NEW text \in Seq(Alphabet), Len(text) < buflen0, RequestVersion(text)
          PROVE  ReadInv'
      <3>1. Len(text) \in Nat /\ CrLfAt(text, 1) \in Nat
        BY LenProperties, CrLfIs
      <3>2. CASE At(text, 1, LF) /\ Headed(version, Tail(text))
        <4>1. text # <<>>
          BY <3>2 DEF At
        <4>2. Tail(text) \in Seq(Alphabet) /\ Len(Tail(text)) = Len(text) - 1
          BY <4>1, HeadTailProperties
        <4>3. Len(Tail(text)) < buflen0
          BY <2>4, <3>1, <4>2, Parameters
        <4> QED
          BY <2>3, <3>2, <4>2, <4>3
      <3>3. CASE ReadEnd("malformed") /\ rest' = rest
        BY <2>2, <3>3
      <3>4. ASSUME NEW v, CrLfAt(text, 1) > 0, Headed(v, From(text, CrLfAt(text, 1) + 2))
            PROVE  ReadInv'
        <4> DEFINE p == CrLfAt(text, 1) + 2
        <4>1. p \in Nat \ {0}
          BY <3>1
        <4> HIDE DEF p
        <4>2. /\ From(text, p) \in Seq(Alphabet)
              /\ Len(From(text, p)) = IF p <= Len(text) THEN Len(text) - p + 1 ELSE 0
          BY <4>1, RestOf
        <4>3. Len(From(text, p)) < buflen0
          BY <2>4, <3>1, <4>1, <4>2, Parameters
        <4>4. Headed(v, From(text, p))
          BY <3>4 DEF p
        <4> QED
          BY <2>3, <4>2, <4>3, <4>4
      <3> QED
        BY <2>4, <3>2, <3>3, <3>4 DEF RequestVersion
    <2> DEFINE sp == StrChr(rest, SP)
    <2>5. ASSUME sp > 0, NEW i \in UrlEnds(UrlStart(sp)), UrlStart(sp) + i < Len(rest),
                 RequestVersion(From(rest, UrlStart(sp) + i + 2))
          PROVE  ReadInv'
      <3> DEFINE off == UrlStart(sp)
      <3>1. sp \in Nat /\ sp <= Len(rest)
        BY <1>1, StrChrIs
      <3>2. off \in Nat /\ off > 0
        BY <2>5, <3>1 DEF UrlStart
      <3>3. i \in Nat
        BY DEF UrlEnds
      <3> HIDE DEF sp, off
      <3>4. /\ From(rest, off + i + 2) \in Seq(Alphabet)
            /\ Len(From(rest, off + i + 2)) = IF off + i + 2 <= Len(rest) THEN Len(rest) - (off + i + 2) + 1 ELSE 0
        BY <1>1, <3>2, <3>3, RestOf
      <3>5. Len(From(rest, off + i + 2)) < buflen0
        BY <1>1, <1>3, <3>2, <3>3, <3>4, Parameters
      <3>6. RequestVersion(From(rest, off + i + 2))
        BY <2>5 DEF off
      <3> QED
        BY <2>4, <3>4, <3>5, <3>6
    <2>6. CASE StaleVersion
      <3>1. ASSUME NEW v, NEW text \in StaleLines, Headed(v, text) PROVE ReadInv'
        BY <2>3, <3>1, StaleLinesAre, Parameters
      <3>2. CASE rpc' = "broken" /\ rest' = rest
        BY <1>1, <1>3, <1>5, <2>1, <3>2
      <3> QED
        BY <2>2, <2>6, <3>1, <3>2 DEF StaleVersion, Goes
    <2>7. CASE ReadEnd("malformed") /\ rest' = rest
      BY <2>2, <2>7
    <2>8. CASE ReadEnd("line_exceeded") /\ rest' = rest
      BY <2>2, <2>8
    <2> HIDE DEF sp
    <2>9. \/ (ReadEnd("malformed") /\ rest' = rest) \/ (ReadEnd("line_exceeded") /\ rest' = rest)
          \/ StaleVersion
          \/ /\ sp > 0
             /\ \E i \in UrlEnds(UrlStart(sp)) :
                  UrlStart(sp) + i < Len(rest) /\ RequestVersion(From(rest, UrlStart(sp) + i + 2))
      BY <1>9 DEF RequestLine, sp
    <2> QED
      BY <2>5, <2>6, <2>7, <2>8, <2>9
  <1>10. CASE NextLine
    <2>1. UNCHANGED <<input, fault>> /\ Len(rest) < buflen0
      BY <1>3, <1>10 DEF NextLine, connVars
    <2> DEFINE p == CrLfAt(rest, 1)
    <2>2. p \in Nat
      BY <1>1, CrLfIs
    <2>3. CASE (Goes("post") \/ Goes("header_recv")) /\ rest' = rest
      BY <1>1, <1>3, <1>5, <2>1, <2>3 DEF Goes
    <2>4. CASE Goes("post") /\ rest' = BehindLine(rest, 1)
      <3>1. rest' \in Seq(Alphabet) /\ Len(rest') = IF 3 <= Len(rest) THEN Len(rest) - 3 + 1 ELSE 0
        BY <1>1, <2>4, RestOf DEF BehindLine
      <3>2. Len(rest') < buflen0 /\ Len(rest') <= buflen0
        BY <1>1, <2>1, <3>1, Parameters
      <3> QED
        BY <1>1, <1>3, <1>5, <2>1, <2>4, <3>1, <3>2 DEF Goes
    <2>5. CASE p > 1 /\ rest # <<>> /\ TakeLine(rest, p)
      <3> HIDE DEF p
      <3>1. Len(rest) > 0 /\ p \in Nat \ {0}
        BY <1>1, <2>2, <2>5, EmptySeq
      <3>2. \/ ReadEnd("malformed") /\ rest' = rest
            \/ Goes("header") /\ rest' \in Seq(Alphabet) /\ Len(rest') < buflen0
        BY <1>1, <1>3, <2>5, <3>1, LineTaken
      <3>3. Len(rest') <= buflen0
        BY <1>3, <3>2, LenProperties, Parameters
      <3> QED
        BY <1>1, <1>3, <1>5, <2>1, <3>2, <3>3 DEF Goes, ReadEnd
    <2>6. p > 1 => rest # <<>>
      <3> SUFFICES ASSUME rest = <<>> PROVE p = 0
        BY <2>2
      <3>1. 1..(Len(rest) - 1) = {}
        BY <1>1
      <3> QED
        BY <3>1 DEF CrLfAt
    <2> HIDE DEF p
    <2>7. \/ (Goes("post") \/ Goes("header_recv")) /\ rest' = rest
          \/ Goes("post") /\ rest' = BehindLine(rest, 1)
          \/ p > 1 /\ TakeLine(rest, p)
      BY <1>10 DEF NextLine, p
    <2> QED
      BY <2>3, <2>4, <2>5, <2>6, <2>7
  <1>11. CASE LineRecv
    <2>1. Len(rest) < buflen0
      BY <1>3, <1>11 DEF LineRecv
    <2>2. ASSUME NEW k \in DOMAIN input, Arrive(buflen0 - Len(rest), k),
                 \/ ReadEnd("malformed") /\ rest' = rest
                 \/ /\ CrLfAt(rest \o Segment(k), Len(rest) + 1) > 0
                    /\ TakeLine(rest \o Segment(k), CrLfAt(rest \o Segment(k), Len(rest) + 1))
          PROVE  ReadInv'
      <3> DEFINE text == rest \o Segment(k)
                 p == CrLfAt(text, Len(rest) + 1)
      <3>1. /\ k \in Nat /\ 1 <= k /\ k <= buflen0 - Len(rest) /\ input' \in Seq(Alphabet)
            /\ Segment(k) \in Seq(Alphabet) /\ Len(Segment(k)) = k
        <4>1. buflen0 - Len(rest) \in Int
          BY <1>1, Parameters
        <4> QED
          BY <1>1, <2>2, <4>1, Received
      <3>2. text \in Seq(Alphabet) /\ Len(text) = Len(rest) + k
        <4>1. rest \in Seq(Alphabet) /\ Segment(k) \in Seq(Alphabet)
          BY <1>1, <3>1
        <4>2. text \in Seq(Alphabet) /\ Len(text) = Len(rest) + Len(Segment(k))
          BY <4>1, Appended
        <4> QED
          BY <3>1, <4>2
      <3>3. fault' = fault
        BY <2>2 DEF Arrive
      <3>4. (ReadEnd("malformed") /\ rest' = rest) \/ (p > 0 /\ TakeLine(text, p))
        BY <2>2, Zenon
      <3> HIDE DEF text
      <3>8. p \in Nat
        <4>1. Len(rest) + 1 \in Nat
          BY <1>1
        <4> QED
          BY <3>2, <4>1, CrLfIs
      <3> HIDE DEF p
      <3>5. Len(text) <= buflen0 /\ Len(text) > 0
        BY <1>1, <3>1, <3>2, Parameters
      <3>6. CASE p > 0 /\ TakeLine(text, p)
        <4>1. \/ ReadEnd("malformed") /\ rest' = rest
              \/ Goes("header") /\ rest' \in Seq(Alphabet) /\ Len(rest') < buflen0
          BY <1>1, <3>2, <3>8, <3>5, <3>6, LineTaken
        <4>2. Len(rest') <= buflen0
          BY <1>3, <4>1, LenProperties, Parameters
        <4> QED
          BY <1>1, <1>3, <1>5, <3>1, <3>3, <4>1, <4>2 DEF Goes, ReadEnd
      <3>7. CASE ReadEnd("malformed") /\ rest' = rest
        BY <1>1, <1>3, <1>5, <3>1, <3>7 DEF ReadEnd
      <3> QED
        BY <3>4, <3>6, <3>7
    <2>3. CASE Nothing /\ ReadEnd("malformed") /\ rest' = rest
      BY <1>1, <1>3, <1>5, <2>3, NotReceived DEF ReadEnd
    <2>4. ASSUME NEW kind \in Failures, RecvFails(kind, "header"),
                 ReadEnd("malformed") /\ rest' = rest
          PROVE  ReadInv'
      BY <1>1, <1>3, <1>5, <2>4, NotReceived DEF ReadEnd
    <2> QED
      BY <1>11, <2>2, <2>3, <2>4 DEF LineRecv
  <1> QED
    BY <1>6, <1>7, <1>8, <1>9, <1>10, <1>11

-----------------------------------------------------------------------------
(***************************************************************************)
(* The header of a POST and its form.                                      *)
(***************************************************************************)
LEMMA PostKeeps ==
    ASSUME ReadInv, PostNoMemory \/ PostInfo \/ NoPost
    PROVE  ReadInv'
  <1>1. /\ rpc = "post" /\ ~post /\ pos = 0 /\ Len(rest) < buflen0 /\ Len(rest) \in Nat
        /\ fault \notin {"first", "header", "form"}
    BY LenProperties
    DEF ReadInv, Typed, Placed, Failed, EarlyPCs, LatePCs, PostNoMemory, PostInfo, NoPost
  <1>2. UNCHANGED <<input, fault, rest, pos, searched, bodyApart>>
    BY DEF PostNoMemory, PostInfo, NoPost, connVars, formVars, fieldVars
  <1>3. rpc' = "read_end" \/ (rpc' = "form" /\ PostInfo)
    BY DEF PostNoMemory, PostInfo, NoPost, ReadEnd, Goes
  <1>4. \/ UNCHANGED <<post, bufbytes, buflen>> /\ ~PostInfo
        \/ post' = TRUE /\ bufbytes' = Len(rest) /\ buflen' = Max({Len(rest) + 1, MinForm})
    BY DEF PostNoMemory, PostInfo, NoPost, formVars, fieldVars, lineVars
  <1>5. /\ Max({Len(rest) + 1, MinForm}) \in {Len(rest) + 1, MinForm}
        /\ Len(rest) + 1 <= Max({Len(rest) + 1, MinForm})
    <2>1. Len(rest) + 1 \in Int /\ MinForm \in Int
      BY <1>1, Parameters
    <2> QED
      BY <2>1, MaxOfTwo
  <1>6. /\ LineBuf <= Max({LineBuf, MaxForm + MinForm - 1})
        /\ MaxForm + MinForm - 1 <= Max({LineBuf, MaxForm + MinForm - 1})
        /\ Max({LineBuf, MaxForm + MinForm - 1}) \in Int
    <2>1. LineBuf \in Int /\ MaxForm + MinForm - 1 \in Int
      BY Parameters
    <2> QED
      BY <2>1, MaxOfTwo
  <1>7. Typed'
    <2>1. post' \in BOOLEAN
      BY <1>4, Zenon DEF ReadInv, Typed
    <2>2. bufbytes' \in Nat /\ buflen' \in Nat
      BY <1>1, <1>4, <1>5, Parameters DEF ReadInv, Typed
    <2> QED
      BY <1>2, <2>1, <2>2 DEF ReadInv, Typed
  <1>8. Placed'
    BY <1>1, <1>2, <1>3, <1>4, Parameters DEF Placed, EarlyPCs, FieldPCs
  <1>9. BuffersFit'
    <2>1. CASE UNCHANGED <<post, bufbytes, buflen>> /\ ~PostInfo
      BY <1>1, <1>2, <1>3, <2>1 DEF ReadInv, BuffersFit
    <2>2. CASE post' = TRUE /\ bufbytes' = Len(rest) /\ buflen' = Max({Len(rest) + 1, MinForm})
      <3>1. buflen' \in Nat /\ Len(rest) <= buflen' - 1
        BY <1>1, <1>5, <2>2, Parameters
      <3>2. Len(rest) + 1 <= LineBuf /\ MinForm <= MaxForm + MinForm - 1
        BY <1>1, Parameters
      <3>3. buflen' <= Max({LineBuf, MaxForm + MinForm - 1})
        BY <1>1, <1>5, <1>6, <2>2, <3>2, Parameters
      <3> QED
        BY <1>1, <1>2, <1>3, <1>6, <2>2, <3>1, <3>3 DEF BuffersFit
    <2> QED
      BY <1>4, <2>1, <2>2
  <1>10. Failed'
    BY <1>1, <1>2, <1>3 DEF Failed
  <1> QED
    BY <1>7, <1>8, <1>9, <1>10 DEF ReadInv

\* More of a field, behind the text in the buffer.
LEMMA MoreKeeps ==
    ASSUME ReadInv, FormMore, UNCHANGED lineVars, rpc \in {"form_key", "form_value"}
    PROVE  ReadInv'
  <1>1. /\ input \in Seq(Alphabet) /\ rest \in Seq(Alphabet) /\ Len(rest) \in Nat
        /\ pos \in Nat /\ searched \in Nat /\ bufbytes \in Nat /\ buflen \in Nat /\ bodyApart \in BOOLEAN
        /\ post /\ Len(rest) <= buflen - 1
        /\ buflen <= Max({LineBuf, MaxForm + MinForm - 1})
        /\ bufbytes <= pos + Len(rest)
        /\ ~bodyApart => bufbytes = pos + Len(rest)
        /\ fault \notin {"first", "header", "form"}
    BY LenProperties
    DEF ReadInv, Typed, Placed, BuffersFit, Failed, FieldPCs, LatePCs
  <1>2. post' /\ post' = post
    BY <1>1 DEF lineVars
  <1>3. MaxForm + MinForm - 1 <= Max({LineBuf, MaxForm + MinForm - 1})
        /\ Max({LineBuf, MaxForm + MinForm - 1}) \in Int
    <2>1. LineBuf \in Int /\ MaxForm + MinForm - 1 \in Int
      BY Parameters
    <2> QED
      BY <2>1, MaxOfTwo
  <1>4. /\ Filled \in Int /\ Filled <= Len(rest)
        /\ ~bodyApart => Filled = Len(rest)
    BY <1>1 DEF Filled
  \* A step that leaves the text in its place.
  <1>5. ASSUME UNCHANGED <<connVars, formVars>>,
               \/ rpc' = "read_end" /\ err' # "okay"
               \/ rpc' = "broken" /\ bodyApart
        PROVE  ReadInv'
    <2>1. UNCHANGED <<input, fault, rest, pos, searched, bufbytes, buflen, bodyApart>>
      BY <1>5 DEF connVars, formVars, fieldVars
    <2>2. Typed'
      BY <1>2, <2>1 DEF ReadInv, Typed
    <2>3. Placed'
      BY <1>2, <1>5, <2>1 DEF Placed, EarlyPCs, FieldPCs
    <2>4. BuffersFit'
      BY <1>2, <1>5, <2>1 DEF ReadInv, BuffersFit
    <2>5. Failed'
      BY <1>1, <1>5, <2>1 DEF Failed
    <2> QED
      BY <2>2, <2>3, <2>4, <2>5 DEF ReadInv
  <1>6. CASE Filled < 0 /\ Goes("broken") /\ UNCHANGED <<connVars, formVars>>
    <2>1. bodyApart
      BY <1>1, <1>4, <1>6
    <2> QED
      BY <1>5, <1>6, <2>1 DEF Goes
  <1>7. CASE ReadEnd("field_exceeded") /\ UNCHANGED <<connVars, formVars>>
    BY <1>5, <1>7 DEF ReadEnd
  <1>8. ASSUME Filled >= 0, ~FieldTooLong
         PROVE  Grown \in Nat /\ Grown >= buflen /\ Grown <= Max({LineBuf, MaxForm + MinForm - 1})
    <2>1. CASE Filled < buflen - 1
      BY <1>1, <2>1 DEF Grown
    <2>2. CASE ~(Filled < buflen - 1)
      <3>1. buflen < MaxForm
        BY <1>1, <1>4, <1>8, <2>2, Parameters DEF FieldTooLong
      <3>2. Grown = buflen + MinForm
        BY <2>2 DEF Grown
      <3> QED
        BY <1>1, <1>3, <3>1, <3>2, Parameters
    <2> QED
      BY <2>1, <2>2
  <1>9. ASSUME Filled >= 0, ~FieldTooLong, pos' = 0, searched' = Filled, buflen' = Grown,
               UNCHANGED bodyApart, input' \in Seq(Alphabet),
               rest' \in Seq(Alphabet), bufbytes' \in Nat,
               Len(rest') = bufbytes', bufbytes' <= Grown - 1,
               rpc' = rpc, fault' \notin {"first", "header", "form"}
        PROVE  ReadInv'
    <2>1. Grown \in Nat /\ Grown <= Max({LineBuf, MaxForm + MinForm - 1})
      BY <1>8, <1>9
    <2>2. Typed'
      BY <1>2, <1>4, <1>9, <2>1 DEF ReadInv, Typed
    <2>3. Placed'
      <3>1. pos' = 0 /\ Len(rest') = bufbytes' /\ bufbytes' \in Nat
        BY <1>9
      <3>2. bufbytes' = pos' + Len(rest') /\ bufbytes' <= pos' + Len(rest')
        <4>1. PICK n \in Nat : n = bufbytes'
          BY <3>1
        <4>2. 0 + n = n /\ n <= n
          OBVIOUS
        <4>3. pos' + Len(rest') = 0 + n
          BY <3>1, <4>1
        <4> QED
          BY <4>1, <4>2, <4>3
      <3>3. rpc' \in {"form_key", "form_value"}
        BY <1>9
      <3> QED
        BY <1>2, <3>2, <3>3 DEF Placed, EarlyPCs, FieldPCs
    <2>4. BuffersFit'
      BY <1>2, <1>3, <1>9, <2>1 DEF BuffersFit
    <2>5. Failed'
      BY <1>1, <1>9 DEF Failed, LatePCs
    <2> QED
      BY <2>2, <2>3, <2>4, <2>5 DEF ReadInv
  <1> DEFINE front == SubSeq(rest, 1, Filled)
  <1>10. ASSUME Filled >= 0
        PROVE  front \in Seq(Alphabet) /\ Len(front) = Filled
    <2>1. Filled \in 0..Len(rest)
      BY <1>1, <1>4, <1>10
    <2> HIDE DEF front
    <2>2. SubSeq(rest, 1, Filled) \in Seq(Alphabet)
          /\ Len(SubSeq(rest, 1, Filled)) = IF 1 <= Filled THEN Filled - 1 + 1 ELSE 0
      BY <1>1, <2>1, PieceOf
    <2> QED
      BY <2>1, <2>2 DEF front
  <1>11. ASSUME Filled >= 0, ~FieldTooLong PROVE Grown \in Int /\ Filled <= Grown - 1
    <2>1. CASE Filled < buflen - 1
      BY <1>1, <1>4, <2>1 DEF Grown
    <2>2. CASE ~(Filled < buflen - 1)
      BY <1>1, <1>4, <2>2, Parameters DEF Grown
    <2> QED
      BY <2>1, <2>2
  <1> HIDE DEF front
  <1>12. ASSUME Filled >= 0, ~FieldTooLong, pos' = 0, searched' = Filled, buflen' = Grown, UNCHANGED bodyApart,
                NEW k \in DOMAIN input, Arrive(Grown - 1 - Filled, k),
                rest' = front \o Segment(k), bufbytes' = Filled + k, rpc' = rpc
         PROVE  ReadInv'
    <2>1. Grown - 1 - Filled \in Int
      BY <1>4, <1>11, <1>12
    <2>2. /\ k \in Nat /\ k <= Grown - 1 - Filled /\ input' \in Seq(Alphabet)
          /\ Segment(k) \in Seq(Alphabet) /\ Len(Segment(k)) = k
      BY <1>1, <1>12, <2>1, Received
    <2>3. rest' \in Seq(Alphabet) /\ Len(rest') = Filled + k
      BY <1>10, <1>12, <2>2, Appended
    <2>4. bufbytes' \in Nat /\ bufbytes' <= Grown - 1
      BY <1>4, <1>11, <1>12, <2>2
    <2>5. fault' = fault
      BY <1>12 DEF Arrive
    <2> QED
      BY <1>1, <1>9, <1>12, <2>2, <2>3, <2>4, <2>5
  <1>13. ASSUME Filled >= 0, ~FieldTooLong, pos' = 0, searched' = Filled, buflen' = Grown, UNCHANGED bodyApart,
                Nothing, rest' = front, bufbytes' = Filled, rpc' = rpc
         PROVE  ReadInv'
    <2>1. input' \in Seq(Alphabet) /\ fault' = fault
      BY <1>1, <1>13, NotReceived DEF Nothing
    <2>2. bufbytes' \in Nat
      BY <1>4, <1>13
    <2> QED
      BY <1>1, <1>9, <1>10, <1>11, <1>13, <2>1, <2>2
  \* The text is not looked at any more.
  <1>14. ASSUME pos' = 0, searched' = Filled, buflen' = Grown, UNCHANGED <<bodyApart, rest, bufbytes>>,
                Filled >= 0, ~FieldTooLong,
                NEW kind \in Failures, RecvFails(kind, "form"),
                rpc' = "read_end" /\ err' # "okay"
         PROVE  ReadInv'
    <2>1. input' \in Seq(Alphabet)
      BY <1>1, <1>14, NotReceived
    <2>2. Grown \in Nat /\ Grown >= buflen /\ Grown <= Max({LineBuf, MaxForm + MinForm - 1})
      BY <1>8, <1>14
    <2>3. Typed'
      BY <1>2, <1>4, <1>14, <2>1, <2>2 DEF ReadInv, Typed
    <2>4. Placed'
      BY <1>2, <1>14, <2>2 DEF Placed, EarlyPCs, FieldPCs
    <2>5. BuffersFit'
      BY <1>1, <1>2, <1>3, <1>14, <2>2 DEF BuffersFit
    <2>6. Failed'
      BY <1>14 DEF Failed, LatePCs
    <2> QED
      BY <2>3, <2>4, <2>5, <2>6 DEF ReadInv
  <1>15. CASE Filled >= 0 /\ ~FieldTooLong /\ pos' = 0 /\ searched' = Filled /\ buflen' = Grown /\ UNCHANGED bodyApart
              /\ \/ \E k \in DOMAIN input :
                      /\ Arrive(Grown - 1 - Filled, k)
                      /\ rest' = front \o Segment(k) /\ bufbytes' = Filled + k /\ rpc' = rpc
                 \/ Nothing /\ rest' = front /\ bufbytes' = Filled /\ rpc' = rpc
                 \/ \E kind \in Failures :
                      /\ RecvFails(kind, "form")
                      /\ UNCHANGED <<rest, bufbytes>>
                      /\ rpc' = "read_end" /\ err' # "okay"
    BY <1>12, <1>13, <1>14, <1>15
  <1> QED
    BY <1>6, <1>7, <1>15 DEF FormMore, ReadEnd, front

LEMMA FormKeeps ==
    ASSUME ReadInv, FormStep, UNCHANGED lineVars
    PROVE  ReadInv'
  <1>1. rpc \in FieldPCs \cup {"form_rest"}
    BY DEF FormStep, FormStart, FormFirst, FormKey, FormValue, FormNoMemory, FormLoop, FormRest,
           FormEnd, FieldPCs
  <1>2. /\ input \in Seq(Alphabet) /\ rest \in Seq(Alphabet) /\ Len(rest) \in Nat
        /\ pos \in Nat /\ searched \in Nat /\ bufbytes \in Nat /\ buflen \in Nat /\ bodyApart \in BOOLEAN
        /\ post /\ Len(rest) <= buflen - 1
        /\ rpc \in FieldPCs => bufbytes <= pos + Len(rest)
        /\ rpc \in FieldPCs /\ ~bodyApart => bufbytes = pos + Len(rest)
        /\ fault \notin {"first", "header", "form"}
    BY <1>1, LenProperties
    DEF ReadInv, Typed, Placed, BuffersFit, Failed, FieldPCs, LatePCs
  <1>3. post' /\ post' = post /\ <<>> \in Seq(Alphabet) /\ Len(<<>>) = 0
    BY <1>2, EmptySeq DEF lineVars
  \* A step that leaves the text in its place.
  <1>4. ASSUME UNCHANGED <<rest, pos, searched, bufbytes, buflen, bodyApart>>, input' \in Seq(Alphabet),
               \/ /\ rpc' = "form_rest" \/ (rpc \in FieldPCs /\ rpc' \in FieldPCs)
                  /\ fault' = fault
               \/ rpc' = "read_end" /\ (fault' = fault \/ err' # "okay")
        PROVE  ReadInv'
    <2>1. rpc' \in FieldPCs \cup {"form_rest", "read_end"}
      BY <1>4
    <2>2. Typed'
      BY <1>3, <1>4 DEF ReadInv, Typed
    <2>3. Placed'
      BY <1>2, <1>3, <1>4, <2>1 DEF Placed, EarlyPCs, FieldPCs
    <2>4. BuffersFit'
      BY <1>2, <1>3, <1>4, <2>1 DEF ReadInv, BuffersFit, FieldPCs
    <2>5. Failed'
      BY <1>2, <1>4, <2>1 DEF Failed, LatePCs, FieldPCs
    <2> QED
      BY <2>2, <2>3, <2>4, <2>5 DEF ReadInv
  \* A step that moves the cursor, or fills the buffer for the first time.
  <1>5. ASSUME rpc \in FieldPCs, rpc' \in {"form_loop", "form_value"},
               input' \in Seq(Alphabet), fault' \notin {"first", "header", "form"},
               rest' \in Seq(Alphabet), pos' \in Nat, searched' \in Nat, UNCHANGED <<bufbytes, buflen>>,
               bodyApart' \in BOOLEAN, Len(rest') <= buflen - 1,
               bufbytes <= pos' + Len(rest'), ~bodyApart' => bufbytes = pos' + Len(rest')
        PROVE  ReadInv'
    <2>1. Typed'
      BY <1>2, <1>3, <1>5 DEF ReadInv, Typed
    <2>2. Placed'
      BY <1>3, <1>5 DEF Placed, EarlyPCs, FieldPCs
    <2>3. BuffersFit'
      BY <1>3, <1>5 DEF ReadInv, BuffersFit
    <2>4. Failed'
      BY <1>5 DEF Failed, LatePCs
    <2> QED
      BY <2>1, <2>2, <2>3, <2>4 DEF ReadInv
  \* The cursor is put behind the first p bytes of the text.
  <1>6. ASSUME NEW p \in 1..Len(rest), Advance(p), rpc \in FieldPCs,
               rpc' \in {"form_loop", "form_value"},
               UNCHANGED <<connVars, bufbytes, buflen, bodyApart>>
        PROVE  ReadInv'
    <2>1. UNCHANGED <<input, fault>>
      BY <1>6 DEF connVars
    <2>2. /\ rest' \in Seq(Alphabet) /\ pos' = pos + p /\ searched' \in Nat
          /\ Len(rest') = IF p + 1 <= Len(rest) THEN Len(rest) - (p + 1) + 1 ELSE 0
      <3>1. p + 1 \in Nat \ {0} /\ Len(rest) \in 0..Len(rest)
        BY <1>2
      <3> QED
        BY <1>2, <1>6, <3>1, RestOf DEF Advance
    <2>3. Len(rest') = Len(rest) - p
      BY <1>2, <2>2
    <2>4. pos' + Len(rest') = pos + Len(rest) /\ Len(rest') <= buflen - 1 /\ pos' \in Nat
      <3>1. pos' + Len(rest') = (pos + p) + (Len(rest) - p)
        BY <2>2, <2>3
      <3>2. p \in Nat
        BY <1>2
      <3>3. (pos + p) + (Len(rest) - p) = pos + Len(rest)
        BY <1>2, <3>2
      <3>4. Len(rest') <= buflen - 1
        BY <1>2, <2>3, <3>2
      <3>5. pos' \in Nat
        BY <1>2, <2>2, <3>2
      <3> QED
        BY <3>1, <3>3, <3>4, <3>5
    <2> QED
      BY <1>2, <1>5, <1>6, <2>1, <2>2, <2>4
  <1>7. CASE FormStart
    <2>1. /\ rpc \in FieldPCs /\ rpc' \in FieldPCs
          /\ UNCHANGED <<rest, pos, searched, bufbytes, buflen, bodyApart, input, fault>>
      BY <1>7 DEF FormStart, Goes, FieldPCs, fieldVars, connVars
    <2> QED
      BY <1>2, <1>4, <2>1
  <1>8. CASE FormFirst
    <2>1. /\ rpc = "form_first" /\ rpc \in FieldPCs /\ bodyApart' = TRUE
          /\ UNCHANGED <<bufbytes, buflen, pos, searched>>
      BY <1>8 DEF FormFirst, FieldPCs
    <2> DEFINE Behind(k) == IF k < Len(rest) THEN <<Nul>> \o From(rest, k + 2) ELSE <<>>
    <2>2. ASSUME NEW k \in Nat
          PROVE  Behind(k) \in Seq(Alphabet) /\ Len(Behind(k)) = IF k < Len(rest) THEN Len(rest) - k ELSE 0
      <3>1. <<Nul>> \in Seq(Alphabet) /\ Len(<<Nul>>) = 1
        BY AlphabetAssumption
      <3>2. k + 2 \in Nat \ {0}
        OBVIOUS
      <3>3. /\ From(rest, k + 2) \in Seq(Alphabet)
            /\ Len(From(rest, k + 2)) = IF k + 2 <= Len(rest) THEN Len(rest) - (k + 2) + 1 ELSE 0
        BY <1>2, <3>2, RestOf
      <3>4. <<Nul>> \o From(rest, k + 2) \in Seq(Alphabet)
            /\ Len(<<Nul>> \o From(rest, k + 2)) = 1 + Len(From(rest, k + 2))
        <4>1. /\ <<Nul>> \o From(rest, k + 2) \in Seq(Alphabet)
              /\ Len(<<Nul>> \o From(rest, k + 2)) = Len(<<Nul>>) + Len(From(rest, k + 2))
          BY <3>1, <3>3, Appended
        <4> QED
          BY <3>1, <4>1
      <3> QED
        BY <1>2, <1>3, <3>3, <3>4
    <2>3. ASSUME NEW k \in DOMAIN input, Arrive(buflen - 1, k), rest' = Segment(k) \o Behind(k),
                 rpc' = "form_loop"
          PROVE  ReadInv'
      <3>1. /\ k \in Nat /\ k <= buflen - 1 /\ input' \in Seq(Alphabet)
            /\ Segment(k) \in Seq(Alphabet) /\ Len(Segment(k)) = k
        <4>1. buflen - 1 \in Int
          BY <1>2
        <4> QED
          BY <1>2, <2>3, <4>1, Received
      <3>2. fault' = fault
        BY <2>3 DEF Arrive
      <3>3. Behind(k) \in Seq(Alphabet) /\ Len(Behind(k)) = IF k < Len(rest) THEN Len(rest) - k ELSE 0
        BY <2>2, <3>1
      <3> HIDE DEF Behind
      <3>4. rest' \in Seq(Alphabet) /\ Len(rest') = k + (IF k < Len(rest) THEN Len(rest) - k ELSE 0)
        BY <2>3, <3>1, <3>3, Appended
      <3>5. Len(rest') \in Nat /\ Len(rest) <= Len(rest') /\ Len(rest') <= buflen - 1
        BY <1>2, <3>1, <3>4
      <3>6. bufbytes <= pos' + Len(rest') /\ pos' \in Nat
        BY <1>2, <2>1, <3>5
      <3> QED
        BY <1>2, <1>5, <2>1, <2>3, <3>1, <3>2, <3>4, <3>5, <3>6
    <2>4. ASSUME input' \in Seq(Alphabet), fault' \notin {"first", "header", "form"},
                 rest' = rest, rpc' \in {"read_end", "form_loop"}
          PROVE  ReadInv'
      <3>1. Typed'
        BY <1>2, <1>3, <2>1, <2>4 DEF ReadInv, Typed
      <3>2. Placed'
        <4>1. bufbytes' <= pos' + Len(rest')
          BY <1>2, <2>1, <2>4
        <4> QED
          BY <1>3, <2>1, <2>4, <4>1 DEF Placed, EarlyPCs, FieldPCs
      <3>3. BuffersFit'
        BY <1>2, <1>3, <2>1, <2>4 DEF ReadInv, BuffersFit
      <3>4. Failed'
        BY <2>4 DEF Failed
      <3> QED
        BY <3>1, <3>2, <3>3, <3>4 DEF ReadInv
    <2>5. CASE Nothing /\ ReadEnd("okay") /\ rest' = rest
      BY <1>2, <2>4, <2>5, NotReceived DEF ReadEnd, Nothing
    <2>6. ASSUME NEW kind \in Failures, RecvFails(kind, "form_first"), Goes("form_loop"), rest' = rest
          PROVE  ReadInv'
      <3>1. input' \in Seq(Alphabet) /\ fault' = "form_first"
        BY <1>2, <2>6, NotReceived DEF RecvFails
      <3> QED
        BY <2>4, <2>6, <3>1 DEF Goes
    <2> QED
      BY <1>8, <2>3, <2>5, <2>6 DEF FormFirst, Goes
  <1>9. CASE FormKey
    <2> DEFINE p == Found(EQUAL)
    <2>1. rpc = "form_key" /\ rpc \in FieldPCs /\ p \in 0..Len(rest)
      BY <1>2, <1>9, FoundIs DEF FormKey, FieldPCs
    <2>2. CASE FormMore
      BY <2>1, <2>2, MoreKeeps
    <2>3. CASE rpc' = "read_end" /\ UNCHANGED <<connVars, formVars>>
      BY <1>2, <1>4, <2>3 DEF connVars, formVars, fieldVars
    <2>4. CASE p > 1 /\ Advance(p) /\ Goes("form_value") /\ UNCHANGED <<connVars, bufbytes, buflen, bodyApart>>
      <3> HIDE DEF p
      <3>1. p \in 1..Len(rest)
        BY <1>2, <2>1, <2>4
      <3> QED
        BY <1>6, <2>1, <2>4, <3>1 DEF Goes
    <2> QED
      BY <1>9, <2>2, <2>3, <2>4 DEF FormKey, ReadEnd
  <1>10. CASE FormValue
    <2> DEFINE p == Found(AMP)
    <2>1. rpc = "form_value" /\ rpc \in FieldPCs /\ p \in 0..Len(rest)
      BY <1>2, <1>10, FoundIs DEF FormValue, FieldPCs
    <2>2. CASE FormMore
      BY <2>1, <2>2, MoreKeeps
    <2>3. CASE /\ rest' = <<>> /\ pos' = bufbytes /\ searched' = 0 /\ Goes("form_loop")
               /\ UNCHANGED <<connVars, buflen, bufbytes, bodyApart>>
      <3>1. UNCHANGED <<input, fault>>
        BY <2>3 DEF connVars
      <3>2. pos' + Len(rest') = bufbytes + 0
        BY <1>3, <2>3
      <3>3. bufbytes <= pos' + Len(rest') /\ bufbytes = pos' + Len(rest')
        BY <1>2, <3>2
      <3>4. Len(rest') <= buflen - 1
        BY <1>2, <1>3, <2>3
      <3> QED
        BY <1>2, <1>3, <1>5, <2>1, <2>3, <3>1, <3>3, <3>4 DEF Goes
    <2>4. CASE p > 0 /\ Advance(p) /\ Goes("form_loop") /\ UNCHANGED <<connVars, bufbytes, buflen, bodyApart>>
      <3> HIDE DEF p
      <3>1. p \in 1..Len(rest)
        BY <1>2, <2>1, <2>4
      <3> QED
        BY <1>6, <2>1, <2>4, <3>1 DEF Goes
    <2> QED
      BY <1>10, <2>2, <2>3, <2>4 DEF FormValue
  <1>11. CASE FormNoMemory \/ FormEnd
    <2>1. rpc' = "read_end" /\ UNCHANGED <<connVars, formVars>>
      BY <1>11 DEF FormNoMemory, FormEnd, ReadEnd
    <2> QED
      BY <1>2, <1>4, <2>1 DEF connVars, formVars, fieldVars
  <1>12. CASE FormLoop
    <2>1. /\ rpc' = "form_rest" \/ (rpc \in FieldPCs /\ rpc' \in FieldPCs)
          /\ UNCHANGED <<connVars, formVars>>
      BY <1>12 DEF FormLoop, Goes, FieldPCs
    <2> QED
      BY <1>2, <1>4, <2>1 DEF connVars, formVars, fieldVars
  <1>13. CASE FormRest
    <2>1. rpc = "form_rest" /\ UNCHANGED <<rest, pos, searched, bufbytes, buflen, bodyApart>>
      BY <1>13 DEF FormRest, fieldVars
    <2>2. ASSUME NEW k \in DOMAIN input, Arrive(buflen, k), rpc' = rpc PROVE ReadInv'
      <3>1. input' \in Seq(Alphabet) /\ fault' = fault
        BY <1>2, <2>2, Received DEF Arrive
      <3> QED
        BY <1>4, <2>1, <2>2, <3>1
    <2>3. CASE Nothing /\ rpc' = rpc
      BY <1>2, <1>4, <2>1, <2>3, NotReceived DEF Nothing
    <2>4. ASSUME NEW kind \in Failures, RecvFails(kind, "form"), rpc' = "read_end", err' # "okay"
          PROVE  ReadInv'
      BY <1>2, <1>4, <2>1, <2>4, NotReceived
    <2> QED
      BY <1>13, <2>2, <2>3, <2>4 DEF FormRest, ReadEnd
  <1> QED
    BY <1>7, <1>8, <1>9, <1>10, <1>11, <1>12, <1>13 DEF FormStep

-----------------------------------------------------------------------------
(***************************************************************************)
(* After the request, and all steps.                                       *)
(***************************************************************************)
LEMMA LateKeeps ==
    ASSUME ReadInv,
           ReadReturns \/ NullRequest \/ Drain \/ (ThrowAway(LineBuf) /\ UNCHANGED lineVars)
    PROVE  ReadInv'
  <1>1. /\ rpc \in {"no_request", "read_end", "drain", "throw_away"}
        /\ rpc' \in {"broken", "read", "drain", "throw_away"}
        /\ err' = err /\ UNCHANGED <<rest, pos, searched, bufbytes, buflen, bodyApart, post>>
    BY DEF ReadReturns, NullRequest, Drain, ThrowAway, Goes, formVars, fieldVars, lineVars
  <1>2. input \in Seq(Alphabet) /\ rest \in Seq(Alphabet)
    BY DEF ReadInv, Typed
  <1>3. input' \in Seq(Alphabet) /\ fault' \in {fault, "drain"}
    <2>1. CASE UNCHANGED connVars
      BY <1>2, <2>1 DEF connVars
    <2>2. ASSUME NEW k \in DOMAIN input, Arrive(LineBuf, k)
          PROVE  input' \in Seq(Alphabet) /\ fault' \in {fault, "drain"}
      <3>1. LineBuf \in Int
        BY Parameters
      <3>2. input' \in Seq(Alphabet)
        BY <1>2, <2>2, <3>1, Received
      <3> QED
        BY <2>2, <3>2 DEF Arrive
    <2>3. CASE Nothing
      BY <1>2, <2>3, NotReceived DEF Nothing
    <2>4. ASSUME NEW kind \in Failures, RecvFails(kind, "drain")
          PROVE  input' \in Seq(Alphabet) /\ fault' \in {fault, "drain"}
      BY <1>2, <2>4, NotReceived DEF RecvFails
    <2>5. ReadReturns \/ NullRequest => UNCHANGED connVars
      BY DEF ReadReturns, NullRequest
    <2>6. Drain \/ ThrowAway(LineBuf) =>
             \/ UNCHANGED connVars
             \/ \E k \in DOMAIN input : Arrive(LineBuf, k)
             \/ Nothing
             \/ \E kind \in Failures : RecvFails(kind, "drain")
      BY DEF Drain, ThrowAway
    <2> QED
      BY <2>1, <2>2, <2>3, <2>4, <2>5, <2>6
  <1>4. rpc' = "broken" => err = NoMemory
    BY <1>1 DEF ReadInv, Failed, ReadReturns, NullRequest, Drain, ThrowAway
  <1>5. Typed'
    BY <1>1, <1>3 DEF ReadInv, Typed
  <1>6. Placed'
    BY <1>1 DEF Placed, EarlyPCs, FieldPCs
  <1>7. BuffersFit'
    BY <1>1 DEF ReadInv, BuffersFit
  <1>8. Failed'
    <2>1. fault \in {"first", "header", "form"} => rpc \in LatePCs /\ err # "okay"
      BY DEF ReadInv, Failed
    <2>2. fault' \in {"first", "header", "form"} => rpc' \in LatePCs
      BY <1>1, <1>3, <2>1 DEF LatePCs, ReadReturns, NullRequest, Drain, ThrowAway
    <2> QED
      BY <1>1, <1>3, <1>4, <2>1, <2>2 DEF Failed
  <1> QED
    BY <1>5, <1>6, <1>7, <1>8 DEF ReadInv

LEMMA ReadInvInit == RequestInit => ReadInv
  <1> SUFFICES ASSUME RequestInit PROVE ReadInv
    OBVIOUS
  <1>1. /\ rpc = "alloc" /\ err = "okay" /\ sent \in Requests /\ input = Encoded(sent)
        /\ fault = "none" /\ rest = <<>> /\ pos = 0 /\ searched = 0 /\ bufbytes = 0 /\ buflen = 0
    BY DEF RequestInit, ConnInit, FormInit, LinesInit
  <1>2. ~post /\ post \in BOOLEAN /\ bodyApart \in BOOLEAN
    BY Zenon DEF RequestInit, FormInit, LinesInit
  <1>3. input \in Seq(Alphabet)
    BY <1>1, EncodedIs
  <1>4. <<>> \in Seq(Alphabet) /\ Len(<<>>) = 0
    BY EmptySeq
  <1>5. /\ LineBuf <= Max({LineBuf, MaxForm + MinForm - 1})
        /\ Max({LineBuf, MaxForm + MinForm - 1}) \in Int
    <2>1. LineBuf \in Int /\ MaxForm + MinForm - 1 \in Int
      BY Parameters
    <2> QED
      BY <2>1, MaxOfTwo
  <1>6. Typed
    BY <1>1, <1>2, <1>3, <1>4 DEF Typed
  <1>7. Placed
    BY <1>1, <1>2 DEF Placed, EarlyPCs, FieldPCs
  <1>8. BuffersFit
    BY <1>1, <1>2, <1>4, <1>5, Parameters DEF BuffersFit
  <1>9. Failed
    BY <1>1 DEF Failed
  <1> QED
    BY <1>6, <1>7, <1>8, <1>9 DEF ReadInv

\* Every step of the reading keeps the invariant.
LEMMA ReadKeeps ==
    ASSUME ReadInv, ReadStep
    PROVE  ReadInv'
  <1>1. ASSUME AllocRequest \/ FirstRecv \/ MoreRecv \/ RequestLine \/ NextLine \/ LineRecv
        PROVE  ReadInv'
    BY <1>1, EarlyKeeps
  <1>2. ASSUME PostNoMemory \/ PostInfo \/ NoPost PROVE ReadInv'
    BY <1>2, PostKeeps
  <1>3. ASSUME FormStep, UNCHANGED lineVars PROVE ReadInv'
    BY <1>3, FormKeeps
  <1>4. ASSUME ReadReturns \/ NullRequest \/ Drain \/ (ThrowAway(LineBuf) /\ UNCHANGED lineVars)
        PROVE  ReadInv'
    BY <1>4, LateKeeps
  <1> QED
    BY <1>1, <1>2, <1>3, <1>4 DEF ReadStep

LEMMA FaultsFromInv == ReadInv => FaultNotOkay
  BY DEF ReadInv, Failed, FaultNotOkay, LatePCs

-----------------------------------------------------------------------------
(***************************************************************************)
(* The types of all that is kept (RequestTypeOK).  A number that is read   *)
(* is one: what reading its first k digits gives is a function, which      *)
(* exists for every number of digits since it does for one digit less.     *)
(***************************************************************************)

\* What is received is a piece of what was sent.
Coming == sent \in Requests /\ IsSuffix(input, Encoded(sent))
Flags == {closed, EoD, post, te_chunked, crApart, headerCut, bodyApart} \subseteq BOOLEAN
RequestControl ==
    /\ rpc \in RPCs /\ err \in Errors
    /\ fault \in {"none", "first", "more", "header", "form_first", "form", "drain"}
    /\ version \in {"1.0", "1.1"} /\ method \in Methods \cup {Unknown}
Counts == content_length \in Nat /\ bytes_read \in Nat /\ lines \in Seq(Pair)

RequestTypes == ReadInv /\ Coming /\ Flags /\ RequestControl /\ Counts

LEMMA ReverseIs ==
    ASSUME NEW s \in Seq(Alphabet)
    PROVE  /\ Reverse(s) \in Seq(Alphabet) /\ Len(Reverse(s)) = Len(s)
           /\ \A i \in 1..Len(s) : Reverse(s)[i] = s[Len(s) - i + 1]
  <1> DEFINE n == Len(s)
             r == Reverse(s)
  <1>1. n \in Nat /\ \A i \in 1..n : s[i] \in Alphabet
    BY LenProperties, ElementOfSeq
  <1>2. \A i \in 1..n : n - i + 1 \in 1..n
    BY <1>1
  <1>3. r = [i \in 1..n |-> s[n - i + 1]]
    BY DEF Reverse
  <1> HIDE DEF n, r
  <1>4. r \in [1..n -> Alphabet]
    BY <1>1, <1>2, <1>3
  <1>5. r \in Seq(Alphabet) /\ Len(r) = n
    BY <1>1, <1>4, IsASeq, LenProperties
  <1>6. \A i \in 1..n : r[i] = s[n - i + 1]
    BY <1>3
  <1> QED
    BY <1>5, <1>6 DEF n, r

LEMMA SamePrefix ==
    ASSUME NEW s \in Seq(Alphabet), NEW t \in Seq(Alphabet), Len(s) <= Len(t)
    PROVE  SubSeq(s, 1, Len(s)) = SubSeq(t, 1, Len(s)) <=> \A i \in 1..Len(s) : s[i] = t[i]
  <1> DEFINE n == Len(s)
             a == SubSeq(s, 1, n)
             b == SubSeq(t, 1, n)
  <1>1. /\ n \in Nat /\ Len(t) \in Nat /\ n <= Len(t)
        /\ \A i \in 1..n : s[i] \in Alphabet
        /\ \A i \in 1..Len(t) : t[i] \in Alphabet
    BY LenProperties, ElementOfSeq
  <1>2. 1 \in Int /\ n \in Int /\ \A i \in 1..n : t[i] \in Alphabet
    BY <1>1
  <1>3. a \in Seq(Alphabet) /\ Len(a) = n /\ \A i \in 1..n : a[i] = s[i]
    BY <1>1, <1>2, SubSeqProperties
  <1>4. b \in Seq(Alphabet) /\ Len(b) = n /\ \A i \in 1..n : b[i] = t[i]
    BY <1>1, <1>2, SubSeqProperties
  <1> HIDE DEF a, b, n
  <1>5. ASSUME \A i \in 1..n : s[i] = t[i] PROVE a = b
    BY <1>3, <1>4, <1>5, SeqEqual
  <1>6. a = b => \A i \in 1..n : s[i] = t[i]
    BY <1>3, <1>4
  <1> QED
    BY <1>5, <1>6 DEF a, b, n

LEMMA SuffixIs ==
    ASSUME NEW s \in Seq(Alphabet), NEW t \in Seq(Alphabet)
    PROVE  IsSuffix(s, t) <=> /\ Len(s) <= Len(t)
                              /\ \A i \in 1..Len(s) : s[Len(s) - i + 1] = t[Len(t) - i + 1]
  <1> DEFINE a == Reverse(s)
             b == Reverse(t)
  <1>1. /\ a \in Seq(Alphabet) /\ Len(a) = Len(s) /\ b \in Seq(Alphabet) /\ Len(b) = Len(t)
        /\ \A i \in 1..Len(s) : a[i] = s[Len(s) - i + 1]
        /\ \A i \in 1..Len(t) : b[i] = t[Len(t) - i + 1]
    BY ReverseIs
  <1>2. Len(s) \in Nat /\ Len(t) \in Nat
    BY LenProperties
  <1>3. IsSuffix(s, t) <=> Len(a) <= Len(b) /\ SubSeq(a, 1, Len(a)) = SubSeq(b, 1, Len(a))
    BY DEF IsSuffix, IsPrefix
  <1> HIDE DEF a, b
  <1>4. ASSUME Len(s) <= Len(t)
        PROVE  SubSeq(a, 1, Len(a)) = SubSeq(b, 1, Len(a)) <=> \A i \in 1..Len(s) : a[i] = b[i]
    BY <1>1, <1>4, SamePrefix
  <1>5. ASSUME Len(s) <= Len(t)
        PROVE  \A i \in 1..Len(s) : a[i] = b[i] <=> s[Len(s) - i + 1] = t[Len(t) - i + 1]
    BY <1>1, <1>2, <1>5
  <1> QED
    BY <1>1, <1>3, <1>4, <1>5

LEMMA SuffixesOf ==
    ASSUME NEW s \in Seq(Alphabet), NEW t \in Seq(Alphabet), IsSuffix(s, t)
    PROVE  /\ IsSuffix(<<>>, t)
           /\ \A k \in 1..Len(s) : IsSuffix(SubSeq(s, k + 1, Len(s)), t)
  <1>1. <<>> \in Seq(Alphabet) /\ Len(<<>>) = 0 /\ Len(s) \in Nat /\ Len(t) \in Nat
    BY LenProperties, EmptySeq
  <1>2. Len(s) <= Len(t) /\ \A i \in 1..Len(s) : s[Len(s) - i + 1] = t[Len(t) - i + 1]
    BY SuffixIs
  <1>3. IsSuffix(<<>>, t)
    <2> DEFINE e == <<>>
    <2>1. e \in Seq(Alphabet) /\ Len(e) <= Len(t) /\ \A i \in 1..Len(e) : FALSE
      BY <1>1
    <2> HIDE DEF e
    <2>2. IsSuffix(e, t)
      BY <2>1, SuffixIs
    <2> QED
      BY <2>2 DEF e
  <1>4. ASSUME NEW k \in 1..Len(s) PROVE IsSuffix(SubSeq(s, k + 1, Len(s)), t)
    <2> DEFINE u == SubSeq(s, k + 1, Len(s))
    <2>1. /\ u \in Seq(Alphabet) /\ Len(u) = Len(s) - k
          /\ \A i \in 1..(Len(s) - k) : u[i] = s[k + i]
      BY <1>1, SubSeqProperties
    <2> HIDE DEF u
    <2>2. ASSUME NEW i \in 1..Len(u) PROVE u[Len(u) - i + 1] = t[Len(t) - i + 1]
      <3> DEFINE j == Len(u) - i + 1
      <3>1. j \in 1..(Len(s) - k) /\ k + j = Len(s) - i + 1 /\ i \in 1..Len(s)
        BY <1>1, <2>1
      <3> HIDE DEF j
      <3>2. u[j] = s[k + j]
        BY <2>1, <3>1
      <3>3. u[j] = t[Len(t) - i + 1]
        BY <1>2, <3>1, <3>2
      <3> QED
        BY <3>3 DEF j
    <2>3. Len(u) <= Len(t)
      BY <1>1, <1>2, <2>1
    <2>4. IsSuffix(u, t)
      BY <2>1, <2>2, <2>3, SuffixIs
    <2> QED
      BY <2>4 DEF u
  <1> QED
    BY <1>3, <1>4

FaultPlaces == {"first", "more", "header", "form_first", "form", "drain"}

\* What a step does to the connection.
Receives ==
    \/ UNCHANGED connVars
    \/ \E k \in DOMAIN input : \E room : Arrive(room, k)
    \/ Nothing
    \/ \E kind \in Failures, at \in FaultPlaces : RecvFails(kind, at)

LEMMA MoreReceives ==
    ASSUME FormMore PROVE Receives
  <1> USE DEF Receives, FaultPlaces
  <1> QED
    BY DEF FormMore

LEMMA StepReceives ==
    ASSUME ReadStep PROVE Receives
  <1> USE DEF Receives, FaultPlaces
  <1>1. CASE AllocRequest
    BY <1>1 DEF AllocRequest
  <1>2. CASE FirstRecv
    BY <1>2 DEF FirstRecv, Failures
  <1>3. CASE MoreRecv
    BY <1>3 DEF MoreRecv
  <1>4. CASE RequestLine
    BY <1>4 DEF RequestLine
  <1>5. CASE NextLine
    BY <1>5 DEF NextLine
  <1>6. CASE LineRecv
    BY <1>6 DEF LineRecv
  <1>7. CASE PostNoMemory
    BY <1>7 DEF PostNoMemory
  <1>8. CASE PostInfo
    BY <1>8 DEF PostInfo
  <1>9. CASE NoPost
    BY <1>9 DEF NoPost
  <1>10. CASE ReadReturns
    BY <1>10 DEF ReadReturns
  <1>11. CASE NullRequest
    BY <1>11 DEF NullRequest
  <1>12. CASE Drain
    BY <1>12 DEF Drain
  <1>13. CASE FormStart
    BY <1>13 DEF FormStart
  <1>14. CASE FormFirst
    BY <1>14 DEF FormFirst
  <1>15. CASE FormKey
    BY <1>15, MoreReceives DEF FormKey
  <1>16. CASE FormValue
    BY <1>16, MoreReceives DEF FormValue
  <1>17. CASE FormNoMemory
    BY <1>17 DEF FormNoMemory
  <1>18. CASE FormLoop
    BY <1>18 DEF FormLoop
  <1>19. CASE FormRest
    BY <1>19 DEF FormRest
  <1>20. CASE FormEnd
    BY <1>20 DEF FormEnd
  <1>21. CASE ThrowAway(LineBuf)
    BY <1>21 DEF ThrowAway
  <1> QED
    BY <1>1, <1>2, <1>3, <1>4, <1>5, <1>6, <1>7, <1>8, <1>9, <1>10, <1>11, <1>12, <1>13, <1>14,
       <1>15, <1>16, <1>17, <1>18, <1>19, <1>20, <1>21 DEF ReadStep, FormStep

LEMMA ComingKept ==
    ASSUME Coming, input \in Seq(Alphabet), Receives
    PROVE  Coming'
  <1>1. sent \in Requests /\ IsSuffix(input, Encoded(sent)) /\ Encoded(sent) \in Seq(Alphabet)
    BY EncodedIs DEF Coming
  <1>2. sent' = sent
    BY DEF Receives, connVars, Arrive, Nothing, RecvFails
  <1>3. \/ input' = input \/ input' = <<>>
        \/ \E k \in DOMAIN input : input' = SubSeq(input, k + 1, Len(input))
    BY DEF Receives, connVars, Arrive, Nothing, RecvFails
  <1>4. \A k \in DOMAIN input : k \in 1..Len(input)
    BY LenProperties
  <1>5. /\ IsSuffix(<<>>, Encoded(sent))
        /\ \A k \in 1..Len(input) : IsSuffix(SubSeq(input, k + 1, Len(input)), Encoded(sent))
    BY <1>1, SuffixesOf
  <1>6. IsSuffix(input', Encoded(sent))
    BY <1>1, <1>3, <1>4, <1>5
  <1> QED
    BY <1>1, <1>2, <1>6 DEF Coming

\* What a step does to the flags.
LineFlags ==
    /\ post' = post \/ post' = TRUE
    /\ te_chunked' = te_chunked \/ te_chunked' = Chunked
    /\ crApart' = crApart \/ crApart' = (crApart \/ Last(rest) = CR)
    /\ headerCut' = headerCut \/ headerCut' = (headerCut \/ NoText)
FormFlags ==
    /\ EoD' = EoD \/ EoD' = (bytes_read >= content_length) \/ EoD' = (bytes_read' >= content_length)
    /\ bodyApart' = bodyApart \/ bodyApart' = TRUE

LEMMA StepLineFlags ==
    ASSUME ReadStep PROVE LineFlags
  <1> USE DEF LineFlags, lineVars, lineFrame
  <1>1. ASSUME UNCHANGED lineVars PROVE LineFlags
    BY <1>1, Zenon
  <1>2. CASE NextLine
    BY <1>2, Zenon DEF NextLine
  <1>3. CASE LineRecv
    <2>1. crApart' = crApart \/ crApart' = (crApart \/ Last(rest) = CR)
      BY <1>3, Zenon DEF LineRecv
    <2>2. /\ post' = post /\ te_chunked' = te_chunked /\ headerCut' = headerCut
      BY <1>3, Zenon DEF LineRecv
    <2> QED
      BY <2>1, <2>2, Zenon
  <1>4. CASE RequestLine
    BY <1>4, Zenon DEF RequestLine
  <1>5. CASE PostNoMemory
    BY <1>5, Zenon DEF PostNoMemory
  <1>6. CASE PostInfo
    BY <1>6, Zenon DEF PostInfo
  <1> QED
    BY <1>1, <1>2, <1>3, <1>4, <1>5, <1>6, Zenon
       DEF ReadStep, AllocRequest, FirstRecv, MoreRecv, NoPost, ReadReturns, NullRequest, Drain

LEMMA MoreFormFlags ==
    ASSUME FormMore PROVE FormFlags
  BY Zenon DEF FormMore, FormFlags, formVars, fieldVars

LEMMA StepFormFlags ==
    ASSUME ReadStep PROVE FormFlags
  <1> USE DEF FormFlags, formVars, fieldVars, lineFrame
  <1>1. ASSUME UNCHANGED <<EoD, bodyApart>> PROVE FormFlags
    BY <1>1, Zenon
  <1>2. CASE FormStart
    BY <1>2, Zenon DEF FormStart
  <1>3. CASE FormFirst
    BY <1>3, Zenon DEF FormFirst
  <1>4. CASE FormKey
    BY <1>4, MoreFormFlags, Zenon DEF FormKey
  <1>5. CASE FormValue
    BY <1>5, MoreFormFlags, Zenon DEF FormValue
  <1>6. ASSUME FormNoMemory \/ FormLoop \/ FormRest \/ FormEnd \/ ThrowAway(LineBuf)
        PROVE  FormFlags
    BY <1>1, <1>6, Zenon DEF FormNoMemory, FormLoop, FormRest, FormEnd, ThrowAway
  <1>7. ASSUME AllocRequest \/ FirstRecv \/ MoreRecv \/ RequestLine \/ NextLine \/ LineRecv
        PROVE  FormFlags
    BY <1>1, <1>7, Zenon DEF AllocRequest, FirstRecv, MoreRecv, RequestLine, NextLine, LineRecv
  <1>8. ASSUME PostNoMemory \/ PostInfo \/ NoPost \/ ReadReturns \/ NullRequest \/ Drain
        PROVE  FormFlags
    BY <1>1, <1>8, Zenon DEF PostNoMemory, PostInfo, NoPost, ReadReturns, NullRequest, Drain
  <1> QED
    BY <1>2, <1>3, <1>4, <1>5, <1>6, <1>7, <1>8, Zenon DEF ReadStep, FormStep

LEMMA FlagsKept ==
    ASSUME Flags, ReadStep
    PROVE  Flags'
  <1>1. closed' \in BOOLEAN
    <2>1. closed' = closed \/ closed' = TRUE \/ \E kind \in Failures : closed' = (closed \/ kind = "socket")
      BY StepReceives, Zenon DEF Receives, connVars, Arrive, Nothing, RecvFails
    <2> QED
      BY <2>1, Zenon DEF Flags
  <1>2. EoD' \in BOOLEAN /\ bodyApart' \in BOOLEAN
    <2>1. \A a, b : (a >= b) \in BOOLEAN
      OBVIOUS
    <2> QED
      BY <2>1, StepFormFlags, Zenon DEF FormFlags, Flags
  <1>3. /\ post' \in BOOLEAN /\ te_chunked' \in BOOLEAN
        /\ crApart' \in BOOLEAN /\ headerCut' \in BOOLEAN
    BY StepLineFlags, Zenon DEF LineFlags, Flags, Chunked
  <1> QED
    BY <1>1, <1>2, <1>3, Zenon DEF Flags

\* A byte among the digits is one.
LEMMA DigitIs ==
    ASSUME NEW b \in Range(Digits)
    PROVE  Place(Digits, b) \in Int /\ Place(Digits, b) - 1 \in 0..9
  <1> DEFINE P == {k \in 1..Len(Digits) : Digits[k] = b}
  <1>1. Len(Digits) = 10 /\ DOMAIN Digits = 1..10
    BY DEF Digits
  <1>2. P # {} /\ P \subseteq Nat /\ P \subseteq 1..10
    BY <1>1 DEF Range
  <1>3. Min(P) \in P
    BY <1>2, MinIs
  <1>4. Place(Digits, b) = Min(P)
    BY <1>2 DEF Place
  <1>5. Place(Digits, b) \in 1..10 /\ Place(Digits, b) \in Int
    BY <1>2, <1>3, <1>4
  <1> HIDE DEF P
  <1> QED
    BY <1>5

\* Reading n digits gives a number: there is a function with the numbers of
\* the first k of them.
LEMMA DigitsRead ==
    ASSUME NEW d, NEW n \in Nat, \A k \in 1..n : d[k] \in Range(Digits),
           NEW f, f = [k \in 0..n |-> IF k = 0 THEN 0 ELSE 10 * f[k - 1] + Place(Digits, d[k]) - 1]
    PROVE  f[n] \in Nat
  <1> DEFINE Bad == {k \in 0..n : f[k] \notin Nat}
  <1>1. ASSUME Bad # {} PROVE FALSE
    <2>1. PICK m \in Bad : \A k \in Bad : m <= k
      <3>1. Bad \subseteq Nat
        OBVIOUS
      <3> HIDE DEF Bad
      <3> QED
        BY <1>1, <3>1, LeastOf
    <2>2. m # 0
      <3>1. f[0] = 0
        OBVIOUS
      <3> QED
        BY <3>1
    <2>3. m \in 0..n /\ m - 1 \in 0..n /\ m - 1 \notin Bad /\ m \in 1..n
      BY <2>1, <2>2
    <2>4. f[m - 1] \in Nat
      BY <2>3
    <2>5. f[m] = 10 * f[m - 1] + Place(Digits, d[m]) - 1
      BY <2>2, <2>3
    <2>6. Place(Digits, d[m]) - 1 \in 0..9
      BY <2>3, DigitIs
    <2>7. f[m] \in Nat
      <3> DEFINE x == f[m - 1]
                 y == Place(Digits, d[m])
      <3>1. x \in Nat /\ y - 1 \in 0..9 /\ f[m] = 10 * x + y - 1 /\ y \in Int
        BY <2>3, <2>4, <2>5, <2>6, DigitIs
      <3> HIDE DEF x, y
      <3> QED
        BY <3>1
    <2> QED
      BY <2>1, <2>7
  <1> QED
    BY <1>1

LEMMA DigitsReadable ==
    ASSUME NEW d, NEW n \in Nat, \A k \in 1..n : d[k] \in Range(Digits)
    PROVE  \E f : f = [k \in 0..n |-> IF k = 0 THEN 0 ELSE 10 * f[k - 1] + Place(Digits, d[k]) - 1]
  <1> DEFINE Step(f, k) == IF k = 0 THEN 0 ELSE 10 * f[k - 1] + Place(Digits, d[k]) - 1
             Upto(m, f) == f = [k \in 0..m |-> Step(f, k)]
             Bad == {m \in 0..n : \A f : ~Upto(m, f)}
  <1>1. ASSUME Bad # {} PROVE FALSE
    <2>1. PICK m \in Bad : \A k \in Bad : m <= k
      <3>1. Bad \subseteq Nat
        OBVIOUS
      <3> HIDE DEF Bad
      <3> QED
        BY <1>1, <3>1, LeastOf
    <2>2. CASE m = 0
      <3> DEFINE f == [k \in 0..0 |-> 0]
      <3>1. [k \in 0..0 |-> Step(f, k)] = f
        OBVIOUS
      <3>2. Upto(0, f)
        BY <3>1
      <3> QED
        BY <2>1, <2>2, <3>2
    <2>3. CASE m # 0
      <3>1. m \in 0..n /\ m - 1 \in 0..n /\ m - 1 \notin Bad
        <4>1. m \in 0..n
          BY <2>1
        <4> HIDE DEF Bad
        <4> QED
          BY <2>1, <2>3, <4>1
      <3>2. PICK f : Upto(m - 1, f)
        <4> HIDE DEF Upto
        <4> QED
          BY <3>1
      <3> DEFINE g == [k \in 0..m |-> IF k = m THEN Step(f, m) ELSE f[k]]
      <3>3. ASSUME NEW k \in 0..m PROVE g[k] = Step(g, k)
        <4>1. CASE k = m
          <5>1. g[m - 1] = f[m - 1]
            BY <2>3, <3>1
          <5> QED
            BY <2>3, <4>1, <5>1
        <4>2. CASE k # m
          <5>1. k \in 0..(m - 1) /\ g[k] = f[k]
            BY <3>1, <4>2
          <5>2. f[k] = Step(f, k)
            BY <3>2, <5>1
          <5>3. k # 0 => g[k - 1] = f[k - 1]
            BY <3>1, <5>1
          <5> QED
            BY <5>1, <5>2, <5>3
        <4> QED
          BY <4>1, <4>2
      <3>4. Upto(m, g)
        <4>1. g = [k \in 0..m |-> g[k]]
          OBVIOUS
        <4> HIDE DEF g, Step
        <4>2. [k \in 0..m |-> g[k]] = [k \in 0..m |-> Step(g, k)]
          BY <3>3
        <4> QED
          BY <4>1, <4>2
      <3> HIDE DEF g
      <3> QED
        BY <2>1, <3>4
    <2> QED
      BY <2>2, <2>3
  <1>2. \E f : Upto(n, f)
    BY <1>1
  <1> QED
    BY <1>2

\* The first place that is not good.
FirstOf(I) == IF I # {} THEN Min(I) ELSE 0

LEMMA FirstIs ==
    ASSUME NEW n \in Nat, NEW I, I \subseteq 1..n
    PROVE  /\ FirstOf(I) \in 0..n
           /\ \A i \in 1..n : FirstOf(I) = 0 \/ i < FirstOf(I) => i \notin I
           /\ I # {} => FirstOf(I) \in I
  <1>1. I \subseteq Nat
    OBVIOUS
  <1>2. I # {} => Min(I) \in I /\ \A i \in I : Min(I) <= i
    BY <1>1, LeastOf DEF Min
  <1>3. CASE I = {}
    BY <1>3 DEF FirstOf
  <1>4. CASE I # {}
    <2>1. FirstOf(I) = Min(I)
      BY <1>4 DEF FirstOf
    <2>2. FirstOf(I) \in 1..n /\ \A i \in I : FirstOf(I) <= i
      BY <1>2, <1>4, <2>1
    <2> QED
      BY <1>2, <1>4, <2>1, <2>2
  <1> QED
    BY <1>3, <1>4

LEMMA NumberIs ==
    ASSUME NEW v \in Seq(Alphabet)
    PROVE  Number(v) \in Nat
  <1> DEFINE I == {i \in 1..Len(v) : v[i] \notin Range(Digits)}
             other == IF I # {} THEN Min(I) ELSE 0
             digits == IF other = 0 THEN v ELSE SubSeq(v, 1, other - 1)
             n == Len(digits)
             Reads(f) == f = [k \in 0..n |-> IF k = 0 THEN 0 ELSE 10 * f[k - 1] + Place(Digits, digits[k]) - 1]
             read == CHOOSE f : Reads(f)
  <1>1. Number(v) = read[n]
    BY DEF Number, SelectInSeq
  <1>2. Len(v) \in Nat /\ \A i \in 1..Len(v) : v[i] \in Alphabet
    BY LenProperties, ElementOfSeq
  <1>3. /\ other \in 0..Len(v)
        /\ \A i \in 1..Len(v) : other = 0 \/ i < other => v[i] \in Range(Digits)
    <2>1. I \subseteq 1..Len(v) /\ \A i \in 1..Len(v) : i \notin I => v[i] \in Range(Digits)
      OBVIOUS
    <2>2. other = FirstOf(I)
      BY DEF FirstOf
    <2> HIDE DEF other, I
    <2> QED
      BY <1>2, <2>1, <2>2, FirstIs
  <1> HIDE DEF other
  <1>4. n \in Nat /\ \A k \in 1..n : digits[k] \in Range(Digits)
    <2>1. CASE other = 0
      BY <1>2, <1>3, <2>1
    <2>2. CASE other # 0
      <3>1. 1 \in Int /\ other - 1 \in Int /\ \A i \in 1..(other - 1) : v[i] \in Alphabet
        BY <1>2, <1>3
      <3>2. /\ Len(SubSeq(v, 1, other - 1)) = other - 1
            /\ \A i \in 1..(other - 1) : SubSeq(v, 1, other - 1)[i] = v[i]
        BY <1>3, <2>2, <3>1, SubSeqProperties
      <3> QED
        BY <1>3, <2>2, <3>2
    <2> QED
      BY <2>1, <2>2
  <1> HIDE DEF digits, n
  <1>5. \E f : Reads(f)
    BY <1>4, DigitsReadable
  <1>6. Reads(read)
    BY <1>5
  <1> HIDE DEF read
  <1> QED
    BY <1>1, <1>4, <1>6, DigitsRead

LEMMA CrLfWithin ==
    ASSUME NEW s \in Seq(Alphabet), NEW a \in Nat
    PROVE  CrLfAt(s, a) \in 0..Len(s)
  <1> DEFINE P == {p \in a..(Len(s) - 1) : s[p] = CR /\ s[p + 1] = LF /\ \A k \in a..p : s[k] # Nul}
  <1>1. Len(s) \in Nat /\ P \subseteq Nat /\ P \subseteq 0..Len(s)
    BY LenProperties
  <1>2. CrLfAt(s, a) = IF P = {} THEN 0 ELSE Min(P)
    BY DEF CrLfAt
  <1>3. P # {} => Min(P) \in P
    BY <1>1, MinIs
  <1> HIDE DEF P
  <1>4. P # {} => CrLfAt(s, a) = Min(P) /\ Min(P) \in 0..Len(s)
    BY <1>1, <1>2, <1>3
  <1>5. P = {} => CrLfAt(s, a) = 0 /\ 0 \in 0..Len(s)
    BY <1>1, <1>2
  <1> QED
    BY <1>4, <1>5

LEMMA FrontOf ==
    ASSUME NEW s \in Seq(Alphabet), NEW c \in 1..Len(s)
    PROVE  SubSeq(s, 1, c - 1) \in Seq(Alphabet)
  <1>1. c - 1 \in 0..Len(s) /\ 1 \in Nat \ {0}
    BY LenProperties
  <1> QED
    BY <1>1, PieceOf

PairOf(line, c) ==
    [key |-> SubSeq(line, 1, c - 1), value |-> From(line, IF At(line, c + 1, SP) THEN c + 2 ELSE c + 1)]

LEMMA PairTyped ==
    ASSUME NEW s \in Seq(Alphabet), NEW c \in 1..Len(s)
    PROVE  PairOf(s, c) \in Pair
  <1> DEFINE a == IF At(s, c + 1, SP) THEN c + 2 ELSE c + 1
             key == SubSeq(s, 1, c - 1)
             value == From(s, a)
  <1>1. key \in Seq(Alphabet)
    BY FrontOf
  <1>2. value \in Seq(Alphabet)
    <2>1. c + 1 \in Nat \ {0} /\ c + 2 \in Nat \ {0}
      BY LenProperties
    <2>2. a \in Nat \ {0}
      BY <2>1
    <2> HIDE DEF a
    <2> QED
      BY <2>2, RestOf
  <1> HIDE DEF key, value
  <1>3. [key |-> key, value |-> value] \in Pair
    BY <1>1, <1>2 DEF Pair
  <1> QED
    BY <1>3 DEF PairOf, key, value

LEMMA LineTyped ==
    ASSUME NEW text \in Seq(Alphabet), NEW p \in 1..Len(text), TakeLine(text, p), lines \in Seq(Pair)
    PROVE  lines' \in Seq(Pair)
  <1> DEFINE line == CString(SubSeq(text, 1, p - 1))
             c == Place(line, COLON)
  <1>1. \/ lines' = lines
        \/ c > 0 /\ lines' = Append(lines, PairOf(line, c))
    BY DEF TakeLine, PairOf
  <1>2. line \in Seq(Alphabet)
    BY FrontOf, CStringTyped
  <1> HIDE DEF line
  <1>3. c \in 0..Len(line) /\ Len(line) \in Nat
    BY <1>2, PlaceIs, LenProperties
  <1> HIDE DEF c
  <1>4. c > 0 => c \in 1..Len(line)
    BY <1>3
  <1>5. c > 0 => PairOf(line, c) \in Pair
    BY <1>2, <1>4, PairTyped
  <1> QED
    BY <1>1, <1>5, AppendProperties

LEMMA LinesKept ==
    ASSUME ReadInv, lines \in Seq(Pair), ReadStep
    PROVE  lines' \in Seq(Pair)
  <1>1. ASSUME UNCHANGED lines PROVE lines' \in Seq(Pair)
    BY <1>1
  <1>2. /\ rest \in Seq(Alphabet) /\ input \in Seq(Alphabet) /\ Len(rest) \in Nat
    BY LenProperties DEF ReadInv, Typed
  <1>3. CASE NextLine
    <2> DEFINE p == CrLfAt(rest, 1)
    <2>1. lines' = lines \/ (p > 1 /\ TakeLine(rest, p))
      BY <1>3 DEF NextLine
    <2>2. p \in 0..Len(rest)
      BY <1>2, CrLfWithin
    <2> HIDE DEF p
    <2>3. p > 1 => p \in 1..Len(rest)
      BY <1>2, <2>2
    <2> QED
      BY <1>2, <2>1, <2>3, LineTyped
  <1>4. CASE LineRecv
    <2>1. \/ lines' = lines
          \/ \E k \in DOMAIN input :
               /\ Arrive(buflen0 - Len(rest), k)
               /\ LET text == rest \o Segment(k)
                      p    == CrLfAt(text, Len(rest) + 1)
                  IN  p > 0 /\ TakeLine(text, p)
      BY <1>4 DEF LineRecv
    <2>2. CASE lines' = lines
      BY <1>1, <2>2
    <2>3. ASSUME NEW k \in DOMAIN input, Arrive(buflen0 - Len(rest), k),
                 CrLfAt(rest \o Segment(k), Len(rest) + 1) > 0,
                 TakeLine(rest \o Segment(k), CrLfAt(rest \o Segment(k), Len(rest) + 1))
          PROVE  lines' \in Seq(Pair)
      <3> DEFINE room == buflen0 - Len(rest)
                 text == rest \o Segment(k)
                 p == CrLfAt(text, Len(rest) + 1)
      <3>1. Segment(k) \in Seq(Alphabet)
        <4>1. room \in Int
          BY <1>2, Parameters
        <4> HIDE DEF room
        <4> QED
          BY <1>2, <2>3, <4>1, Received DEF room
      <3>2. text \in Seq(Alphabet) /\ Len(text) \in Nat
        BY <1>2, <3>1, Appended, LenProperties
      <3>3. p \in 0..Len(text)
        <4>1. Len(rest) + 1 \in Nat
          BY <1>2
        <4> HIDE DEF text
        <4> QED
          BY <3>2, <4>1, CrLfWithin
      <3>4. p > 0 /\ TakeLine(text, p)
        BY <2>3
      <3> HIDE DEF p, text
      <3> QED
        BY <3>2, <3>3, <3>4, LineTyped
    <2> QED
      BY <2>1, <2>2, <2>3
  <1>5. ASSUME UNCHANGED lineVars PROVE lines' \in Seq(Pair)
    BY <1>1, <1>5 DEF lineVars
  <1> QED
    BY <1>1, <1>3, <1>4, <1>5
       DEF ReadStep, AllocRequest, FirstRecv, MoreRecv, RequestLine, PostNoMemory, PostInfo,
           NoPost, ReadReturns, NullRequest, Drain, lineVars

\* The value of a header line that was sent.
LEMMA ValueIs ==
    ASSUME lines \in Seq(Pair), NEW name, Sends(name)
    PROVE  Value(name) \in Seq(Alphabet)
  <1> DEFINE I == {i \in 1..Len(lines) : lines[i].key = <<name>>}
             k == IF I # {} THEN Min(I) ELSE 0
  <1>1. Len(lines) \in Nat /\ DOMAIN lines = 1..Len(lines)
    BY LenProperties
  <1>2. I # {} /\ I \subseteq Nat
    BY <1>1 DEF Sends
  <1>3. k \in I
    <2> HIDE DEF I
    <2> QED
      BY <1>2, MinIs
  <1>4. Value(name) = lines[k].value
    BY DEF Value, SelectInSeq
  <1>5. k \in 1..Len(lines)
    BY <1>3
  <1> HIDE DEF k
  <1>6. lines[k] \in Pair
    BY <1>5, ElementOfSeq
  <1> QED
    BY <1>4, <1>6 DEF Pair

LEMMA RrtIs == \A kind \in Failures : Rrt[kind] \in Nat
  BY DEF Failures, Rrt

LEMMA CountsKept ==
    ASSUME ReadInv, Counts, ReadStep
    PROVE  content_length' \in Nat /\ bytes_read' \in Nat
  <1> USE RrtIs DEF Counts
  <1>1. /\ Len(rest) \in Nat /\ content_length \in Nat /\ bytes_read \in Nat
        /\ DOMAIN input \subseteq Nat
    BY LenProperties DEF ReadInv, Typed
  <1>2. ASSUME UNCHANGED <<content_length, bytes_read>>
        PROVE  content_length' \in Nat /\ bytes_read' \in Nat
    BY <1>1, <1>2
  <1>3. CASE PostNoMemory
    BY <1>1, <1>3 DEF PostNoMemory
  <1>4. CASE PostInfo
    <2>1. LengthError = "okay" /\ ~Chunked => Number(Value("Content-Length")) \in Nat
      <3>1. ASSUME LengthError = "okay", ~Chunked PROVE Sends("Content-Length")
        BY <3>1 DEF LengthError, Chunked
      <3> QED
        BY <3>1, ValueIs, NumberIs
    <2>2. /\ bytes_read' = Len(rest)
          /\ content_length' = IF LengthError = "okay" /\ ~Chunked THEN Number(Value("Content-Length")) ELSE 0
      BY <1>4 DEF PostInfo
    <2> QED
      BY <1>1, <2>1, <2>2
  <1>5. ASSUME FormMore PROVE content_length' \in Nat /\ bytes_read' \in Nat
    BY <1>1, <1>5 DEF FormMore, formVars, fieldVars
  <1>6. CASE FormFirst
    BY <1>1, <1>6 DEF FormFirst
  <1>7. CASE FormKey
    BY <1>2, <1>5, <1>7 DEF FormKey, formVars, fieldVars
  <1>8. CASE FormValue
    BY <1>2, <1>5, <1>8 DEF FormValue, formVars, fieldVars
  <1>9. CASE FormRest
    BY <1>1, <1>9 DEF FormRest, fieldVars
  <1>10. CASE ThrowAway(LineBuf)
    BY <1>1, <1>10 DEF ThrowAway, fieldVars
  <1>11. ASSUME FormStart \/ FormNoMemory \/ FormLoop \/ FormEnd
         PROVE  content_length' \in Nat /\ bytes_read' \in Nat
    BY <1>2, <1>11 DEF FormStart, FormNoMemory, FormLoop, FormEnd, formVars, fieldVars
  <1>12. ASSUME AllocRequest \/ FirstRecv \/ MoreRecv \/ RequestLine \/ NextLine \/ LineRecv
         PROVE  content_length' \in Nat /\ bytes_read' \in Nat
    BY <1>2, <1>12 DEF AllocRequest, FirstRecv, MoreRecv, RequestLine, NextLine, LineRecv,
         formVars, fieldVars, lineFrame
  <1>13. ASSUME NoPost \/ ReadReturns \/ NullRequest \/ Drain
         PROVE  content_length' \in Nat /\ bytes_read' \in Nat
    BY <1>2, <1>13 DEF NoPost, ReadReturns, NullRequest, Drain, formVars, fieldVars
  <1> QED
    BY <1>3, <1>4, <1>6, <1>7, <1>8, <1>9, <1>10, <1>11, <1>12, <1>13 DEF ReadStep, FormStep

\* Where the reading goes, and with what result.
Moves ==
    /\ rpc' \in RPCs
    /\ err' \in Errors

LEMMA MovesOf ==
    /\ \A to \in RPCs : Goes(to) /\ err \in Errors => Moves
    /\ \A e \in Errors : ReadEnd(e) => Moves
  BY DEF Moves, Goes, ReadEnd, RPCs

LEMMA MoreMoves ==
    ASSUME rpc \in RPCs, err \in Errors, FormMore
    PROVE  Moves
  <1>1. \/ rpc' \in {rpc, "broken"} /\ err' = err
        \/ \E e \in {"field_exceeded", "socket_timeout", "socket_err"} : ReadEnd(e)
    BY DEF FormMore, Goes
  <1> QED
    BY <1>1 DEF Moves, RPCs, Errors, ReadEnd

LEMMA StepMoves ==
    ASSUME rpc \in RPCs, err \in Errors, ReadStep
    PROVE  Moves
  <1> USE DEF Moves, Goes, ReadEnd, RPCs, Errors
  <1>1. CASE AllocRequest
    BY <1>1 DEF AllocRequest
  <1>2. CASE FirstRecv
    BY <1>2 DEF FirstRecv
  <1>3. CASE MoreRecv
    BY <1>3 DEF MoreRecv
  <1>4. CASE RequestLine
    BY <1>4 DEF RequestLine, RequestVersion, StaleVersion, Headed
  <1>5. CASE NextLine
    BY <1>5 DEF NextLine, TakeLine
  <1>6. CASE LineRecv
    BY <1>6 DEF LineRecv, TakeLine
  <1>7. CASE PostNoMemory
    BY <1>7 DEF PostNoMemory
  <1>8. CASE PostInfo
    <2>1. LengthError \in Errors /\ TypeError \in Errors
      BY DEF LengthError, TypeError
    <2>2. \/ rpc' = "read_end" /\ err' \in {LengthError, TypeError, "okay"}
          \/ rpc' = "form" /\ err' = err
      BY <1>8 DEF PostInfo
    <2> QED
      BY <2>1, <2>2
  <1>9. CASE NoPost
    BY <1>9 DEF NoPost
  <1>10. CASE ReadReturns
    BY <1>10 DEF ReadReturns
  <1>11. CASE NullRequest
    BY <1>11 DEF NullRequest
  <1>12. CASE Drain
    BY <1>12 DEF Drain
  <1>13. CASE FormStart
    BY <1>13 DEF FormStart
  <1>14. CASE FormFirst
    BY <1>14 DEF FormFirst
  <1>15. CASE FormKey
    BY <1>15, MoreMoves DEF FormKey
  <1>16. CASE FormValue
    BY <1>16, MoreMoves DEF FormValue
  <1>17. CASE FormNoMemory
    BY <1>17 DEF FormNoMemory
  <1>18. CASE FormLoop
    BY <1>18 DEF FormLoop
  <1>19. CASE FormRest
    BY <1>19 DEF FormRest
  <1>20. CASE FormEnd
    BY <1>20 DEF FormEnd
  <1>21. CASE ThrowAway(LineBuf)
    BY <1>21 DEF ThrowAway
  <1> QED
    BY <1>1, <1>2, <1>3, <1>4, <1>5, <1>6, <1>7, <1>8, <1>9, <1>10, <1>11, <1>12, <1>13, <1>14,
       <1>15, <1>16, <1>17, <1>18, <1>19, <1>20, <1>21 DEF ReadStep, FormStep

LEMMA RequestControlKept ==
    ASSUME RequestControl, ReadStep
    PROVE  RequestControl'
  <1>1. rpc' \in RPCs /\ err' \in Errors
    BY StepMoves DEF RequestControl, Moves
  <1>2. fault' \in {"none", "first", "more", "header", "form_first", "form", "drain"}
    <2>1. fault' = fault \/ fault' \in FaultPlaces
      BY StepReceives DEF Receives, connVars, Arrive, Nothing, RecvFails
    <2> QED
      BY <2>1 DEF RequestControl, FaultPlaces
  <1>3. version' \in {"1.0", "1.1"} /\ method' \in Methods \cup {Unknown}
    <2>1. CASE RequestLine
      <3>1. version' \in {version, "1.1"}
        BY <2>1 DEF RequestLine, RequestVersion, StaleVersion, Headed
      <3>2. method' = method \/ method' \in Methods \cup {Unknown}
        BY <2>1 DEF RequestLine
      <3> QED
        BY <3>1, <3>2 DEF RequestControl
    <2>2. CASE UNCHANGED <<version, method>>
      BY <2>2 DEF RequestControl
    <2>3. ReadStep => RequestLine \/ UNCHANGED <<version, method>>
      BY DEF ReadStep, AllocRequest, FirstRecv, MoreRecv, NextLine, LineRecv, PostNoMemory, PostInfo,
             NoPost, ReadReturns, NullRequest, Drain, lineVars, lineFrame
    <2> QED
      BY <2>1, <2>2, <2>3
  <1> QED
    BY <1>1, <1>2, <1>3 DEF RequestControl

LEMMA RequestTypesKept ==
    ASSUME RequestTypes, ReadStep
    PROVE  RequestTypes'
  <1>1. ReadInv'
    BY ReadKeeps DEF RequestTypes
  <1>2. Coming'
    BY StepReceives, ComingKept DEF RequestTypes, ReadInv, Typed
  <1>3. Flags'
    BY FlagsKept DEF RequestTypes
  <1>4. RequestControl'
    BY RequestControlKept DEF RequestTypes
  <1>5. Counts'
    BY CountsKept, LinesKept DEF RequestTypes, Counts
  <1> QED
    BY <1>1, <1>2, <1>3, <1>4, <1>5 DEF RequestTypes

LEMMA RequestTypesStart ==
    ASSUME RequestInit
    PROVE  RequestTypes
  <1>1. ReadInv
    BY ReadInvInit
  <1>2. Coming
    <2>1. sent \in Requests /\ input = Encoded(sent)
      BY DEF RequestInit, ConnInit
    <2>2. Encoded(sent) \in Seq(Alphabet)
      BY <2>1, EncodedIs
    <2> DEFINE e == Encoded(sent)
    <2>3. e \in Seq(Alphabet) /\ Len(e) <= Len(e)
      BY <2>2, LenProperties
    <2> HIDE DEF e
    <2>4. IsSuffix(e, e)
      BY <2>3, SuffixIs
    <2> QED
      BY <2>1, <2>4 DEF Coming, e
  <1>3. Flags
    BY Zenon DEF RequestInit, ConnInit, FormInit, LinesInit, Flags
  <1>4. RequestControl
    BY DEF RequestInit, ConnInit, FormInit, LinesInit, RequestControl, RPCs, Errors
  <1>5. Counts
    BY EmptySeq DEF RequestInit, FormInit, LinesInit, Counts
  <1> QED
    BY <1>1, <1>2, <1>3, <1>4, <1>5 DEF RequestTypes

LEMMA RequestTypesFromInv ==
    ASSUME RequestTypes
    PROVE  RequestTypeOK
  <1>1. {closed, EoD, post, te_chunked, crApart, headerCut, bodyApart} \subseteq BOOLEAN
    BY DEF RequestTypes, Flags
  <1>2. {content_length, bytes_read, bufbytes, pos} \subseteq Nat
    BY DEF RequestTypes, Counts, ReadInv, Typed
  <1>3. BuffersFit
    BY DEF RequestTypes, ReadInv
  <1>4. sent \in Requests /\ IsSuffix(input, Encoded(sent))
    BY DEF RequestTypes, Coming
  <1> QED
    BY <1>1, <1>2, <1>3, <1>4, Zenon DEF RequestTypes, RequestControl, RequestTypeOK
=============================================================================
