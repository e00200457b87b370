---------------------------- MODULE HeaderProofs ----------------------------
(***************************************************************************)
(* Proofs about the header of a request, for every request that is         *)
(* readable and however it is cut into segments: its lines are read one by *)
(* one as they were sent, and its cookies too (HeadersIntact); how much is *)
(* left of its body (DrainedBeforeReply); and the variables of its URL are *)
(* read as they were sent, whatever is behind them (UrlVarsIntact).        *)
(***************************************************************************)
EXTENDS HttpRequestProofs

-----------------------------------------------------------------------------
\* Looking for a byte or for the end of a line.
LEMMA MinLeast ==
    ASSUME NEW S, S \subseteq Nat, S # {}
    PROVE  Min(S) \in S /\ \A k \in S : Min(S) <= k
  BY LeastOf DEF Min

\* A text that begins with z, and what comes behind it.
LEMMA CutAt ==
    ASSUME NEW s \in Seq(Alphabet), NEW t \in Seq(Alphabet), NEW z \in Seq(Alphabet), NEW w \in Seq(Alphabet),
           s \o t = z \o w
    PROVE  /\ \A i \in 1..Len(z) : i <= Len(s) => s[i] = z[i]
           /\ Len(z) <= Len(s) => SubSeq(s, 1, Len(z)) = z /\ From(s, Len(z) + 1) \o t = w
  <1> DEFINE m == Len(z)
             u == From(s, m + 1)
  <1>1. /\ m \in Nat /\ Len(s) \in Nat /\ Len(t) \in Nat /\ Len(w) \in Nat
        /\ Len(s) + Len(t) = m + Len(w)
        /\ \A i \in 1..(Len(s) + Len(t)) : (s \o t)[i] = IF i <= Len(s) THEN s[i] ELSE t[i - Len(s)]
        /\ \A i \in 1..(m + Len(w)) : (z \o w)[i] = IF i <= m THEN z[i] ELSE w[i - m]
    BY ConcatProperties, LenProperties
  <1> DEFINE x == s \o t
  <1>2. /\ \A i \in 1..(Len(s) + Len(t)) : x[i] = IF i <= Len(s) THEN s[i] ELSE t[i - Len(s)]
        /\ \A i \in 1..(Len(s) + Len(t)) : x[i] = IF i <= m THEN z[i] ELSE w[i - m]
    BY <1>1
  <1> HIDE DEF x
  <1>3. \A i \in 1..m : i <= Len(s) => s[i] = z[i]
    BY <1>1, <1>2
  <1>4. CASE m <= Len(s)
    <2>1. SubSeq(s, 1, m) = z
      <3>1. m \in 0..Len(s)
        BY <1>1, <1>4
      <3>2. SubSeq(s, 1, m) \in Seq(Alphabet) /\ Len(SubSeq(s, 1, m)) = m
        BY <1>1, <3>1, PieceOf
      <3>3. \A i \in 1..m : s[i] \in Alphabet
        BY <1>1, <3>1, ElementOfSeq
      <3>4. \A i \in 1..(m - 1 + 1) : SubSeq(s, 1, m)[i] = s[1 + i - 1]
        BY <1>1, <3>3, SubSeqProperties
      <3>5. \A i \in 1..m : SubSeq(s, 1, m)[i] = z[i]
        BY <1>1, <1>3, <1>4, <3>4
      <3> QED
        BY <3>2, <3>5, SeqEqual
    <2>2. u \in Seq(Alphabet) /\ Len(u) = Len(s) - m
      <3>1. m + 1 \in Nat \ {0}
        BY <1>1
      <3>2. u \in Seq(Alphabet) /\ Len(u) = IF m + 1 <= Len(s) THEN Len(s) - (m + 1) + 1 ELSE 0
        BY <3>1, RestOf
      <3> QED
        BY <1>1, <1>4, <3>2
    <2>3. \A i \in 1..(Len(s) - m) : u[i] = s[m + i]
      <3>1. m + 1 \in Int /\ Len(s) \in Int /\ \A i \in (m + 1)..Len(s) : s[i] \in Alphabet
        BY <1>1, ElementOfSeq
      <3>2. \A i \in 1..(Len(s) - (m + 1) + 1) : SubSeq(s, m + 1, Len(s))[i] = s[m + 1 + i - 1]
        BY <3>1, SubSeqProperties
      <3>3. \A i \in 1..(Len(s) - m) : i \in 1..(Len(s) - (m + 1) + 1) /\ m + 1 + i - 1 = m + i
        BY <1>1
      <3> QED
        BY <3>2, <3>3 DEF From
    <2> HIDE DEF u
    <2>4. /\ u \o t \in Seq(Alphabet) /\ Len(u \o t) = Len(u) + Len(t)
          /\ \A i \in 1..(Len(u) + Len(t)) : (u \o t)[i] = IF i <= Len(u) THEN u[i] ELSE t[i - Len(u)]
      BY <2>2, ConcatProperties
    <2>5. Len(u \o t) = Len(w)
      BY <1>1, <2>2, <2>4
    <2>6. ASSUME NEW i \in 1..Len(w) PROVE (u \o t)[i] = w[i]
      <3>1. m + i \in 1..(Len(s) + Len(t)) /\ ~(m + i <= m) /\ (m + i) - m = i /\ i \in 1..(Len(u) + Len(t))
        BY <1>1, <2>2
      <3>2. x[m + i] = w[i]
        BY <1>2, <3>1
      <3>3. CASE i <= Len(u)
        <4>1. i \in 1..(Len(s) - m) /\ m + i <= Len(s)
          BY <1>1, <2>2, <3>3
        <4>2. (u \o t)[i] = s[m + i] /\ x[m + i] = s[m + i]
          BY <1>2, <2>3, <2>4, <3>1, <3>3, <4>1
        <4> QED
          BY <3>2, <4>2
      <3>4. CASE ~(i <= Len(u))
        <4>1. ~(m + i <= Len(s)) /\ i - Len(u) = (m + i) - Len(s)
          BY <1>1, <2>2, <3>4
        <4>2. (u \o t)[i] = t[i - Len(u)]
          BY <2>4, <3>1, <3>4
        <4>3. x[m + i] = t[(m + i) - Len(s)]
          BY <1>2, <3>1, <4>1
        <4> QED
          BY <3>2, <4>1, <4>2, <4>3
      <3> QED
        BY <3>3, <3>4
    <2>7. u \o t = w
      BY <2>4, <2>5, <2>6, SeqEqual
    <2> QED
      BY <1>3, <1>4, <2>1, <2>7 DEF u
  <1> QED
    BY <1>1, <1>3, <1>4

\* strchr finds the first of a byte.
LEMMA PlaceFirst ==
    ASSUME NEW s \in Seq(Alphabet), NEW c
    PROVE  /\ Place(s, c) \in 0..Len(s)
           /\ Place(s, c) = 0 => \A k \in 1..Len(s) : s[k] # c
           /\ Place(s, c) > 0 => s[Place(s, c)] = c /\ \A k \in 1..Len(s) : k < Place(s, c) => s[k] # c
  <1> DEFINE P == {k \in 1..Len(s) : s[k] = c}
             p == Place(s, c)
  <1>1. Len(s) \in Nat /\ P \subseteq Nat
    BY LenProperties
  <1>2. p = IF P = {} THEN 0 ELSE Min(P)
    BY DEF Place
  <1>3. CASE P = {}
    BY <1>1, <1>2, <1>3
  <1>4. CASE P # {}
    <2>1. Min(P) \in P /\ \A k \in P : Min(P) <= k
      <3> HIDE DEF P
      <3> QED
        BY <1>1, <1>4, MinLeast
    <2>2. p = Min(P)
      BY <1>2, <1>4
    <2> HIDE DEF p
    <2>3. p \in 1..Len(s) /\ s[p] = c /\ \A k \in 1..Len(s) : s[k] = c => p <= k
      BY <2>1, <2>2
    <2> QED
      BY <1>1, <2>3 DEF p
  <1> QED
    BY <1>3, <1>4

\* ... as far as the string goes.
LEMMA StrChrFirst ==
    ASSUME NEW s \in Seq(Alphabet), NEW c
    PROVE  /\ StrChr(s, c) \in 0..Len(s)
           /\ StrChr(s, c) > 0 =>
                s[StrChr(s, c)] = c /\ \A k \in 1..Len(s) : k < StrChr(s, c) => s[k] # c
  <1> DEFINE x == CString(s)
             p == Place(x, c)
             n == Place(s, Nul)
  <1>1. Len(s) \in Nat /\ \A k \in 1..Len(s) : s[k] \in Alphabet
    BY LenProperties, ElementOfSeq
  <1>2. x \in Seq(Alphabet) /\ Len(x) \in 0..Len(s)
    BY CStringTyped
  <1>3. \A k \in 1..Len(x) : x[k] = s[k]
    <2>1. CASE x = s
      BY <2>1
    <2>2. CASE x = SubSeq(s, 1, n - 1) /\ n # 0
      <3>1. n - 1 \in 0..Len(s)
        BY <1>1, <2>2, PlaceIs
      <3> HIDE DEF x, n
      <3> DEFINE b == n - 1
      <3>2. b \in 0..Len(s) /\ \A k \in 1..b : s[k] \in Alphabet
        BY <1>1, <3>1
      <3> HIDE DEF b
      <3>3. Len(SubSeq(s, 1, b)) = b /\ \A k \in 1..b : SubSeq(s, 1, b)[k] = s[k]
        BY <1>1, <3>2, SubSeqProperties
      <3> QED
        BY <2>2, <3>3 DEF b
    <2>3. CASE x = SubSeq(s, 1, n - 1) /\ n = 0
      <3>1. SubSeq(s, 1, -1) = <<>>
        BY <1>1, SubSeqProperties
      <3>2. Len(x) = 0
        BY <2>3, <3>1, EmptySeq
      <3> QED
        BY <3>2
    <2> QED
      BY <2>1, <2>2, <2>3 DEF CString
  <1> HIDE DEF x, n
  <1>4. /\ p \in 0..Len(x)
        /\ p > 0 => x[p] = c /\ \A k \in 1..Len(x) : k < p => x[k] # c
    BY <1>2, PlaceFirst
  <1>5. StrChr(s, c) = p
    BY DEF StrChr, x
  <1> HIDE DEF p
  <1>6. ASSUME p > 0 PROVE s[p] = c /\ \A k \in 1..Len(s) : k < p => s[k] # c
    <2>1. p \in 1..Len(x) /\ \A k \in 1..Len(s) : k < p => k \in 1..Len(x)
      BY <1>2, <1>4, <1>6
    <2> QED
      BY <1>3, <1>4, <1>6, <2>1
  <1> QED
    BY <1>1, <1>2, <1>4, <1>5, <1>6

\* The places where a line may end.
Ends(s, a) == {p \in a..(Len(s) - 1) : s[p] = CR /\ s[p + 1] = LF}

\* No 0 byte is in front of them.
NoNul(s, a, p) == \A k \in a..p : s[k] # Nul

\* ... and CrLfAt the first end of a line.
LEMMA CrLfFirst ==
    ASSUME NEW s \in Seq(Alphabet), NEW a \in Nat \ {0}
    PROVE  /\ Ends(s, a) = {} => CrLfAt(s, a) = 0
           /\ \A p \in Ends(s, a) : NoNul(s, a, p) => CrLfAt(s, a) # 0
           /\ CrLfAt(s, a) # 0 => CrLfAt(s, a) \in Ends(s, a) /\ \A k \in Ends(s, a) : CrLfAt(s, a) <= k
           /\ Ends(s, a) \subseteq 1..(Len(s) - 1)
  <1> DEFINE P == {p \in a..(Len(s) - 1) : s[p] = CR /\ s[p + 1] = LF /\ \A k \in a..p : s[k] # Nul}
             m == Min(P)
  <1>1. Len(s) \in Nat
    BY LenProperties
  <1>2. Ends(s, a) \subseteq Nat /\ 0 \notin Ends(s, a) /\ Ends(s, a) \subseteq 1..(Len(s) - 1)
    BY <1>1 DEF Ends
  <1>3. CrLfAt(s, a) = IF P = {} THEN 0 ELSE m
    BY DEF CrLfAt
  <1>4. \A p : p \in P <=> p \in Ends(s, a) /\ NoNul(s, a, p)
    BY DEF Ends, NoNul
  <1> HIDE DEF P
  <1>5. P # {} => m \in P /\ \A k \in P : m <= k
    <2>1. P \subseteq Nat
      BY <1>2, <1>4
    <2> QED
      BY <2>1, MinLeast
  <1> HIDE DEF m
  <1>6. ASSUME P # {}, NEW k \in Ends(s, a) PROVE m <= k
    <2>1. m \in Ends(s, a) /\ NoNul(s, a, m) /\ m \in Nat /\ k \in Nat
      BY <1>2, <1>4, <1>5, <1>6
    <2>2. CASE k < m
      <3>1. \A i \in a..k : i \in a..m
        BY <2>1, <2>2
      <3>2. NoNul(s, a, k)
        BY <2>1, <3>1 DEF NoNul
      <3> QED
        BY <1>4, <1>5, <1>6, <3>2
    <2> QED
      BY <2>1, <2>2
  <1> QED
    BY <1>2, <1>3, <1>4, <1>5, <1>6

\* A text s, and t that is to come, are a line h and what is behind it.
IsLine(s, t, h, w) == s \o t = h \o (CRLF \o w)

\* The end of a line that was sent, in as much of the text as there is.
LEMMA LineEndIs ==
    ASSUME NEW s \in Seq(Alphabet), NEW t \in Seq(Alphabet), NEW h \in Seq(Alphabet), NEW w \in Seq(Alphabet),
           IsLine(s, t, h, w), Without(h, {CR})
    PROVE  \/ CrLfAt(s, 1) = 0
           \/ /\ CrLfAt(s, 1) = Len(h) + 1 /\ SubSeq(s, 1, Len(h)) = h
              /\ From(s, Len(h) + 3) \o t = w
  <1> DEFINE e == CRLF
             z == h \o e
             m == Len(h)
  <1>1. e \in Seq(Alphabet) /\ Len(e) = 2 /\ e[1] = CR /\ e[2] = LF
    BY BytesAre
  <1>2. m \in Nat /\ Len(s) \in Nat /\ DOMAIN h = 1..m
    BY LenProperties
  <1> HIDE DEF e
  <1>3. s \o t = z \o w
    BY <1>1, Assoc DEF e, IsLine
  <1>4. /\ z \in Seq(Alphabet) /\ Len(z) = m + 2
        /\ \A i \in 1..(m + 2) : z[i] = IF i <= m THEN h[i] ELSE e[i - m]
    <2>1. /\ z \in Seq(Alphabet) /\ Len(z) = m + Len(e)
          /\ \A i \in 1..(m + Len(e)) : z[i] = IF i <= m THEN h[i] ELSE e[i - m]
      BY <1>1, ConcatProperties
    <2> HIDE DEF z, m
    <2> QED
      BY <1>1, <2>1
  <1> HIDE DEF z
  <1>5. \A i \in 1..(m + 2) : i <= Len(s) => s[i] = z[i]
    BY <1>3, <1>4, CutAt
  <1>6. \A i \in 1..m : i <= Len(s) => s[i] # CR
    <2>1. \A i \in 1..m : h[i] # CR
      BY <1>2 DEF Without
    <2> QED
      BY <1>2, <1>4, <1>5, <2>1
  <1>7. SUFFICES ASSUME CrLfAt(s, 1) # 0
                 PROVE  /\ CrLfAt(s, 1) = m + 1 /\ SubSeq(s, 1, m) = h
                        /\ From(s, m + 3) \o t = w
    OBVIOUS
  <1> DEFINE p == CrLfAt(s, 1)
  <1>8. p \in Ends(s, 1) /\ \A k \in Ends(s, 1) : p <= k
    <2>1. 1 \in Nat \ {0}
      OBVIOUS
    <2> QED
      BY <1>7, <2>1, CrLfFirst
  <1> HIDE DEF p
  <1>9. p \in 1..(Len(s) - 1) /\ s[p] = CR
    BY <1>8 DEF Ends
  <1>10. p >= m + 1 /\ m + 2 <= Len(s)
    <2>1. ~(p <= m)
      <3>1. ASSUME p <= m PROVE FALSE
        <4>1. p \in 1..m /\ p <= Len(s)
          BY <1>2, <1>9, <3>1
        <4> QED
          BY <1>6, <1>9, <4>1
      <3> QED
        BY <3>1
    <2> HIDE DEF m
    <2> QED
      BY <1>2, <1>9, <2>1
  <1>11. m + 1 \in Ends(s, 1)
    <2>1. s[m + 1] = CR /\ s[(m + 1) + 1] = LF
      <3>1. m + 1 \in 1..(m + 2) /\ ~(m + 1 <= m) /\ (m + 1) - m = 1
        BY <1>2
      <3>2. m + 2 \in 1..(m + 2) /\ ~(m + 2 <= m) /\ (m + 2) - m = 2 /\ (m + 1) + 1 = m + 2 /\ m + 1 <= Len(s)
        BY <1>2, <1>10
      <3>3. s[m + 1] = e[1]
        BY <1>4, <1>5, <3>1, <3>2
      <3>4. s[m + 2] = e[2]
        BY <1>4, <1>5, <1>10, <3>2
      <3> QED
        BY <1>1, <3>2, <3>3, <3>4
    <2>2. m + 1 \in 1..(Len(s) - 1)
      BY <1>2, <1>10
    <2> QED
      BY <2>1, <2>2 DEF Ends
  <1>12. p = m + 1
    BY <1>2, <1>8, <1>9, <1>10, <1>11
  <1>13. From(s, m + 3) \o t = w
    <2>1. Len(z) <= Len(s) /\ Len(z) + 1 = m + 3
      BY <1>2, <1>4, <1>10
    <2>2. From(s, Len(z) + 1) \o t = w
      <3>1. z \in Seq(Alphabet) /\ s \o t = z \o w /\ Len(z) <= Len(s)
        BY <1>3, <1>4, <2>1
      <3> HIDE DEF m
      <3> QED
        BY <3>1, CutAt
    <2> QED
      BY <2>1, <2>2
  <1>14. SubSeq(s, 1, m) = h
    <2>1. e \o w \in Seq(Alphabet) /\ s \o t = h \o (e \o w) /\ m <= Len(s)
      BY <1>1, <1>2, <1>10, WordsJoin DEF e, IsLine
    <2> QED
      BY <2>1, CutAt
  <1> QED
    BY <1>12, <1>13, <1>14 DEF p

\* Text with no end of the line yet is a part of it, and has no 0 byte.
LEMMA LineNotEnded ==
    ASSUME NEW s \in Seq(Alphabet), NEW t \in Seq(Alphabet), NEW h \in Seq(Alphabet), NEW w \in Seq(Alphabet),
           IsLine(s, t, h, w), Without(h, {CR, Nul}), CrLfAt(s, 1) = 0
    PROVE  Without(s, {Nul})
  <1> DEFINE e == CRLF
             z == h \o e
             m == Len(h)
             n == Len(s)
  <1>1. e \in Seq(Alphabet) /\ Len(e) = 2 /\ e[1] = CR /\ e[2] = LF
    BY BytesAre
  <1>2. m \in Nat /\ n \in Nat /\ DOMAIN h = 1..m /\ DOMAIN s = 1..n
    BY LenProperties
  <1> HIDE DEF e
  <1>3. s \o t = z \o w
    BY <1>1, Assoc DEF e, IsLine
  <1>4. /\ z \in Seq(Alphabet) /\ Len(z) = m + 2
        /\ \A i \in 1..(m + 2) : z[i] = IF i <= m THEN h[i] ELSE e[i - m]
    <2>1. /\ z \in Seq(Alphabet) /\ Len(z) = m + Len(e)
          /\ \A i \in 1..(m + Len(e)) : z[i] = IF i <= m THEN h[i] ELSE e[i - m]
      BY <1>1, ConcatProperties
    <2> HIDE DEF z, m
    <2> QED
      BY <1>1, <2>1
  <1> HIDE DEF z
  <1>5. \A i \in 1..(m + 2) : i <= n => s[i] = z[i]
    BY <1>3, <1>4, CutAt
  <1>6. \A i \in 1..m : h[i] # Nul
    BY <1>2 DEF Without
  <1> HIDE DEF m, n
  <1>7. z[m + 1] = CR /\ z[m + 2] = LF
    <2>1. /\ m + 1 \in 1..(m + 2) /\ ~(m + 1 <= m) /\ (m + 1) - m = 1
          /\ m + 2 \in 1..(m + 2) /\ ~(m + 2 <= m) /\ (m + 2) - m = 2
      BY <1>2
    <2> QED
      BY <1>1, <1>4, <2>1
  <1>8. CR # Nul /\ LF # Nul
    BY DEF CR, LF, Nul
  <1>9. ASSUME NEW i \in 1..(m + 2) PROVE z[i] # Nul
    <2>1. i \in 1..m \/ i = m + 1 \/ i = m + 2
      BY <1>2
    <2>2. CASE i \in 1..m
      <3>1. i <= m
        BY <1>2, <2>2
      <3> QED
        BY <1>4, <1>6, <2>2, <3>1
    <2> QED
      BY <1>7, <1>8, <2>1, <2>2
  <1>10. ASSUME m + 2 <= n PROVE FALSE
    <2>1. m + 1 \in 1..(n - 1) /\ m + 1 \in 1..(m + 2) /\ m + 1 <= n /\ m + 2 \in 1..(m + 2) /\ (m + 1) + 1 = m + 2
      BY <1>2, <1>10
    <2>2. m + 1 \in Ends(s, 1)
      BY <1>5, <1>7, <1>10, <2>1 DEF Ends, n
    <2>3. NoNul(s, 1, m + 1)
      <3>1. \A k \in 1..(m + 1) : k \in 1..(m + 2) /\ k <= n
        BY <1>2, <1>10
      <3> QED
        BY <1>5, <1>9, <3>1 DEF NoNul
    <2>4. 1 \in Nat \ {0}
      OBVIOUS
    <2> QED
      BY <2>2, <2>3, <2>4, CrLfFirst
  <1>11. \A k \in 1..n : k \in 1..(m + 2) /\ k <= n
    BY <1>2, <1>10
  <1> QED
    BY <1>2, <1>5, <1>9, <1>11 DEF Without

\* With more text, and no line end cut in two, the first end is in the new part.
LEMMA LineEndLater ==
    ASSUME NEW s \in Seq(Alphabet), NEW t \in Seq(Alphabet), Len(s) > 0, CrLfAt(s, 1) = 0, Last(s) # CR,
           Without(s, {Nul})
    PROVE  CrLfAt(s \o t, Len(s) + 1) = CrLfAt(s \o t, 1)
  <1> DEFINE n == Len(s)
             x == s \o t
  <1>1. /\ x \in Seq(Alphabet) /\ n \in Nat /\ Len(x) \in Nat /\ Len(x) = n + Len(t) /\ Len(t) \in Nat
        /\ \A i \in 1..n : x[i] = s[i]
    BY ConcatProperties, LenProperties
  <1>1a. \A i \in 1..n : s[i] # Nul
    BY LenProperties DEF Without
  <1>2. Ends(s, 1) = {}
    <2>1. 1 \in Nat \ {0} /\ Ends(s, 1) \subseteq 1..(n - 1)
      BY CrLfFirst
    <2>2. ASSUME NEW p \in Ends(s, 1) PROVE FALSE
      <3>1. \A k \in 1..p : k \in 1..n
        BY <1>1, <2>1
      <3>2. NoNul(s, 1, p)
        BY <1>1a, <3>1 DEF NoNul
      <3> QED
        BY <2>1, <3>2, CrLfFirst
    <2> QED
      BY <2>2
  <1>3. s[n] # CR
    BY DEF Last
  <1> HIDE DEF x, n
  <1>4. ASSUME NEW p \in 1..n, p <= Len(x) - 1, x[p] = CR, x[p + 1] = LF PROVE FALSE
    <2>1. p # n
      BY <1>1, <1>3, <1>4
    <2>2. p \in 1..(n - 1) /\ p + 1 \in 1..n
      BY <1>1, <2>1
    <2>3. s[p] = CR /\ s[p + 1] = LF
      BY <1>1, <1>4, <2>2
    <2>4. p \in Ends(s, 1)
      BY <2>2, <2>3 DEF Ends, n
    <2> QED
      BY <1>2, <2>4
  <1> DEFINE Found1(a, p) == x[p] = CR /\ x[p + 1] = LF /\ \A k \in a..p : x[k] # Nul
  <1>5. {p \in (n + 1)..(Len(x) - 1) : Found1(n + 1, p)} = {p \in 1..(Len(x) - 1) : Found1(1, p)}
    <2>1. ASSUME NEW p \in 1..(Len(x) - 1), Found1(1, p)
          PROVE  p \in (n + 1)..(Len(x) - 1) /\ Found1(n + 1, p)
      <3>1. ~(p <= n)
        BY <1>1, <1>4, <2>1
      <3>2. \A k \in (n + 1)..p : k \in 1..p
        BY <1>1
      <3> QED
        BY <1>1, <2>1, <3>1, <3>2
    <2>2. ASSUME NEW p \in (n + 1)..(Len(x) - 1), Found1(n + 1, p)
          PROVE  p \in 1..(Len(x) - 1) /\ Found1(1, p)
      <3>1. \A k \in 1..p : k \in 1..n \/ k \in (n + 1)..p
        BY <1>1
      <3>2. \A k \in 1..p : x[k] # Nul
        BY <1>1, <1>1a, <2>2, <3>1
      <3> QED
        BY <1>1, <2>2, <3>2
    <2> HIDE DEF Found1
    <2> QED
      BY <2>1, <2>2
  <1>6. CrLfAt(x, n + 1) = CrLfAt(x, 1)
    BY <1>5 DEF CrLfAt
  <1> QED
    BY <1>6 DEF x, n

-----------------------------------------------------------------------------
(***************************************************************************)
(* The request line: its version begins where the URL ends.                *)
(***************************************************************************)
\* All that is in front of the version.
Start(r) == r.method \o <<SP>> \o Target(r) \o <<SP>>

\* Its only two spaces are in front of the URL and at its end, and no byte is
\* a CR; what a readable request is sent as begins with it.
LEMMA StartIs ==
    ASSUME NEW r \in Requests, Readable(r)
    PROVE  /\ \E a, u \in Nat :
                /\ Start(r) \in Seq(Alphabet) /\ Len(Start(r)) = a + u + 2
                /\ a > 2 /\ u = Len(Target(r))
                /\ \A i \in 1..(a + u + 2) :
                     Start(r)[i] # CR /\ (Start(r)[i] = SP <=> i \in {a + 1, a + u + 2})
                /\ \A i \in 1..a : Start(r)[i] \notin {SP, CR, LF}
                /\ \A i \in 1..u : Start(r)[a + 1 + i] = Target(r)[i]
           /\ Encoded(r) = Start(r) \o (r.version \o (CRLF \o After(r, 0)))
           /\ r.version \in Seq(Alphabet) /\ Without(r.version, {CR, LF}) /\ After(r, 0) \in Seq(Alphabet)
  <1> DEFINE m == r.method
             t == Target(r)
             v == r.version
             b == <<SP>>
             e == CRLF \o After(r, 0)
             x == m \o b
             y == x \o t
             z == y \o b
             a == Len(m)
             u == Len(t)
  <1>1. /\ m \in Seq(Alphabet) /\ t \in Seq(Alphabet) /\ v \in Seq(Alphabet) /\ b \in Seq(Alphabet)
        /\ Len(b) = 1 /\ b[1] = SP
    BY PartsAre, TargetTyped, BytesAre
  <1>2. After(r, 0) \in Seq(Alphabet) /\ e \in Seq(Alphabet)
    <2>1. 0 \in 0..Len(HeaderLines(r))
      BY HeaderLinesAre
    <2>2. After(r, 0) \in Seq(Alphabet)
      BY <2>1, AfterTyped
    <2> QED
      BY <2>2, BytesAre, WordsJoin
  <1>3. a > 2 /\ Without(m, {SP, CR, LF}) /\ Without(t, {SP, CR, LF}) /\ Without(v, {CR, LF})
    <2>1. a > 2 /\ Without(m, {SP, CR, LF, Nul}) /\ Without(t, {SP, CR, LF, Nul}) /\ Without(v, {CR, LF, Nul})
      BY DEF Readable
    <2> QED
      BY <2>1 DEF Without
  <1>4. a \in Nat /\ u \in Nat
    BY <1>1, LenProperties
  <1>4a. DOMAIN m = 1..a /\ DOMAIN t = 1..u
    BY <1>1, LenProperties
  <1>5. Start(r) = z
    BY DEF Start
  <1>6. Encoded(r) = (y \o (b \o v)) \o e
    <2>1. Encoded(r) = FirstLine(r) \o e
      BY EncodedIs
    <2>2. FirstLine(r) = y \o (b \o v)
      <3>1. v # <<>>
        BY DEF Readable
      <3> QED
        BY <3>1 DEF FirstLine
    <2> QED
      BY <2>1, <2>2
  <1> HIDE DEF m, t, v, b, e
  <1>7. /\ x \in Seq(Alphabet) /\ Len(x) = a + 1
        /\ \A i \in 1..(a + 1) : x[i] = IF i <= a THEN m[i] ELSE b[i - a]
    <2>1. /\ x \in Seq(Alphabet) /\ Len(x) = a + Len(b)
          /\ \A i \in 1..(a + Len(b)) : x[i] = IF i <= a THEN m[i] ELSE b[i - a]
      BY <1>1, ConcatProperties
    <2> HIDE DEF x, a
    <2> QED
      BY <1>1, <2>1
  <1> HIDE DEF x
  <1>8. /\ y \in Seq(Alphabet) /\ Len(y) = a + 1 + u
        /\ \A i \in 1..(a + 1 + u) : y[i] = IF i <= a + 1 THEN x[i] ELSE t[i - (a + 1)]
    <2>1. /\ y \in Seq(Alphabet) /\ Len(y) = Len(x) + u
          /\ \A i \in 1..(Len(x) + u) : y[i] = IF i <= Len(x) THEN x[i] ELSE t[i - Len(x)]
      <3>1. x \in Seq(Alphabet) /\ t \in Seq(Alphabet)
        BY <1>1, <1>7
      <3> HIDE DEF a
      <3> QED
        BY <3>1, ConcatProperties
    <2> HIDE DEF y, a, u
    <2> QED
      BY <1>7, <2>1
  <1> HIDE DEF y
  <1>9. /\ z \in Seq(Alphabet) /\ Len(z) = a + u + 2
        /\ \A i \in 1..(a + u + 2) : z[i] = IF i <= a + 1 + u THEN y[i] ELSE b[i - (a + 1 + u)]
    <2>1. /\ z \in Seq(Alphabet) /\ Len(z) = Len(y) + Len(b)
          /\ \A i \in 1..(Len(y) + Len(b)) : z[i] = IF i <= Len(y) THEN y[i] ELSE b[i - Len(y)]
      BY <1>1, <1>8, ConcatProperties
    <2> HIDE DEF z, a, u
    <2>2. Len(y) = a + 1 + u /\ Len(y) + Len(b) = a + u + 2
      BY <1>1, <1>4, <1>8
    <2> QED
      BY <2>1, <2>2
  <1> HIDE DEF a, u
  <1>9a. b[1] = SP
    BY <1>1
  <1>10. Encoded(r) = z \o (v \o e)
    <2>1. y \o (b \o v) = z \o v
      <3>1. y \in Seq(Alphabet) /\ b \in Seq(Alphabet) /\ v \in Seq(Alphabet)
        BY <1>1, <1>8
      <3> QED
        BY ONLY <3>1, Assoc
    <2>2. z \in Seq(Alphabet) /\ v \in Seq(Alphabet) /\ e \in Seq(Alphabet)
      BY <1>1, <1>2, <1>9
    <2>3. (z \o v) \o e = z \o (v \o e)
      <3> HIDE DEF z
      <3> QED
        BY ONLY <2>2, Assoc
    <2> QED
      BY <1>6, <2>1, <2>3
  <1> HIDE DEF z
  <1>11. ASSUME NEW i \in 1..a PROVE z[i] \notin {SP, CR, LF}
    <2>1. i \in 1..(a + u + 2) /\ i <= a + 1 + u /\ i \in 1..(a + 1 + u) /\ i <= a + 1 /\ i \in 1..(a + 1) /\ i <= a
      BY <1>4
    <2>2. z[i] = m[i]
      BY <1>7, <1>8, <1>9, <2>1
    <2> QED
      BY <1>3, <1>4a, <2>2 DEF Without
  <1>12. ASSUME NEW i \in 1..u PROVE z[a + 1 + i] = t[i] /\ t[i] \notin {SP, CR, LF}
    <2>1. /\ a + 1 + i \in 1..(a + u + 2) /\ a + 1 + i <= a + 1 + u /\ a + 1 + i \in 1..(a + 1 + u)
          /\ ~(a + 1 + i <= a + 1) /\ (a + 1 + i) - (a + 1) = i
      BY <1>4
    <2>2. z[a + 1 + i] = t[i]
      BY <1>8, <1>9, <2>1
    <2> QED
      BY <1>3, <1>4a, <2>2 DEF Without
  <1>13. z[a + 1] = SP
    <2>1. /\ a + 1 \in 1..(a + u + 2) /\ a + 1 <= a + 1 + u /\ a + 1 \in 1..(a + 1 + u)
          /\ a + 1 <= a + 1 /\ a + 1 \in 1..(a + 1) /\ ~(a + 1 <= a) /\ (a + 1) - a = 1
      BY <1>4
    <2> QED
      BY <1>7, <1>8, <1>9, <1>9a, <2>1
  <1>14. z[a + u + 2] = SP
    <2>1. /\ a + u + 2 \in 1..(a + u + 2) /\ ~(a + u + 2 <= a + 1 + u) /\ (a + u + 2) - (a + 1 + u) = 1
      BY <1>4
    <2> QED
      BY <1>9, <1>9a, <2>1
  <1>15. SP # CR
    BY DEF SP, CR
  <1>16. ASSUME NEW i \in 1..(a + u + 2)
         PROVE  z[i] # CR /\ (z[i] = SP <=> i \in {a + 1, a + u + 2})
    <2>1. \/ i \in 1..a /\ i # a + 1 /\ i # a + u + 2
          \/ i = a + 1
          \/ i - (a + 1) \in 1..u /\ i # a + 1 /\ i # a + u + 2 /\ a + 1 + (i - (a + 1)) = i
          \/ i = a + u + 2
      BY <1>4
    <2>2. CASE i \in 1..a /\ i # a + 1 /\ i # a + u + 2
      BY <1>11, <2>2
    <2>3. CASE i \in {a + 1, a + u + 2}
      BY <1>13, <1>14, <1>15, <2>3
    <2>4. CASE i - (a + 1) \in 1..u /\ i # a + 1 /\ i # a + u + 2 /\ a + 1 + (i - (a + 1)) = i
      BY <1>12, <2>4
    <2> QED
      BY <2>1, <2>2, <2>3, <2>4
  <1>17. a > 2 /\ a \in Nat /\ u \in Nat /\ u = Len(Target(r))
    BY <1>3, <1>4 DEF a, m, u, t
  <1>18. /\ Start(r) = z /\ z \in Seq(Alphabet) /\ Len(z) = a + u + 2
         /\ \A i \in 1..u : z[a + 1 + i] = Target(r)[i]
    BY <1>5, <1>9, <1>12 DEF t
  <1>19. \E p, q \in Nat :
                /\ Start(r) \in Seq(Alphabet) /\ Len(Start(r)) = p + q + 2
                /\ p > 2 /\ q = Len(Target(r))
                /\ \A i \in 1..(p + q + 2) :
                     Start(r)[i] # CR /\ (Start(r)[i] = SP <=> i \in {p + 1, p + q + 2})
                /\ \A i \in 1..p : Start(r)[i] \notin {SP, CR, LF}
                /\ \A i \in 1..q : Start(r)[p + 1 + i] = Target(r)[i]
    <2>1. /\ Start(r) \in Seq(Alphabet) /\ Len(Start(r)) = a + u + 2
          /\ \A i \in 1..u : Start(r)[a + 1 + i] = Target(r)[i]
      BY <1>18
    <2>2. /\ \A i \in 1..(a + u + 2) :
               Start(r)[i] # CR /\ (Start(r)[i] = SP <=> i \in {a + 1, a + u + 2})
          /\ \A i \in 1..a : Start(r)[i] \notin {SP, CR, LF}
      <3>1. Start(r) = z
        BY <1>18
      <3> QED
        BY <1>11, <1>16, <3>1
    <2> QED
      BY <1>17, <2>1, <2>2, Zenon
  <1>20. Encoded(r) = Start(r) \o (r.version \o (CRLF \o After(r, 0)))
    BY <1>5, <1>10 DEF v, e
  <1> QED
    BY <1>1, <1>2, <1>3, <1>19, <1>20 DEF v

\* The URL ends where its space is, if the text reaches so far.
LEMMA UrlEndIs ==
    ASSUME rest \in Seq(Alphabet), NEW a \in Nat, NEW u \in Nat, NEW z,
           \A i \in 1..(a + u + 2) : i <= Len(rest) => rest[i] = z[i],
           \A i \in 1..(a + u + 2) : z[i] # CR /\ (z[i] = SP <=> i \in {a + 1, a + u + 2}),
           NEW off \in {a + 1, a + 2}, off <= a + u + 1,
           NEW i \in UrlEnds(off)
    PROVE  off + i = a + u + 1 /\ a + u + 2 <= Len(rest)
  <1> DEFINE e == a + u + 1 - off
  <1>1. Len(rest) \in Nat /\ DOMAIN rest = 1..Len(rest) /\ e \in Nat /\ off \in Nat
    BY LenProperties
  <1> DEFINE n == Len(rest)
             y == a + u + 2
  <1>0. n \in Nat /\ off \in Nat /\ e \in Nat /\ y \in Nat /\ off + e + 1 = y /\ y \in 1..y
    BY <1>1
  <1>2. i \in Nat /\ UrlStops(off, i) /\ \A j \in 0..(i - 1) : ~UrlStops(off, j)
    BY <1>1 DEF UrlEnds
  <1>3. ASSUME a + u + 2 <= Len(rest) PROVE UrlStops(off, e)
    <2>0. a + u + 2 \in 1..(a + u + 2) /\ off + e + 1 = a + u + 2
      BY <1>0
    <2>1. a + u + 2 \in DOMAIN rest
      <3>1. y <= n
        BY <1>3
      <3>2. y \in 1..n
        <4> HIDE DEF y, n
        <4> QED
          BY <1>0, <3>1
      <3> QED
        BY <1>1, <3>2
    <2>2. rest[a + u + 2] = z[a + u + 2] /\ z[a + u + 2] = SP
      BY <1>3, <2>0
    <2> QED
      BY <2>0, <2>1, <2>2 DEF UrlStops, At
  <1>4. CASE i > e
    <2>1. ~(a + u + 2 <= Len(rest))
      BY <1>1, <1>2, <1>3, <1>4
    <2>2. ~At(rest, off + i + 1, SP)
      <3>1. off + i + 1 > a + u + 2
        BY <1>1, <1>2, <1>4
      <3>2. off + i + 1 \notin 1..Len(rest)
        BY <1>1, <1>2, <2>1, <3>1
      <3> QED
        BY <1>1, <3>2 DEF At
    <2>3. ASSUME At(rest, i + 1, CR) PROVE FALSE
      <3>1. i + 1 \in 1..(a + u + 2) /\ i + 1 <= Len(rest) /\ rest[i + 1] = CR
        BY <1>1, <1>2, <2>1, <2>3 DEF At
      <3> QED
        BY <3>1
    <2> QED
      BY <1>2, <2>2, <2>3 DEF UrlStops
  <1>5. CASE i <= e
    <2>1. ASSUME At(rest, i + 1, CR) PROVE FALSE
      <3>1. i + 1 \in 1..(a + u + 2) /\ i + 1 <= Len(rest) /\ rest[i + 1] = CR
        BY <1>1, <1>2, <1>5, <2>1 DEF At
      <3> QED
        BY <3>1
    <2>2. At(rest, off + i + 1, SP)
      BY <1>2, <2>1 DEF UrlStops
    <2>3. /\ off + i + 1 \in 1..(a + u + 2) /\ off + i + 1 <= Len(rest) /\ rest[off + i + 1] = SP
          /\ off + i + 1 > a + 1
      BY <1>1, <1>2, <1>5, <2>2 DEF At
    <2>4. off + i + 1 = a + u + 2
      BY <1>1, <2>3
    <2> QED
      BY <1>1, <1>2, <2>3, <2>4
  <1> QED
    BY <1>1, <1>2, <1>4, <1>5

\* The URL is i bytes long from off + 1 on, and the version, which has the
\* bytes in front of a CR, is behind its space.
UrlTaken(off, i) ==
    \E a, u \in Nat :
        /\ a > 2 /\ u = Len(Target(sent)) /\ a + u + 2 <= Len(rest)
        /\ \A j \in 1..u : rest[a + 1 + j] = Target(sent)[j]
        /\ off = IF At(rest, a + 2, SLASH) THEN a + 2 ELSE a + 1
        /\ i \in Nat /\ off + i = a + u + 1
        /\ SubSeq(From(rest, a + u + 3), 1, Len(sent.version)) = sent.version
        /\ Len(sent.version) + 1 \in Ends(From(rest, a + u + 3), 1)

\* A request line that is read as it was sent has its URL read from where it
\* is, and leaves what was sent behind it.
LEMMA RequestLineIs ==
    ASSUME rest \in Seq(Alphabet), input \in Seq(Alphabet), sent \in Requests, Readable(sent),
           rest \o input = Encoded(sent), RequestLine
    PROVE  \/ rpc' = "read_end"
           \/ /\ rpc' = "header" /\ rest' \o input' = After(sent, 0)
              /\ \E off, i : /\ UrlTaken(off, i)
                             /\ get_vars' \in {Iterated(p) : p \in {Pieces(s, AMP) : s \in QueryTexts(off, i)}}
  <1> DEFINE z == Start(sent)
             v == sent.version
             t == After(sent, 0)
             e == CRLF \o t
             w == v \o e
             sp == StrChr(rest, SP)
             Gets(off, i) == {Iterated(p) : p \in {Pieces(s, AMP) : s \in QueryTexts(off, i)}}
  <1>1. PICK a, u \in Nat :
          /\ z \in Seq(Alphabet) /\ Len(z) = a + u + 2 /\ a > 2 /\ u = Len(Target(sent))
          /\ \A i \in 1..(a + u + 2) : z[i] # CR /\ (z[i] = SP <=> i \in {a + 1, a + u + 2})
          /\ \A i \in 1..u : z[a + 1 + i] = Target(sent)[i]
    <2>1. PICK a, u \in Nat :
                /\ Start(sent) \in Seq(Alphabet) /\ Len(Start(sent)) = a + u + 2
                /\ a > 2 /\ u = Len(Target(sent))
                /\ \A i \in 1..(a + u + 2) :
                     Start(sent)[i] # CR /\ (Start(sent)[i] = SP <=> i \in {a + 1, a + u + 2})
                /\ \A i \in 1..a : Start(sent)[i] \notin {SP, CR, LF}
                /\ \A i \in 1..u : Start(sent)[a + 1 + i] = Target(sent)[i]
      <3>1. sent \in Requests /\ Readable(sent)
        OBVIOUS
      <3> QED
        BY ONLY <3>1, StartIs, ZenonT(60)
    <2>2. a \in Nat /\ u \in Nat
      OBVIOUS
    <2> QED
      BY <2>1
  <1>2. Encoded(sent) = z \o w /\ v \in Seq(Alphabet) /\ Without(v, {CR, LF}) /\ t \in Seq(Alphabet)
    BY StartIs
  <1>3. e \in Seq(Alphabet) /\ w \in Seq(Alphabet)
    BY <1>2, BytesAre, WordsJoin
  <1>4. Len(rest) \in Nat /\ DOMAIN rest = 1..Len(rest)
    BY LenProperties
  <1> HIDE DEF z, v, t
  <1>5. /\ \A i \in 1..(a + u + 2) : i <= Len(rest) => rest[i] = z[i]
        /\ a + u + 2 <= Len(rest) => From(rest, a + u + 3) \o input = w
    <2>1. rest \o input = z \o w
      BY <1>2
    <2>2. /\ \A i \in 1..Len(z) : i <= Len(rest) => rest[i] = z[i]
          /\ Len(z) <= Len(rest) => From(rest, Len(z) + 1) \o input = w
      <3> HIDE DEF w
      <3>1. /\ z \in Seq(Alphabet) /\ w \in Seq(Alphabet) /\ rest \in Seq(Alphabet)
            /\ input \in Seq(Alphabet) /\ rest \o input = z \o w
        BY <1>1, <1>3, <2>1
      <3> DEFINE s == rest
                 y == input
      <3>2. s \in Seq(Alphabet) /\ y \in Seq(Alphabet) /\ s \o y = z \o w
        BY <3>1
      <3> HIDE DEF s, y
      <3>3. /\ \A i \in 1..Len(z) : i <= Len(s) => s[i] = z[i]
            /\ Len(z) <= Len(s) => SubSeq(s, 1, Len(z)) = z /\ From(s, Len(z) + 1) \o y = w
        BY ONLY <3>1, <3>2, CutAt
      <3> QED
        BY ONLY <3>3 DEF s, y
    <2> HIDE DEF w
    <2>3. Len(z) + 1 = a + u + 3
      BY <1>1
    <2> QED
      BY <1>1, <2>2, <2>3
  <1>6. /\ sp \in 0..Len(rest)
        /\ sp > 0 => rest[sp] = SP /\ \A k \in 1..Len(rest) : k < sp => rest[k] # SP
    BY StrChrFirst
  <1> HIDE DEF sp
  <1>7. sp > 0 => sp = a + 1
    <2> SUFFICES ASSUME sp > 0 PROVE sp = a + 1
      OBVIOUS
    <2>1. ~(sp < a + 1)
      <3>1. ASSUME sp < a + 1 PROVE FALSE
        <4>1. sp \in 1..(a + u + 2) /\ sp <= Len(rest) /\ sp # a + 1 /\ sp # a + u + 2
          BY <1>4, <1>6, <3>1
        <4>2. rest[sp] = z[sp] /\ rest[sp] = SP
          BY <1>5, <1>6, <4>1
        <4> QED
          BY <1>1, <4>1, <4>2
      <3> QED
        BY <3>1
    <2>2. ~(a + 1 < sp)
      <3>1. ASSUME a + 1 < sp PROVE FALSE
        <4>1. a + 1 \in 1..(a + u + 2) /\ a + 1 <= Len(rest) /\ a + 1 \in 1..Len(rest)
          BY <1>4, <1>6, <3>1
        <4>2. rest[a + 1] = z[a + 1] /\ z[a + 1] = SP
          BY <1>1, <1>5, <4>1
        <4> QED
          BY <1>6, <3>1, <4>1, <4>2
      <3> QED
        BY <3>1
    <2> QED
      BY <1>4, <1>6, <2>1, <2>2
  <1>8. \/ sp = 0 /\ ReadEnd("malformed")
        \/ /\ sp > 0
           /\ \/ ReadEnd("line_exceeded")
              \/ \E i \in UrlEnds(UrlStart(sp)) :
                   /\ get_vars' \in Gets(UrlStart(sp), i)
                   /\ \/ UrlStart(sp) + i < Len(rest) /\ RequestVersion(From(rest, UrlStart(sp) + i + 2))
                      \/ UrlStart(sp) + i = Len(rest)
    BY DEF RequestLine, sp, Gets
  <1>9. UNCHANGED input
    BY DEF RequestLine, connVars
  <1> HIDE DEF Gets
  <1>10. ASSUME sp > 0, NEW i \in UrlEnds(UrlStart(sp)), get_vars' \in Gets(UrlStart(sp), i),
                \/ UrlStart(sp) + i < Len(rest) /\ RequestVersion(From(rest, UrlStart(sp) + i + 2))
                \/ UrlStart(sp) + i = Len(rest)
         PROVE  \/ rpc' = "read_end"
                \/ /\ rpc' = "header" /\ rest' \o input' = t
                   /\ \E off, j : UrlTaken(off, j) /\ get_vars' \in Gets(off, j)
    <2> DEFINE off == UrlStart(sp)
               text == From(rest, a + u + 3)
    <2>1. sp = a + 1
      BY <1>7, <1>10
    <2>2. off \in {a + 1, a + 2} /\ off <= a + u + 1
      <3>1. CASE At(rest, a + 2, SLASH)
        <4>1. off = a + 2
          <5>1. sp + 1 = a + 2
            BY <2>1
          <5> QED
            BY <3>1, <5>1 DEF UrlStart
        <4>2. a + 2 \in 1..Len(rest) /\ rest[a + 2] = SLASH
          BY <1>4, <3>1 DEF At
        <4>3. ASSUME u = 0 PROVE FALSE
          <5>1. a + 2 \in 1..(a + u + 2) /\ a + 2 <= Len(rest) /\ a + u + 2 = a + 2
            BY <1>4, <4>2, <4>3
          <5>2. rest[a + 2] = SP
            BY <1>1, <1>5, <5>1
          <5> QED
            BY <4>2, <5>2 DEF SP, SLASH
        <4> QED
          BY <4>1, <4>3
      <3>2. CASE ~At(rest, a + 2, SLASH)
        <4>1. off = a + 1
          <5>1. sp + 1 = a + 2
            BY <2>1
          <5> QED
            BY <2>1, <3>2, <5>1 DEF UrlStart
        <4> QED
          BY <4>1
      <3> QED
        BY <3>1, <3>2
    <2>2a. off = IF At(rest, a + 2, SLASH) THEN a + 2 ELSE a + 1
      <3>1. sp + 1 = a + 2
        BY <2>1
      <3> QED
        BY <2>1, <3>1 DEF UrlStart
    <2>3. i \in UrlEnds(off)
      BY <1>10
    <2> HIDE DEF off
    <2>4. off + i = a + u + 1 /\ a + u + 2 <= Len(rest)
      <3>1. /\ \A k \in 1..(a + u + 2) : k <= Len(rest) => rest[k] = z[k]
            /\ \A k \in 1..(a + u + 2) : z[k] # CR /\ (z[k] = SP <=> k \in {a + 1, a + u + 2})
        BY <1>1, <1>5
      <3> QED
        BY <2>2, <2>3, <3>1, UrlEndIs
    <2>5. RequestVersion(text)
      <3>1. off + i # Len(rest) /\ (off + i) + 2 = a + u + 3
        BY <1>4, <2>4
      <3> QED
        BY <1>10, <3>1 DEF off
    <2>6. text \in Seq(Alphabet) /\ text \o input = v \o e
      <3>1. a + u + 3 \in Nat \ {0}
        OBVIOUS
      <3> QED
        BY <1>5, <2>4, <3>1, RestOf
    <2> HIDE DEF text
    <2>7. ~At(text, 1, LF)
      <3>1. \A i_1 \in 1..Len(v) : i_1 <= Len(text) => text[i_1] = v[i_1]
        <4> HIDE DEF e
        <4> QED
          BY <1>2, <1>3, <2>6, CutAt
      <3>2. Len(v) \in Nat \ {0} /\ DOMAIN v = 1..Len(v) /\ DOMAIN text = 1..Len(text) /\ Len(text) \in Nat
        <4>1. v # <<>>
          BY DEF v, Readable
        <4> QED
          BY <1>2, <2>6, <4>1, EmptySeq, LenProperties
      <3>3. v[1] # LF
        <4>1. \A k \in DOMAIN v : v[k] # LF
          BY <1>2 DEF Without
        <4>2. 1 \in DOMAIN v
          BY <3>2
        <4> QED
          BY <4>1, <4>2
      <3>4. ASSUME At(text, 1, LF) PROVE FALSE
        <4>1. 1 \in 1..Len(v) /\ 1 <= Len(text) /\ text[1] = LF
          BY <3>2, <3>4 DEF At
        <4> QED
          BY <3>1, <3>3, <4>1
      <3> QED
        BY <3>4
    <2>8. \/ CrLfAt(text, 1) = 0
          \/ /\ CrLfAt(text, 1) = Len(v) + 1 /\ From(text, Len(v) + 3) \o input = t
             /\ SubSeq(text, 1, Len(v)) = v
      <3>1. Without(v, {CR})
        BY <1>2 DEF Without
      <3>2. v \in Seq(Alphabet) /\ t \in Seq(Alphabet)
        BY <1>2
      <3>3. text \in Seq(Alphabet) /\ IsLine(text, input, v, t)
        BY <2>6 DEF IsLine
      <3>4. \/ CrLfAt(text, 1) = 0
            \/ /\ CrLfAt(text, 1) = Len(v) + 1 /\ SubSeq(text, 1, Len(v)) = v
               /\ From(text, Len(v) + 3) \o input = t
        <4> HIDE DEF e, w
        <4> QED
          BY <3>1, <3>2, <3>3, LineEndIs
      <3> QED
        BY <3>4
    <2>9. \/ ReadEnd("malformed")
          \/ CrLfAt(text, 1) > 0 /\ rpc' = "header" /\ rest' = From(text, CrLfAt(text, 1) + 2)
      BY <2>5, <2>7 DEF RequestVersion, Headed, Goes
    <2>10. CASE ReadEnd("malformed")
      BY <2>10 DEF ReadEnd
    <2>11. CASE CrLfAt(text, 1) > 0 /\ rpc' = "header" /\ rest' = From(text, CrLfAt(text, 1) + 2)
      <3>1. /\ CrLfAt(text, 1) = Len(v) + 1 /\ From(text, Len(v) + 3) \o input = t
            /\ SubSeq(text, 1, Len(v)) = v
        BY <2>8, <2>11
      <3>2. CrLfAt(text, 1) + 2 = Len(v) + 3
        BY <1>2, <3>1, LenProperties
      <3>3. rest' \o input' = t
        BY <1>9, <2>11, <3>1, <3>2
      <3>4. Len(v) + 1 \in Ends(text, 1)
        <4>1. CrLfAt(text, 1) # 0 => CrLfAt(text, 1) \in Ends(text, 1)
          BY <2>6, CrLfFirst
        <4>2. CrLfAt(text, 1) # 0
          BY <2>11
        <4> QED
          BY <3>1, <4>1, <4>2
      <3>5. \A j \in 1..u : rest[a + 1 + j] = Target(sent)[j]
        <4>1. ASSUME NEW j \in 1..u PROVE a + 1 + j \in 1..(a + u + 2) /\ a + 1 + j <= Len(rest)
          BY <1>4, <2>4
        <4> QED
          BY <1>1, <1>5, <4>1
      <3>6. i \in Nat
        BY <1>4, <2>2, <2>3 DEF UrlEnds
      <3>7. UrlTaken(off, i)
        BY <1>1, <2>2a, <2>4, <3>1, <3>4, <3>5, <3>6 DEF UrlTaken, text, v
      <3>8. get_vars' \in Gets(off, i)
        BY <1>10 DEF off
      <3> QED
        BY <2>11, <3>3, <3>7, <3>8
    <2> QED
      BY <2>9, <2>10, <2>11
  <1> QED
    BY <1>8, <1>10 DEF ReadEnd, t, Gets

\* With a readable request the first line is a request line, or the reading ends.
LEMMA RequestLineWhole ==
    ASSUME rest \in Seq(Alphabet), input \in Seq(Alphabet), sent \in Requests, Readable(sent),
           rest \o input = Encoded(sent), RequestLine
    PROVE  rpc' = "read_end" \/ (rpc' = "header" /\ rest' \o input' = After(sent, 0))
  BY RequestLineIs

\* A failure that counts as bytes leaves no more than the end of a line.
LEMMA RequestLineGarbled ==
    ASSUME rest \in Seq(Alphabet), NEW m \in Nat, Len(rest) <= m + 3,
           \A i \in 1..Len(rest) : rest[i] # CR /\ (i <= m => rest[i] # SP),
           RequestLine
    PROVE  rpc' = "read_end" \/ (rpc' = "header" /\ rest' = <<>>)
  <1> DEFINE sp == StrChr(rest, SP)
             off == UrlStart(sp)
  <1>1. Len(rest) \in Nat /\ DOMAIN rest = 1..Len(rest)
    BY LenProperties
  <1>2. sp \in 0..Len(rest) /\ (sp > 0 => rest[sp] = SP)
    BY StrChrFirst
  <1>3. \/ sp = 0 /\ ReadEnd("malformed")
        \/ /\ sp > 0
           /\ \/ ReadEnd("line_exceeded")
              \/ \E i \in UrlEnds(off) :
                   \/ off + i < Len(rest) /\ RequestVersion(From(rest, off + i + 2))
                   \/ off + i = Len(rest)
    BY DEF RequestLine
  <1> HIDE DEF sp
  <1>4. ASSUME sp > 0, NEW i \in UrlEnds(off),
               \/ off + i < Len(rest) /\ RequestVersion(From(rest, off + i + 2))
               \/ off + i = Len(rest)
        PROVE  rpc' = "read_end" \/ (rpc' = "header" /\ rest' = <<>>)
    <2>1. sp > m /\ sp \in Nat
      BY <1>1, <1>2, <1>4
    <2>2. off \in Nat /\ off >= sp
      BY <2>1 DEF UrlStart
    <2> HIDE DEF off
    <2>3. i \in Nat /\ UrlStops(off, i)
      BY <1>1, <2>2 DEF UrlEnds
    <2>4. off + i + 1 \in 1..Len(rest)
      <3>1. ~At(rest, i + 1, CR)
        BY <1>1 DEF At
      <3> QED
        BY <1>1, <2>3, <3>1 DEF UrlStops, At
    <2> DEFINE p == off + i + 2
               text == From(rest, p)
    <2>5. RequestVersion(text)
      <3>1. off + i # Len(rest)
        <4>1. off + i + 1 <= Len(rest)
          BY <1>1, <2>4
        <4>2. off + i \in Nat
          BY <2>2, <2>3
        <4> QED
          BY <1>1, <4>1, <4>2
      <3> QED
        BY <1>4, <3>1
    <2>6. p \in Nat /\ p > m + 2 /\ p <= Len(rest) + 1
      BY <1>1, <2>1, <2>2, <2>3, <2>4
    <2> HIDE DEF p
    <2>7. text \in Seq(Alphabet) /\ Len(text) \in 0..1
      <3>1. p \in Nat \ {0}
        BY <1>1, <2>6
      <3>2. text \in Seq(Alphabet) /\ Len(text) = IF p <= Len(rest) THEN Len(rest) - p + 1 ELSE 0
        BY <3>1, RestOf
      <3> HIDE DEF text
      <3> QED
        BY <1>1, <2>6, <3>2
    <2> HIDE DEF text
    <2>8. CrLfAt(text, 1) = 0
      <3>1. Ends(text, 1) = {}
        BY <2>7 DEF Ends
      <3>2. 1 \in Nat \ {0}
        OBVIOUS
      <3> QED
        BY <2>7, <3>1, <3>2, CrLfFirst
    <2>9. \/ At(text, 1, LF) /\ rpc' = "header" /\ rest' = Tail(text)
          \/ ReadEnd("malformed")
      BY <2>5, <2>8 DEF RequestVersion, Headed, Goes
    <2>10. CASE At(text, 1, LF) /\ rpc' = "header" /\ rest' = Tail(text)
      <3>1. text # <<>> /\ Len(text) = 1
        BY <2>7, <2>10, LenProperties DEF At
      <3>2. Tail(text) \in Seq(Alphabet) /\ Len(Tail(text)) = 0
        BY <2>7, <3>1, HeadTailProperties
      <3>3. Tail(text) = <<>>
        BY <3>2, EmptySeq
      <3> QED
        BY <2>10, <3>3
    <2> QED
      BY <2>9, <2>10 DEF ReadEnd
  <1> QED
    BY <1>3, <1>4 DEF ReadEnd

-----------------------------------------------------------------------------
(***************************************************************************)
(* Header lines.                                                           *)
(***************************************************************************)
LEMMA WithoutJoin ==
    ASSUME NEW s \in Seq(Alphabet), NEW t \in Seq(Alphabet), NEW C, Without(s, C), Without(t, C)
    PROVE  Without(s \o t, C)
  <1> DEFINE x == s \o t
  <1>1. /\ x \in Seq(Alphabet) /\ Len(x) = Len(s) + Len(t) /\ Len(s) \in Nat /\ Len(t) \in Nat
        /\ \A i \in 1..(Len(s) + Len(t)) : x[i] = IF i <= Len(s) THEN s[i] ELSE t[i - Len(s)]
    BY ConcatProperties, LenProperties
  <1>2. DOMAIN s = 1..Len(s) /\ DOMAIN t = 1..Len(t)
    BY LenProperties
  <1> HIDE DEF x
  <1>3. DOMAIN x = 1..(Len(s) + Len(t))
    BY <1>1, LenProperties
  <1>4. ASSUME NEW k \in DOMAIN x PROVE x[k] \notin C
    <2>1. CASE k <= Len(s)
      <3>1. k \in DOMAIN s /\ x[k] = s[k]
        BY <1>1, <1>2, <1>3, <2>1
      <3> QED
        BY <3>1 DEF Without
    <2>2. CASE ~(k <= Len(s))
      <3>1. k - Len(s) \in DOMAIN t /\ x[k] = t[k - Len(s)]
        BY <1>1, <1>2, <1>3, <2>2
      <3> QED
        BY <3>1 DEF Without
    <2> QED
      BY <2>1, <2>2
  <1>5. Without(x, C)
    BY <1>4 DEF Without
  <1> QED
    BY <1>5 DEF x

\* The empty text has no byte, and a text without some bytes is without fewer.
LEMMA WithoutEmpty == \A C : Without(<<>>, C)
  BY EmptySeq DEF Without

LEMMA WithoutSmaller ==
    ASSUME NEW s, NEW C, NEW D, Without(s, C), D \subseteq C
    PROVE  Without(s, D)
  BY DEF Without

\* A string with no 0 byte is read to its end.
LEMMA CStringWhole ==
    ASSUME NEW s \in Seq(Alphabet), Without(s, {Nul})
    PROVE  CString(s) = s
  <1>1. Nul \notin Range(s)
    BY DEF Range, Without
  <1> QED
    BY <1>1 DEF CString

\* What no piece has the whole has not.
LEMMA FlattenWithout ==
    ASSUME NEW q \in Seq(Seq(Alphabet)), NEW C, \A i \in 1..Len(q) : Without(q[i], C)
    PROVE  Without(FlattenSeq(q), C)
  <1> DEFINE n == Len(q)
  <1>1. n \in Nat /\ \A i \in 1..n : q[i] \in Seq(Alphabet)
    BY LenProperties, ElementOfSeq
  <1>2. PICK f \in [0..n -> Seq(Alphabet)] :
           /\ f[0] = <<>>
           /\ \A i \in 1..n : f[i] = f[i - 1] \o q[i]
           /\ FlattenSeq(q) = f[n]
    BY FlattenIs
  <1>3. \A i \in 1..n : Without(q[i], C)
    OBVIOUS
  <1> HIDE DEF n
  <1> DEFINE Bad == {i \in 0..n : ~Without(f[i], C)}
  <1>4. ASSUME Bad # {} PROVE FALSE
    <2>1. PICK m \in Bad : \A k \in Bad : m <= k
      <3>1. Bad \subseteq Nat
        OBVIOUS
      <3> HIDE DEF Bad
      <3> QED
        BY <1>4, <3>1, LeastOf
    <2>2. m \in 0..n /\ ~Without(f[m], C)
      BY <2>1
    <2>3. m # 0
      BY <1>2, <2>2, WithoutEmpty
    <2>4. m \in 1..n /\ m - 1 \in 0..n /\ m - 1 \notin Bad
      <3> HIDE DEF Bad
      <3> QED
        BY <1>1, <2>1, <2>2, <2>3
    <2>5. Without(f[m - 1], C) /\ Without(q[m], C) /\ f[m - 1] \in Seq(Alphabet) /\ q[m] \in Seq(Alphabet)
      BY <1>1, <1>3, <2>4
    <2>6. f[m] = f[m - 1] \o q[m]
      BY <1>2, <2>4
    <2> QED
      BY <2>2, <2>5, <2>6, WithoutJoin
  <1>5. n \in 0..n
    BY <1>1
  <1>6. Without(f[n], C)
    BY <1>4, <1>5
  <1> QED
    BY <1>2, <1>6

\* Bytes that are in no part of a pair, and in no separator, are in no list of pairs.
LEMMA PairTextWithout ==
    ASSUME NEW p \in Pair, NEW C, EQUAL \notin C, Without(p.key, C), Without(p.value, C)
    PROVE  Without(PairText(p), C)
  <1> DEFINE e == <<EQUAL>>
             v == IF p.value = NoValue THEN <<>> ELSE e \o p.value
  <1>1. p.key \in Seq(Alphabet) /\ p.value \in Seq(Alphabet)
    BY DEF Pair
  <1>2. e \in Seq(Alphabet) /\ Without(e, C)
    <2>1. e \in Seq(Alphabet)
      BY BytesAre
    <2>2. DOMAIN e = {1} /\ e[1] = EQUAL
      OBVIOUS
    <2> QED
      BY <2>1, <2>2 DEF Without
  <1> HIDE DEF e
  <1>3. v \in Seq(Alphabet) /\ Without(v, C)
    <2>1. CASE p.value = NoValue
      BY <2>1, BytesAre, WithoutEmpty
    <2>2. CASE p.value # NoValue
      BY <1>1, <1>2, <2>2, WordsJoin, WithoutJoin
    <2> QED
      BY <2>1, <2>2
  <1>4. PairText(p) = p.key \o v
    BY DEF PairText, e
  <1> HIDE DEF v
  <1>5. Without(p.key \o v, C)
    BY <1>1, <1>3, WithoutJoin
  <1> QED
    BY <1>4, <1>5

\* Joined pairs have none of the bytes that neither a pair nor the separator has.
LEMMA JoinedWithout ==
    ASSUME NEW pairs \in Seq(Pair), NEW sep \in Seq(Alphabet), NEW C, EQUAL \notin C, Without(sep, C),
           \A i \in 1..Len(pairs) : Without(pairs[i].key, C) /\ Without(pairs[i].value, C)
    PROVE  Without(Joined(pairs, sep), C)
  <1> DEFINE q == [k \in DOMAIN pairs |-> PairPiece(pairs, sep, k)]
  <1>1. /\ q \in Seq(Seq(Alphabet)) /\ Len(q) = Len(pairs)
        /\ \A k \in 1..Len(pairs) : q[k] = PairPiece(pairs, sep, k)
    BY PairPieces
  <1>2. Joined(pairs, sep) = FlattenSeq(q)
    BY DEF Joined, PairPiece
  <1> HIDE DEF q
  <1>3. ASSUME NEW i \in 1..Len(pairs) PROVE Without(PairPiece(pairs, sep, i), C)
    <2> DEFINE t == PairText(pairs[i])
               b == IF i = 1 THEN <<>> ELSE sep
    <2>1. pairs[i] \in Pair
      BY ElementOfSeq
    <2>2. t \in Seq(Alphabet) /\ Without(t, C)
      BY <2>1, PairTextTyped, PairTextWithout
    <2>3. b \in Seq(Alphabet) /\ Without(b, C)
      BY BytesAre, WithoutEmpty
    <2>4. PairPiece(pairs, sep, i) = b \o t
      BY DEF PairPiece
    <2> HIDE DEF b, t
    <2>5. Without(b \o t, C)
      BY <2>2, <2>3, WithoutJoin
    <2> QED
      BY <2>4, <2>5
  <1>4. \A i \in 1..Len(q) : Without(q[i], C)
    BY <1>1, <1>3
  <1>5. Without(FlattenSeq(q), C)
    BY <1>1, <1>4, FlattenWithout
  <1> QED
    BY <1>2, <1>5

\* The text of cookies has no CR and no 0 byte.
LEMMA CookieTextIs ==
    ASSUME NEW r \in Requests, Readable(r)
    PROVE  Without(Joined(r.cookies, <<SEMICOLON, SP>>), {CR, Nul})
  <1> DEFINE sep == <<SEMICOLON, SP>>
             C == {CR, Nul}
  <1>1. r.cookies \in Seq(Pair) /\ sep \in Seq(Alphabet) /\ DOMAIN r.cookies = 1..Len(r.cookies)
    BY PartsAre, BytesAre, LenProperties
  <1>2. EQUAL \notin C
    BY DEF EQUAL, CR, Nul
  <1>3. Without(sep, C)
    <2>1. DOMAIN sep = 1..2 /\ sep[1] = SEMICOLON /\ sep[2] = SP
      OBVIOUS
    <2>2. SEMICOLON \notin {CR, Nul} /\ SP \notin {CR, Nul}
      BY DEF SEMICOLON, SP, CR, Nul
    <2> HIDE DEF sep
    <2> QED
      BY <2>1, <2>2 DEF Without
  <1>4. ASSUME NEW i \in 1..Len(r.cookies)
        PROVE  Without(r.cookies[i].key, C) /\ Without(r.cookies[i].value, C)
    <2>1. /\ Without(r.cookies[i].key, {SEMICOLON, EQUAL, SP, CR, Nul})
          /\ Without(r.cookies[i].value, {SEMICOLON, CR, Nul})
      BY <1>1 DEF Readable
    <2> QED
      BY <2>1, WithoutSmaller
  <1> HIDE DEF sep, C
  <1>5. Without(Joined(r.cookies, sep), C)
    BY <1>1, <1>2, <1>3, <1>4, JoinedWithout
  <1> QED
    BY <1>5 DEF sep, C

\* Each header line can be read: it is not empty, its key ends where the colon
\* is, and it has no CR and no 0 byte.
LEMMA HeaderReadable ==
    ASSUME NEW r \in Requests, Readable(r), NEW k \in 1..Len(HeaderLines(r)),
           NEW h, h = HeaderLines(r)[k]
    PROVE  /\ h \in Pair /\ h.key # <<>> /\ Without(h.key, {COLON}) /\ Without(h.key, {CR, Nul}) /\ Without(h.value, {CR, Nul})
           /\ h.key = <<"Cookie">> <=> k > Len(r.headers)
           /\ k > Len(r.headers) => /\ r.cookies # <<>> /\ k = Len(HeaderLines(r))
                                    /\ h.value = Joined(r.cookies, <<SEMICOLON, SP>>)
  <1> DEFINE n == Len(r.headers)
             c == <<"Cookie">>
  <1>1. /\ Len(HeaderLines(r)) = n + Len(CookieLines(r)) /\ n \in Nat
        /\ \A i \in 1..n : HeaderLines(r)[i] = r.headers[i]
        /\ h \in Pair
        /\ r.cookies # <<>> => HeaderLines(r)[n + 1] = CookieLines(r)[1]
    BY HeaderLinesAre
  <1>2. /\ r.cookies = <<>> => Len(CookieLines(r)) = 0
        /\ r.cookies # <<>> =>
             /\ Len(CookieLines(r)) = 1
             /\ CookieLines(r)[1] = [key |-> c, value |-> Joined(r.cookies, <<SEMICOLON, SP>>)]
    BY CookieLinesAre
  <1>3. CASE k <= n
    <2>1. k \in 1..n /\ k \in DOMAIN r.headers /\ h = r.headers[k]
      <3>1. r.headers \in Seq(Pair)
        BY PartsAre
      <3>2. DOMAIN r.headers = 1..n
        BY <3>1, LenProperties
      <3> QED
        BY <1>1, <1>3, <3>2
    <2>2. h.key \notin {<<>>, c} /\ Without(h.key, {COLON, CR, Nul}) /\ Without(h.value, {CR, Nul})
      BY <2>1 DEF Readable
    <2>3. Without(h.key, {COLON}) /\ Without(h.key, {CR, Nul})
      BY <2>2, WithoutSmaller
    <2>4. ~(k > n)
      BY <1>1, <1>3
    <2>5. h.key # <<>> /\ h.key # c
      BY <2>2
    <2> HIDE DEF c
    <2> QED
      BY <1>1, <2>2, <2>3, <2>4, <2>5, Zenon DEF c, n
  <1>4. CASE ~(k <= n)
    <2>1. r.cookies # <<>> /\ k = n + 1 /\ Len(HeaderLines(r)) = n + 1
      <3> DEFINE m == Len(CookieLines(r))
      <3>1. m \in {0, 1} /\ (r.cookies = <<>> => m = 0) /\ Len(HeaderLines(r)) = n + m
        BY <1>1, <1>2
      <3> HIDE DEF m, n
      <3>2. m # 0 /\ k = n + m
        BY <1>1, <1>4, <3>1
      <3> QED
        BY <3>1, <3>2
    <2> DEFINE v == Joined(r.cookies, <<SEMICOLON, SP>>)
    <2>2. Without(v, {CR, Nul})
      BY CookieTextIs
    <2>3. h = [key |-> c, value |-> v]
      BY <1>1, <1>2, <2>1
    <2> HIDE DEF v
    <2>4. h.key = c /\ h.value = v
      BY <2>3
    <2>5. c # <<>> /\ Without(c, {COLON}) /\ Without(c, {CR, Nul})
      <3>1. DOMAIN c = {1} /\ c[1] = "Cookie" /\ c # <<>>
        OBVIOUS
      <3>2. "Cookie" \notin {COLON, CR, Nul}
        BY DEF COLON, CR, Nul
      <3> HIDE DEF c
      <3> QED
        BY <3>1, <3>2 DEF Without
    <2>6. k > n
      BY <1>1, <1>4
    <2>7. k = Len(HeaderLines(r))
      BY <2>1
    <2> HIDE DEF c
    <2> QED
      BY <1>1, <2>1, <2>2, <2>4, <2>5, <2>6, <2>7, Zenon DEF v, c, n
  <1> QED
    BY <1>3, <1>4

\* The line of a header that is readable: at its first colon it falls into
\* the key and the value again, or it has none.
LEMMA HeaderTextIs ==
    ASSUME NEW h \in Pair, h.key # <<>>, Without(h.key, {COLON}), Without(h.key, {CR, Nul}), Without(h.value, {CR, Nul}),
           NEW t, t = HeaderText(h)
    PROVE  /\ t \in Seq(Alphabet) /\ Len(t) \in Nat /\ Len(t) > 0 /\ Without(t, {CR, Nul})
           /\ \/ Place(t, COLON) = 0
              \/ /\ Place(t, COLON) > 0
                 /\ PairOf(t, Place(t, COLON)) = h
  <1> DEFINE k == h.key
             v == h.value
             d == <<COLON, SP>>
             n == Len(k)
             c == Place(t, COLON)
  <1>1. k \in Seq(Alphabet) /\ v \in Seq(Alphabet) /\ h = [key |-> k, value |-> v]
    BY DEF Pair
  <1>2. d \in Seq(Alphabet) /\ Len(d) = 2 /\ d[1] = COLON /\ d[2] = SP /\ Without(d, {CR, Nul})
    <2>1. d \in Seq(Alphabet) /\ Len(d) = 2 /\ d[1] = COLON /\ d[2] = SP /\ DOMAIN d = 1..2
      BY BytesAre
    <2>2. COLON \notin {CR, Nul} /\ SP \notin {CR, Nul}
      BY DEF COLON, SP, CR, Nul
    <2> HIDE DEF d
    <2> QED
      BY <2>1, <2>2 DEF Without
  <1>3. n \in Nat \ {0} /\ DOMAIN k = 1..n
    BY <1>1, EmptySeq, LenProperties
  <1>4. t \in Seq(Alphabet)
    BY HeaderTextTyped
  <1>5. Len(t) \in Nat /\ DOMAIN t = 1..Len(t)
    BY <1>4, LenProperties
  <1>6. /\ c \in 0..Len(t)
        /\ c = 0 => \A i \in 1..Len(t) : t[i] # COLON
        /\ c > 0 => t[c] = COLON /\ \A i \in 1..Len(t) : i < c => t[i] # COLON
    BY <1>4, PlaceFirst
  <1>7. \A i \in 1..n : k[i] # COLON
    BY <1>3 DEF Without
  <1>8. CASE v = NoValue
    <2>1. t = k
      <3>1. t = k \o <<>>
        BY <1>8 DEF HeaderText
      <3> QED
        BY <1>1, <3>1, ConcatEmptySeq
    <2>2. c = 0
      <3> HIDE DEF c, k
      <3> QED
        BY <1>3, <1>6, <1>7, <2>1 DEF n
    <2> QED
      BY <1>1, <1>3, <2>1, <2>2
  <1>9. CASE v # NoValue
    <2> DEFINE z == k \o d
    <2>1. t = z \o v
      <3>1. t = k \o (d \o v)
        BY <1>9 DEF HeaderText
      <3> HIDE DEF k, v, d
      <3> QED
        BY <1>1, <1>2, <3>1, Assoc
    <2>2. /\ z \in Seq(Alphabet) /\ Len(z) = n + 2 /\ Without(z, {CR, Nul})
          /\ \A i \in 1..(n + 2) : z[i] = IF i <= n THEN k[i] ELSE d[i - n]
      <3>1. /\ z \in Seq(Alphabet) /\ Len(z) = n + Len(d)
            /\ \A i \in 1..(n + Len(d)) : z[i] = IF i <= n THEN k[i] ELSE d[i - n]
        <4> HIDE DEF d, k
        <4> QED
          BY <1>1, <1>2, ConcatProperties
      <3>2. Without(z, {CR, Nul})
        <4> HIDE DEF d, k
        <4> QED
          BY <1>1, <1>2, WithoutJoin DEF k
      <3> HIDE DEF z, d, n, k
      <3> QED
        BY <1>2, <3>1, <3>2
    <2> HIDE DEF z, d, k, v, n, c
    <2>3. Without(t, {CR, Nul})
      BY <1>1, <2>1, <2>2, WithoutJoin DEF v
    <2>4. /\ Len(t) = n + 2 + Len(v) /\ Len(v) \in Nat
          /\ \A i \in 1..(n + 2) : t[i] = z[i]
      <3>1. /\ Len(z \o v) = Len(z) + Len(v) /\ Len(v) \in Nat
            /\ \A i \in 1..(Len(z) + Len(v)) : (z \o v)[i] = IF i <= Len(z) THEN z[i] ELSE v[i - Len(z)]
        BY <1>1, <2>2, ConcatProperties, LenProperties
      <3>2. \A i \in 1..(n + 2) : i \in 1..(Len(z) + Len(v)) /\ i <= Len(z)
        BY <1>3, <2>2, <3>1
      <3> QED
        BY <2>1, <2>2, <3>1, <3>2
    <2>5. t[n + 1] = COLON /\ t[n + 2] = SP /\ \A i \in 1..n : t[i] # COLON
      <3>1. /\ n + 1 \in 1..(n + 2) /\ ~(n + 1 <= n) /\ (n + 1) - n = 1
            /\ n + 2 \in 1..(n + 2) /\ ~(n + 2 <= n) /\ (n + 2) - n = 2
            /\ \A i \in 1..n : i \in 1..(n + 2) /\ i <= n
        BY <1>3
      <3> QED
        BY <1>2, <1>7, <2>2, <2>4, <3>1
    <2>6. c = n + 1
      <3>1. n + 1 \in 1..Len(t)
        BY <1>3, <2>4
      <3>2. c > 0
        BY <1>3, <1>6, <2>5, <3>1
      <3>3. ~(c < n + 1)
        BY <1>3, <1>6, <2>5, <3>2
      <3>4. ~(n + 1 < c)
        BY <1>6, <2>5, <3>1, <3>2
      <3> QED
        BY <1>3, <1>5, <1>6, <3>2, <3>3, <3>4
    <2>7. SubSeq(t, 1, n) = k /\ From(t, n + 3) = v
      <3>1. t \o <<>> = z \o v /\ <<>> \in Seq(Alphabet)
        BY <1>4, <2>1, ConcatEmptySeq, BytesAre
      <3>2. Len(z) <= Len(t) /\ Len(z) + 1 = n + 3
        BY <1>3, <2>2, <2>4
      <3>3. From(t, Len(z) + 1) \o <<>> = v
        <4> DEFINE e == <<>>
        <4>1. t \o e = z \o v /\ e \in Seq(Alphabet)
          BY <3>1
        <4> HIDE DEF e
        <4>2. t \in Seq(Alphabet) /\ e \in Seq(Alphabet) /\ z \in Seq(Alphabet) /\ v \in Seq(Alphabet)
          BY <1>1, <1>4, <2>2, <4>1
        <4>3. Len(z) <= Len(t) => SubSeq(t, 1, Len(z)) = z /\ From(t, Len(z) + 1) \o e = v
          BY ONLY <4>1, <4>2, CutAt
        <4> QED
          BY <3>2, <4>3 DEF e
      <3>4. From(t, n + 3) \in Seq(Alphabet)
        <4>1. n + 3 \in Nat \ {0}
          BY <1>3
        <4> QED
          BY <1>4, <4>1, RestOf
      <3>5. From(t, n + 3) = v
        BY <3>2, <3>3, <3>4, ConcatEmptySeq
      <3>6. SubSeq(t, 1, n) = k
        <4>1. t \o <<>> = k \o (d \o v) /\ d \o v \in Seq(Alphabet)
          <5>1. (k \o d) \o v = k \o (d \o v)
            BY <1>1, <1>2, Assoc
          <5> QED
            BY <1>1, <1>2, <3>1, <5>1, WordsJoin DEF z
        <4>2. n <= Len(t) /\ n = Len(k)
          BY <1>3, <2>4 DEF n
        <4> DEFINE y == d \o v
        <4> HIDE DEF y
        <4>3. t \o <<>> = k \o y /\ y \in Seq(Alphabet)
          BY <4>1 DEF y
        <4> QED
          BY <1>1, <1>4, <3>1, <4>2, <4>3, CutAt
      <3> QED
        BY <3>5, <3>6
    <2>8. PairOf(t, c) = h
      <3>1. c - 1 = n /\ c + 1 = n + 2 /\ c + 2 = n + 3
        BY <1>3, <2>6
      <3>2. At(t, n + 2, SP)
        BY <1>3, <1>5, <2>4, <2>5 DEF At
      <3>3. PairOf(t, c) = [key |-> SubSeq(t, 1, n), value |-> From(t, n + 3)]
        BY <3>1, <3>2 DEF PairOf
      <3> QED
        BY <1>1, <2>7, <3>3
    <2> QED
      BY <1>3, <1>4, <2>3, <2>4, <2>6, <2>8 DEF c
  <1> QED
    BY <1>8, <1>9

-----------------------------------------------------------------------------
(***************************************************************************)
(* A header line is taken for what was sent.                               *)
(***************************************************************************)
\* One more of a sequence.
LEMMA FrontNext ==
    ASSUME NEW S, NEW q \in Seq(S), NEW k \in Nat, k + 1 <= Len(q)
    PROVE  SubSeq(q, 1, k + 1) = Append(SubSeq(q, 1, k), q[k + 1])
  <1>1. k + 1 \in 1..Len(q) /\ k <= Len(q) /\ Len(q) \in Nat
    BY LenProperties
  <1> DEFINE a == SubSeq(q, 1, k)
             b == SubSeq(q, 1, k + 1)
  <1>2. a \in Seq(S) /\ Len(a) = k /\ \A i \in 1..k : a[i] = q[i]
    BY <1>1, SubSeqProperties
  <1>3. b \in Seq(S) /\ Len(b) = k + 1 /\ \A i \in 1..(k + 1) : b[i] = q[i]
    BY <1>1, SubSeqProperties
  <1> HIDE DEF a, b
  <1>4. q[k + 1] \in S
    BY <1>1, ElementOfSeq
  <1> DEFINE c == Append(a, q[k + 1])
  <1>5. /\ c \in Seq(S) /\ Len(c) = k + 1
        /\ \A i \in 1..k : c[i] = a[i]
        /\ c[k + 1] = q[k + 1]
    BY <1>2, <1>4, AppendProperties
  <1> HIDE DEF c
  <1>6. \A i \in 1..(k + 1) : b[i] = c[i]
    <2>1. \A i \in 1..(k + 1) : i \in 1..k \/ i = k + 1
      OBVIOUS
    <2> QED
      BY <1>2, <1>3, <1>5, <2>1
  <1>7. b = c
    BY <1>3, <1>5, <1>6, SeqEqual
  <1> QED
    BY <1>7 DEF a, b, c

\* The first k header lines of the request.
LinesTaken(k) == SubSeq(HeaderLines(sent), 1, k)

\* With one more header line taken.
LEMMA TakenNext ==
    ASSUME sent \in Requests, NEW k \in 0..Len(HeaderLines(sent)), k < Len(HeaderLines(sent))
    PROVE  LinesTaken(k + 1) = Append(LinesTaken(k), HeaderLines(sent)[k + 1])
  <1> DEFINE q == HeaderLines(sent)
  <1>1. q \in Seq(Pair) /\ Len(q) \in Nat
    BY HeaderLinesAre
  <1>2. k \in Nat /\ k + 1 <= Len(q)
    BY <1>1
  <1> HIDE DEF q
  <1>3. SubSeq(q, 1, k + 1) = Append(SubSeq(q, 1, k), q[k + 1])
    BY <1>1, <1>2, FrontNext
  <1> QED
    BY <1>3 DEF q, LinesTaken

\* The cookies when a line with these is taken.
CookiesFrom(value) == IF CookiesIn(value) = <<>> THEN cookie_info ELSE CookiesIn(value)

\* What a line does that is taken, h being the next one that was sent.
LEMMA LineRead ==
    ASSUME sent \in Requests, Readable(sent), NEW k \in 0..Len(HeaderLines(sent)), k < Len(HeaderLines(sent)),
           lines = LinesTaken(k),
           NEW s \in Seq(Alphabet), NEW t \in Seq(Alphabet), s \o t = After(sent, k),
           CrLfAt(s, 1) # 0, TakeLine(s, CrLfAt(s, 1))
    PROVE  \/ rpc' = "read_end" /\ UNCHANGED <<lines, cookie_info>>
           \/ /\ rpc' = "header" /\ lines' = LinesTaken(k + 1) /\ rest' \o t = After(sent, k + 1)
              /\ \/ k + 1 <= Len(sent.headers) /\ UNCHANGED cookie_info
                 \/ /\ k + 1 > Len(sent.headers) /\ k + 1 = Len(HeaderLines(sent)) /\ sent.cookies # <<>>
                    /\ cookie_info' = CookiesFrom(Joined(sent.cookies, <<SEMICOLON, SP>>))
  <1> DEFINE n == Len(HeaderLines(sent))
             h == HeaderLines(sent)[k + 1]
             x == HeaderText(h)
             w == After(sent, k + 1)
             m == Len(x)
             p == CrLfAt(s, 1)
             line == CString(SubSeq(s, 1, p - 1))
             c == Place(line, COLON)
  <1>1. /\ After(sent, k) = x \o (CRLF \o w)
        /\ k + 1 \in 1..n /\ k + 1 \in 0..n
    BY AfterNext
  <1>2. /\ h \in Pair /\ h.key # <<>> /\ Without(h.key, {COLON})
        /\ Without(h.key, {CR, Nul}) /\ Without(h.value, {CR, Nul})
        /\ h.key = <<"Cookie">> <=> k + 1 > Len(sent.headers)
        /\ k + 1 > Len(sent.headers) => /\ sent.cookies # <<>> /\ k + 1 = n
                                        /\ h.value = Joined(sent.cookies, <<SEMICOLON, SP>>)
    BY <1>1, HeaderReadable
  <1> HIDE DEF h
  <1>3. /\ x \in Seq(Alphabet) /\ m \in Nat /\ m > 0 /\ Without(x, {CR, Nul})
        /\ Place(x, COLON) = 0 \/ (Place(x, COLON) > 0 /\ PairOf(x, Place(x, COLON)) = h)
    BY <1>2, HeaderTextIs
  <1>4. w \in Seq(Alphabet)
    BY <1>1, AfterTyped
  <1> HIDE DEF x, w
  <1>5. p = m + 1 /\ SubSeq(s, 1, m) = x /\ From(s, m + 3) \o t = w
    <2>1. IsLine(s, t, x, w)
      BY <1>1 DEF IsLine
    <2>2. Without(x, {CR})
      BY <1>3, WithoutSmaller
    <2> QED
      BY <1>3, <1>4, <2>1, <2>2, LineEndIs
  <1>6. line = x /\ p + 2 = m + 3
    <2>1. SubSeq(s, 1, p - 1) = x /\ p + 2 = m + 3
      BY <1>3, <1>5
    <2>2. CString(x) = x
      <3>1. Without(x, {Nul})
        BY <1>3, WithoutSmaller
      <3> QED
        BY <1>3, <3>1, CStringWhole
    <2> QED
      BY <2>1, <2>2
  <1>7. \/ c = 0 /\ rpc' = "read_end" /\ UNCHANGED <<lines, cookie_info>>
        \/ /\ c > 0 /\ lines' = Append(lines, PairOf(line, c)) /\ rpc' = "header"
           /\ cookie_info' = IF PairOf(line, c).key = <<"Cookie">>
                                THEN CookiesFrom(PairOf(line, c).value) ELSE cookie_info
           /\ rest' = From(s, p + 2)
    BY DEF TakeLine, PairOf, ReadEnd, Goes, BehindLine, TakeCookies, CookiesFrom
  <1> HIDE DEF line, c, p, m
  <1>8. CASE c = 0
    BY <1>7, <1>8
  <1>9. CASE c > 0
    <2>1. PairOf(line, c) = h
      BY <1>3, <1>6, <1>9 DEF c
    <2>2. /\ lines' = Append(lines, h) /\ rpc' = "header"
          /\ cookie_info' = IF h.key = <<"Cookie">> THEN CookiesFrom(h.value) ELSE cookie_info
          /\ rest' = From(s, m + 3)
      BY <1>6, <1>7, <1>9, <2>1
    <2>3. lines' = LinesTaken(k + 1)
      BY <2>2, TakenNext DEF h
    <2>4. rest' \o t = w
      BY <1>5, <2>2
    <2>5. CASE k + 1 > Len(sent.headers)
      BY <1>2, <2>2, <2>3, <2>4, <2>5 DEF w
    <2>6. CASE ~(k + 1 > Len(sent.headers))
      <3>1. k + 1 <= Len(sent.headers)
        BY <2>6, HeaderLinesAre
      <3> QED
        BY <1>2, <2>2, <2>3, <2>4, <2>6, <3>1 DEF w
    <2> QED
      BY <2>5, <2>6
  <1>10. c = 0 \/ c > 0
    BY <1>7
  <1> QED
    BY <1>8, <1>9, <1>10

-----------------------------------------------------------------------------
(***************************************************************************)
(* Pieces and their items.                                                 *)
(***************************************************************************)
ItemsUpto(q, n, f) ==
    f = [i \in 0..n |-> IF i = 0 THEN <<>>
                        ELSE IF KeyLength(q[i]) = 0 THEN f[i - 1]
                        ELSE Append(f[i - 1], Item(q[i]))]

\* When each piece has a key, each gives an item.
LEMMA IteratedIs ==
    ASSUME NEW q, NEW n \in Nat, Len(q) = n, \A k \in 1..n : KeyLength(q[k]) # 0
    PROVE  Iterated(q) = [k \in 1..n |-> Item(q[k])]
  <1> DEFINE S == {Item(q[k]) : k \in 1..n}
             v == [k \in 1..n |-> Item(q[k])]
             g == [i \in 0..n |-> SubSeq(v, 1, i)]
             items == CHOOSE f : ItemsUpto(q, n, f)
  <1>1. Iterated(q) = items[n]
    BY DEF Iterated, ItemsUpto
  <1>2. v \in Seq(S) /\ Len(v) = n /\ \A k \in 1..n : v[k] = Item(q[k])
    <2>1. v \in [1..n -> S]
      OBVIOUS
    <2>2. \A k \in 1..n : v[k] = Item(q[k])
      OBVIOUS
    <2>3. DOMAIN v = 1..n
      OBVIOUS
    <2> HIDE DEF v, S
    <2>4. v \in Seq(S)
      BY <2>1, SeqDef
    <2>5. Len(v) = n
      BY <2>3, <2>4, LenProperties
    <2> QED
      BY <2>2, <2>4, <2>5
  <1> HIDE DEF v, S
  <1>3. /\ SubSeq(v, 1, 0) = <<>> /\ SubSeq(v, 1, n) = v
        /\ \A i \in 1..n : SubSeq(v, 1, i) = Append(SubSeq(v, 1, i - 1), Item(q[i]))
    <2>1. SubSeq(v, 1, 0) = <<>>
      BY SubSeqEmpty
    <2>2. SubSeq(v, 1, n) = v
      BY <1>2, SubSeqFull
    <2>3. ASSUME NEW i \in 1..n PROVE SubSeq(v, 1, i) = Append(SubSeq(v, 1, i - 1), Item(q[i]))
      <3>1. i - 1 \in Nat /\ (i - 1) + 1 = i /\ i <= Len(v)
        BY <1>2
      <3> DEFINE k == i - 1
      <3>2. k \in Nat /\ k + 1 <= Len(v) /\ k + 1 = i
        BY <3>1
      <3> HIDE DEF k
      <3>3. SubSeq(v, 1, k + 1) = Append(SubSeq(v, 1, k), v[k + 1])
        BY <1>2, <3>2, FrontNext
      <3>4. v[i] = Item(q[i])
        BY <1>2
      <3> QED
        BY <3>2, <3>3, <3>4 DEF k
    <2> QED
      BY <2>1, <2>2, <2>3
  <1>4. ItemsUpto(q, n, g)
    <2> DEFINE Step(f, i) == IF i = 0 THEN <<>>
                             ELSE IF KeyLength(q[i]) = 0 THEN f[i - 1]
                             ELSE Append(f[i - 1], Item(q[i]))
    <2>1. ASSUME NEW i \in 0..n PROVE g[i] = Step(g, i)
      <3>1. CASE i = 0
        BY <1>3, <3>1
      <3>2. CASE i # 0
        <4>1. i \in 1..n /\ i - 1 \in 0..n
          BY <3>2
        <4>2. g[i] = SubSeq(v, 1, i) /\ g[i - 1] = SubSeq(v, 1, i - 1)
          BY <4>1
        <4> HIDE DEF g
        <4> QED
          BY <1>3, <3>2, <4>1, <4>2
      <3> QED
        BY <3>1, <3>2
    <2>2. g = [i \in 0..n |-> g[i]]
      OBVIOUS
    <2> HIDE DEF g, Step
    <2>3. [i \in 0..n |-> g[i]] = [i \in 0..n |-> Step(g, i)]
      BY <2>1
    <2>4. g = [i \in 0..n |-> Step(g, i)]
      BY <2>2, <2>3
    <2> QED
      BY <2>4 DEF ItemsUpto, Step
  <1>5. ItemsUpto(q, n, items)
    <2> HIDE DEF g
    <2> QED
      BY <1>4
  <1> HIDE DEF items
  <1>6. /\ items[0] = <<>>
        /\ \A i \in 1..n : items[i] = Append(items[i - 1], Item(q[i]))
    <2>1. \A i \in 0..n : items[i] = IF i = 0 THEN <<>>
                                     ELSE IF KeyLength(q[i]) = 0 THEN items[i - 1]
                                     ELSE Append(items[i - 1], Item(q[i]))
      BY <1>5 DEF ItemsUpto
    <2>2. 0 \in 0..n
      OBVIOUS
    <2>3. items[0] = <<>>
      BY <2>1, <2>2
    <2>4. ASSUME NEW i \in 1..n PROVE items[i] = Append(items[i - 1], Item(q[i]))
      <3>1. i \in 0..n /\ i # 0 /\ KeyLength(q[i]) # 0
        OBVIOUS
      <3> QED
        BY <2>1, <3>1
    <2> QED
      BY <2>3, <2>4
  <1> DEFINE Bad == {i \in 0..n : items[i] # SubSeq(v, 1, i)}
  <1>7. ASSUME Bad # {} PROVE FALSE
    <2>1. PICK m \in Bad : \A k \in Bad : m <= k
      <3>1. Bad \subseteq Nat
        OBVIOUS
      <3> HIDE DEF Bad
      <3> QED
        BY <1>7, <3>1, LeastOf
    <2>2. m \in 0..n /\ items[m] # SubSeq(v, 1, m)
      BY <2>1
    <2>3. m # 0
      BY <1>3, <1>6, <2>2
    <2>4. m \in 1..n /\ m - 1 \in 0..n /\ m - 1 \notin Bad
      <3> HIDE DEF Bad
      <3> QED
        BY <2>1, <2>2, <2>3
    <2>5. items[m - 1] = SubSeq(v, 1, m - 1)
      BY <2>4
    <2> QED
      BY <1>3, <1>6, <2>2, <2>4, <2>5
  <1>8. items[n] = v
    <2>1. n \in 0..n /\ n \notin Bad
      BY <1>7
    <2>2. items[n] = SubSeq(v, 1, n)
      BY <2>1
    <2> QED
      BY <1>3, <2>2
  <1> QED
    BY <1>1, <1>8 DEF v

\* A rest of a rest is a rest.
LEMMA RestOfRest ==
    ASSUME NEW s \in Seq(Alphabet), NEW p \in 1..(Len(s) + 1), NEW a \in Nat \ {0}
    PROVE  From(From(s, p), a) = From(s, p + a - 1)
  <1>1. Len(s) \in Nat /\ p \in Nat \ {0} /\ p + a - 1 \in Nat \ {0}
    BY LenProperties
  <1> DEFINE w == From(s, p)
             l == From(w, a)
             r == From(s, p + a - 1)
             n == Len(s)
             m == Len(w)
  <1>2. w \in Seq(Alphabet) /\ m = n - p + 1 /\ \A i \in 1..m : w[i] = s[p + i - 1]
    <2>1. w \in Seq(Alphabet) /\ m = IF p <= n THEN n - p + 1 ELSE 0
      BY <1>1, RestOf
    <2>2. m = n - p + 1
      BY <1>1, <2>1
    <2>3. \A i \in 1..m : w[i] = s[p + i - 1]
      <3>1. \A i \in p..n : s[i] \in Alphabet
        BY <1>1, ElementOfSeq
      <3>2. \A i \in 1..(n - p + 1) : w[i] = s[p + i - 1]
        BY <1>1, <3>1, SubSeqProperties DEF From
      <3> QED
        BY <2>2, <3>2
    <2> QED
      BY <2>1, <2>2, <2>3
  <1> HIDE DEF w
  <1>3. m \in Nat
    BY <1>2, LenProperties
  <1>4. l \in Seq(Alphabet) /\ Len(l) = (IF a <= m THEN m - a + 1 ELSE 0)
            /\ \A i \in 1..(m - a + 1) : l[i] = w[a + i - 1]
    <2>1. \A i \in a..m : w[i] \in Alphabet
      BY <1>2, <1>3, ElementOfSeq
    <2> QED
      BY <1>2, <1>3, <2>1, SubSeqProperties, RestOf DEF From
  <1>5. /\ r \in Seq(Alphabet) /\ Len(r) = (IF p + a - 1 <= n THEN n - (p + a - 1) + 1 ELSE 0)
        /\ \A i \in 1..(n - (p + a - 1) + 1) : r[i] = s[(p + a - 1) + i - 1]
    <2> DEFINE b == p + a - 1
    <2>1. b \in Nat \ {0}
      BY <1>1
    <2> HIDE DEF b
    <2>2. \A i \in b..n : s[i] \in Alphabet
      BY <1>1, <2>1, ElementOfSeq
    <2>3. /\ From(s, b) \in Seq(Alphabet) /\ Len(From(s, b)) = (IF b <= n THEN n - b + 1 ELSE 0)
          /\ \A i \in 1..(n - b + 1) : From(s, b)[i] = s[b + i - 1]
      BY <1>1, <2>1, <2>2, SubSeqProperties, RestOf DEF From
    <2> QED
      BY <2>3 DEF b
  <1> HIDE DEF l, r, n, m
  <1>6. Len(l) = Len(r)
    BY <1>1, <1>2, <1>3, <1>4, <1>5 DEF n
  <1>7. ASSUME NEW i \in 1..Len(l) PROVE l[i] = r[i]
    <2>1. n \in Nat
      BY <1>1 DEF n
    <2>2. i \in 1..(m - a + 1) /\ a + i - 1 \in 1..m
      BY <1>3, <1>4
    <2>3. i \in 1..(n - (p + a - 1) + 1) /\ (p + a - 1) + i - 1 = p + (a + i - 1) - 1
      BY <1>2, <1>3, <2>1, <2>2
    <2> QED
      BY <1>2, <1>4, <1>5, <2>2, <2>3
  <1>8. l = r
    BY <1>4, <1>5, <1>6, <1>7, SeqEqual
  <1> QED
    BY <1>8 DEF l, r, w

\* The pieces of the last n bytes, those of fewer being known.
PiecesAt(s, sep, f, n) ==
    LET text == From(s, Len(s) - n + 1)
        p    == Place(text, sep)
    IN  IF p = 0 THEN <<text>> ELSE <<SubSeq(text, 1, p - 1)>> \o f[n - p]

\* The last n bytes of a text, and the place of a separator in them.
LEMMA LastBytes ==
    ASSUME NEW s \in Seq(Alphabet), NEW sep, NEW n \in 0..Len(s)
    PROVE  /\ From(s, Len(s) - n + 1) \in Seq(Alphabet) /\ Len(From(s, Len(s) - n + 1)) = n
           /\ Place(From(s, Len(s) - n + 1), sep) \in 0..n
  <1> DEFINE p == Len(s) - n + 1
             t == From(s, p)
  <1>1. Len(s) \in Nat /\ p \in Nat \ {0} /\ n = Len(s) - p + 1 /\ n \in Nat
    BY LenProperties
  <1> HIDE DEF p
  <1>2. t \in Seq(Alphabet) /\ Len(t) = IF p <= Len(s) THEN Len(s) - p + 1 ELSE 0
    BY <1>1, RestOf
  <1> HIDE DEF t
  <1>3. Len(t) = n
    BY <1>1, <1>2
  <1>4. Place(t, sep) \in 0..n
    BY <1>2, <1>3, PlaceIs
  <1> QED
    BY <1>2, <1>3, <1>4 DEF t, p

\* f has the pieces of as many of the last bytes as there are up to n.
PiecesUpto(s, sep, n, f) == f = [k \in 0..n |-> PiecesAt(s, sep, f, k)]

\* That function exists for every number of bytes.
LEMMA PiecesReadable ==
    ASSUME NEW s \in Seq(Alphabet), NEW sep
    PROVE  \E f : PiecesUpto(s, sep, Len(s), f)
  <1> DEFINE n == Len(s)
             Bad == {m \in 0..n : \A f : ~PiecesUpto(s, sep, m, f)}
  <1>1. n \in Nat
    BY LenProperties
  <1>2. ASSUME NEW k \in 0..n, NEW f, NEW g, \A i \in 0..(k - 1) : f[i] = g[i]
        PROVE  PiecesAt(s, sep, f, k) = PiecesAt(s, sep, g, k)
    <2> DEFINE text == From(s, Len(s) - k + 1)
               p == Place(text, sep)
    <2>1. p \in 0..k
      BY LastBytes
    <2> HIDE DEF p
    <2>2. CASE p = 0
      BY <2>2 DEF PiecesAt, p
    <2>3. CASE p # 0
      <3>1. k - p \in 0..(k - 1)
        BY <2>1, <2>3
      <3>2. f[k - p] = g[k - p]
        BY <1>2, <3>1
      <3> QED
        BY <2>3, <3>2 DEF PiecesAt, p
    <2> QED
      BY <2>2, <2>3
  <1> HIDE DEF n
  <1>3. ASSUME Bad # {} PROVE FALSE
    <2>1. PICK m \in Bad : \A k \in Bad : m <= k
      <3>1. Bad \subseteq Nat
        OBVIOUS
      <3> HIDE DEF Bad
      <3> QED
        BY <1>3, <3>1, LeastOf
    <2>2. m \in 0..n /\ \A f : ~PiecesUpto(s, sep, m, f)
      BY <2>1
    <2>3. PICK f : \A k \in 0..(m - 1) : f[k] = PiecesAt(s, sep, f, k)
      <3>1. CASE m = 0
        BY <3>1
      <3>2. CASE m # 0
        <4>1. m - 1 \in 0..n /\ m - 1 \notin Bad
          <5> HIDE DEF Bad
          <5> QED
            BY <1>1, <2>1, <2>2, <3>2
        <4>2. PICK f : PiecesUpto(s, sep, m - 1, f)
          BY <4>1
        <4> QED
          BY <4>2 DEF PiecesUpto
      <3> QED
        BY <3>1, <3>2
    <2> DEFINE g == [k \in 0..m |-> IF k = m THEN PiecesAt(s, sep, f, m) ELSE f[k]]
    <2>4. \A i \in 0..(m - 1) : g[i] = f[i]
      BY <2>2
    <2>5. ASSUME NEW k \in 0..m PROVE g[k] = PiecesAt(s, sep, g, k)
      <3>1. k \in 0..n /\ \A i \in 0..(k - 1) : i \in 0..(m - 1)
        BY <1>1, <2>2
      <3>2. g[k] = PiecesAt(s, sep, f, k)
        <4>1. CASE k = m
          BY <4>1
        <4>2. CASE k # m
          <5>1. k \in 0..(m - 1)
            BY <2>2, <4>2
          <5> QED
            BY <2>3, <2>4, <5>1
        <4> QED
          BY <4>1, <4>2
      <3> HIDE DEF g
      <3>3. \A i \in 0..(k - 1) : g[i] = f[i]
        BY <2>4, <3>1
      <3>4. PiecesAt(s, sep, g, k) = PiecesAt(s, sep, f, k)
        BY <1>2, <3>1, <3>3
      <3> QED
        BY <3>2, <3>4
    <2>6. g = [k \in 0..m |-> g[k]]
      OBVIOUS
    <2> HIDE DEF g
    <2>7. [k \in 0..m |-> g[k]] = [k \in 0..m |-> PiecesAt(s, sep, g, k)]
      BY <2>5
    <2>8. PiecesUpto(s, sep, m, g)
      BY <2>6, <2>7 DEF PiecesUpto
    <2> QED
      BY <2>2, <2>8
  <1>4. n \in 0..n /\ n \notin Bad
    <2> HIDE DEF Bad
    <2> QED
      BY <1>1, <1>3
  <1>5. \E f : PiecesUpto(s, sep, n, f)
    BY <1>4
  <1> QED
    BY <1>5 DEF n

\* ... and it is what Pieces takes.
LEMMA PiecesRead ==
    ASSUME NEW s \in Seq(Alphabet), NEW sep
    PROVE  \E f : /\ Pieces(s, sep) = f[Len(s)]
                  /\ \A k \in 0..Len(s) : f[k] = PiecesAt(s, sep, f, k)
  <1> DEFINE f == CHOOSE g : PiecesUpto(s, sep, Len(s), g)
  <1>1. Pieces(s, sep) = f[Len(s)]
    BY DEF Pieces, PiecesUpto, PiecesAt
  <1>2. PiecesUpto(s, sep, Len(s), f)
    BY PiecesReadable
  <1> HIDE DEF f
  <1>3. \A k \in 0..Len(s) : f[k] = PiecesAt(s, sep, f, k)
    BY <1>2 DEF PiecesUpto
  <1> QED
    BY <1>1, <1>3

\* Place finds no byte that is not there.
LEMMA PlaceNone ==
    ASSUME NEW s \in Seq(Alphabet), NEW b, Without(s, {b})
    PROVE  Place(s, b) = 0
  <1>1. DOMAIN s = 1..Len(s) /\ Len(s) \in Nat
    BY LenProperties
  <1>2. /\ Place(s, b) \in 0..Len(s)
        /\ Place(s, b) > 0 => s[Place(s, b)] = b
    BY PlaceFirst
  <1> DEFINE p == Place(s, b)
  <1> HIDE DEF p
  <1>3. p \in 0..Len(s) /\ (p > 0 => s[p] = b)
    BY <1>2 DEF p
  <1>4. ASSUME p # 0 PROVE FALSE
    <2>1. p \in DOMAIN s /\ s[p] = b
      BY <1>1, <1>3, <1>4
    <2> QED
      BY <2>1 DEF Without
  <1> QED
    BY <1>4 DEF p

\* b, a separator, and w.
IsPiece(s, b, sep, w) == s = b \o (<<sep>> \o w)

\* A text with a separator, and what is on both sides of it.
LEMMA PieceEnd ==
    ASSUME NEW b \in Seq(Alphabet), NEW sep \in Alphabet, Without(b, {sep}), NEW w \in Seq(Alphabet),
           NEW s \in Seq(Alphabet), IsPiece(s, b, sep, w)
    PROVE  Place(s, sep) = Len(b) + 1 /\ SubSeq(s, 1, Len(b)) = b /\ From(s, Len(b) + 2) = w
  <1> DEFINE e == <<>>
             c == <<sep>>
             z == b \o c
             n == Len(b)
             m == Len(s)
             p == Place(s, sep)
             y == c \o w
  <1>1. /\ e \in Seq(Alphabet) /\ c \in Seq(Alphabet) /\ Len(c) = 1 /\ c[1] = sep
        /\ n \in Nat /\ DOMAIN b = 1..n /\ m \in Nat
    BY BytesAre, LenProperties
  <1>2. s \o e = s /\ s = b \o y
    BY ConcatEmptySeq DEF IsPiece
  <1> HIDE DEF e, c
  <1>3. z \in Seq(Alphabet) /\ y \in Seq(Alphabet)
    BY <1>1, WordsJoin
  <1>4. s \o e = z \o w /\ s \o e = b \o y
    <2>1. (b \o c) \o w = b \o (c \o w)
      BY <1>1, Assoc
    <2> QED
      BY <1>2, <2>1
  <1>5. /\ Len(z) = n + 1 /\ z[n + 1] = sep /\ \A i \in 1..n : z[i] = b[i]
    <2>1. Len(z) = n + Len(c) /\ \A i \in 1..(n + Len(c)) : z[i] = IF i <= n THEN b[i] ELSE c[i - n]
      BY <1>1, ConcatProperties
    <2>2. /\ \A i \in 1..n : i \in 1..(n + 1) /\ i <= n
          /\ n + 1 \in 1..(n + 1) /\ ~(n + 1 <= n) /\ (n + 1) - n = 1
      BY <1>1
    <2> HIDE DEF z, n
    <2> QED
      BY <1>1, <2>1, <2>2
  <1>6. Len(z) <= m
    <2>1. Len(z \o w) = Len(z) + Len(w) /\ Len(w) \in Nat
      BY <1>3, ConcatProperties, LenProperties
    <2> HIDE DEF z, n
    <2>2. m = Len(z) + Len(w)
      BY <1>2, <1>4, <2>1
    <2> QED
      BY <1>1, <1>5, <2>1, <2>2
  <1> HIDE DEF z, y, n, m, p
  <1>7. /\ \A i \in 1..Len(z) : i <= Len(s) => s[i] = z[i]
        /\ Len(z) <= Len(s) => SubSeq(s, 1, Len(z)) = z /\ From(s, Len(z) + 1) \o e = w
    <2>1. s \o e = z \o w /\ s \in Seq(Alphabet) /\ e \in Seq(Alphabet) /\ z \in Seq(Alphabet) /\ w \in Seq(Alphabet)
      BY <1>1, <1>3, <1>4
    <2> QED
      BY ONLY <2>1, CutAt
  <1>8. Len(b) <= Len(s) => SubSeq(s, 1, Len(b)) = b /\ From(s, Len(b) + 1) \o e = y
    <2>1. s \o e = b \o y /\ s \in Seq(Alphabet) /\ e \in Seq(Alphabet) /\ b \in Seq(Alphabet) /\ y \in Seq(Alphabet)
      BY <1>1, <1>3, <1>4
    <2> QED
      BY ONLY <2>1, CutAt
  <1>9. SubSeq(s, 1, n) = b
    BY <1>1, <1>5, <1>6, <1>8 DEF n, m
  <1>10. From(s, n + 2) = w
    <2>1. Len(z) + 1 = n + 2 /\ n + 2 \in Nat \ {0}
      BY <1>1, <1>5
    <2>2. From(s, n + 2) \o e = w /\ From(s, n + 2) \in Seq(Alphabet)
      BY <1>6, <1>7, <2>1, RestOf DEF m
    <2> QED
      BY <2>2, ConcatEmptySeq DEF e
  <1>11. /\ s[n + 1] = sep /\ n + 1 \in 1..m
         /\ \A i \in 1..n : s[i] # sep
    <2>1. \A i \in 1..(n + 1) : s[i] = z[i]
      BY <1>1, <1>5, <1>6, <1>7 DEF m
    <2>2. n + 1 \in 1..m /\ n + 1 \in 1..(n + 1) /\ \A i \in 1..n : i \in 1..(n + 1)
      BY <1>1, <1>5, <1>6
    <2>3. \A i \in 1..n : b[i] # sep
      BY <1>1 DEF Without
    <2> QED
      BY <1>5, <2>1, <2>2, <2>3
  <1>12. /\ p \in 0..m
         /\ p = 0 => \A k \in 1..m : s[k] # sep
         /\ p > 0 => s[p] = sep /\ \A k \in 1..m : k < p => s[k] # sep
    BY PlaceFirst DEF p, m
  <1>13. p = n + 1
    <2>1. p > 0
      <3>1. ASSUME p = 0 PROVE FALSE
        <4>1. s[n + 1] # sep
          BY <1>11, <1>12, <3>1
        <4> QED
          BY <1>11, <4>1
      <3>2. m \in Nat
        BY <1>1 DEF m
      <3> QED
        BY <1>12, <3>1, <3>2
    <2>2. ~(p < n + 1)
      BY <1>1, <1>11, <1>12, <2>1
    <2>3. ASSUME n + 1 < p PROVE FALSE
      <3>1. s[n + 1] # sep
        BY <1>11, <1>12, <2>1, <2>3
      <3> QED
        BY <1>11, <3>1
    <2> QED
      BY <1>1, <1>12, <2>2, <2>3
  <1> QED
    BY <1>9, <1>10, <1>13 DEF n, p

\* The first piece, and those of what follows its separator.
LEMMA PiecesFirst ==
    ASSUME NEW s \in Seq(Alphabet), NEW sep, NEW p, p = Place(s, sep)
    PROVE  /\ p = 0 => Pieces(s, sep) = <<s>>
           /\ p # 0 => Pieces(s, sep) = <<SubSeq(s, 1, p - 1)>> \o Pieces(From(s, p + 1), sep)
  <1> DEFINE n == Len(s)
             w == From(s, p + 1)
             m == Len(w)
  <1>1. n \in Nat /\ p \in 0..n
    BY PlaceIs, LenProperties
  <1>2. From(s, 1) = s /\ n - n + 1 = 1 /\ n \in 0..n
    BY <1>1, SubSeqFull DEF From
  <1>3. PICK f : /\ Pieces(s, sep) = f[n]
                 /\ \A k \in 0..n : f[k] = PiecesAt(s, sep, f, k)
    BY PiecesRead
  <1>4. Pieces(s, sep) = IF p = 0 THEN <<s>> ELSE <<SubSeq(s, 1, p - 1)>> \o f[n - p]
    BY <1>2, <1>3 DEF PiecesAt
  <1>5. CASE p = 0
    BY <1>4, <1>5
  <1>6. CASE p # 0
    <2>1. w \in Seq(Alphabet) /\ m \in Nat /\ m = n - p
      <3>1. p + 1 \in Nat \ {0}
        BY <1>1
      <3>2. w \in Seq(Alphabet) /\ m \in Nat /\ m = IF p + 1 <= n THEN n - (p + 1) + 1 ELSE 0
        BY <3>1, RestOf
      <3> QED
        BY <1>1, <3>2
    <2>2. PICK g : /\ Pieces(w, sep) = g[m]
                   /\ \A k \in 0..m : g[k] = PiecesAt(w, sep, g, k)
      BY <2>1, PiecesRead
    <2>3. ASSUME NEW k \in 0..m PROVE From(w, m - k + 1) = From(s, n - k + 1)
      <3>1. p + 1 \in 1..(n + 1) /\ m - k + 1 \in Nat \ {0} /\ (p + 1) + (m - k + 1) - 1 = n - k + 1
        BY <1>1, <2>1
      <3> DEFINE a == m - k + 1
                 b == p + 1
      <3> HIDE DEF a, b, m
      <3>2. From(From(s, b), a) = From(s, b + a - 1)
        BY <3>1, RestOfRest DEF a, b
      <3> QED
        BY <3>1, <3>2 DEF a, b
    <2> HIDE DEF w, m, n
    <2> DEFINE Bad == {k \in 0..m : f[k] # g[k]}
    <2>4. ASSUME Bad # {} PROVE FALSE
      <3>1. PICK k \in Bad : \A i \in Bad : k <= i
        <4>1. Bad \subseteq Nat
          OBVIOUS
        <4> HIDE DEF Bad
        <4> QED
          BY <2>4, <4>1, LeastOf
      <3>2. k \in 0..m /\ f[k] # g[k]
        BY <3>1
      <3>3. k \in 0..n
        BY <1>1, <2>1, <3>2
      <3> DEFINE text == From(s, n - k + 1)
                 q == Place(text, sep)
      <3>4. q \in 0..k
        <4>1. Place(From(s, Len(s) - k + 1), sep) \in 0..k
          BY <3>3, LastBytes DEF n
        <4> QED
          BY <4>1 DEF n
      <3>5. /\ f[k] = IF q = 0 THEN <<text>> ELSE <<SubSeq(text, 1, q - 1)>> \o f[k - q]
            /\ g[k] = IF q = 0 THEN <<text>> ELSE <<SubSeq(text, 1, q - 1)>> \o g[k - q]
        <4>1. text = From(w, m - k + 1)
          BY <2>3, <3>2
        <4>2. f[k] = PiecesAt(s, sep, f, k) /\ g[k] = PiecesAt(w, sep, g, k)
          BY <1>3, <2>2, <3>2, <3>3
        <4> QED
          BY <4>1, <4>2 DEF PiecesAt, n, m
      <3> HIDE DEF q, text
      <3>6. q # 0
        BY <3>2, <3>5
      <3>7. k - q \in 0..m /\ k - q \notin Bad
        <4> HIDE DEF Bad
        <4> QED
          BY <2>1, <3>1, <3>2, <3>4, <3>6
      <3>8. f[k - q] = g[k - q]
        BY <3>7
      <3> QED
        BY <3>2, <3>5, <3>8
    <2>5. m \in 0..m /\ m \notin Bad
      <3> HIDE DEF Bad
      <3> QED
        BY <2>1, <2>4
    <2>6. f[n - p] = Pieces(w, sep)
      BY <2>1, <2>2, <2>5
    <2> QED
      BY <1>4, <1>6, <2>6 DEF w
  <1> QED
    BY <1>5, <1>6

\* One element in front of a sequence.
LEMMA OneMore ==
    ASSUME NEW S, NEW b \in S, NEW q \in Seq(S), NEW s \in Seq(S), Len(s) = Len(q) + 1, s[1] = b,
           \A k \in 1..Len(q) : s[k + 1] = q[k]
    PROVE  s = <<b>> \o q
  <1> DEFINE a == <<b>>
             x == a \o q
             n == Len(q)
  <1>1. a \in Seq(S) /\ Len(a) = 1 /\ a[1] = b /\ n \in Nat
    BY LenProperties
  <1> HIDE DEF a
  <1>2. x \in Seq(S) /\ Len(x) = Len(a) + n
            /\ \A i \in 1..(Len(a) + n) : x[i] = IF i <= Len(a) THEN a[i] ELSE q[i - Len(a)]
    BY <1>1, ConcatProperties
  <1> HIDE DEF x
  <1>3. x \in Seq(S) /\ Len(x) = n + 1 /\ \A i \in 1..(n + 1) : x[i] = IF i <= 1 THEN a[i] ELSE q[i - 1]
    BY <1>1, <1>2
  <1>4. ASSUME NEW i \in 1..(n + 1) PROVE x[i] = s[i]
    <2>1. CASE i = 1
      BY <1>1, <1>3, <2>1
    <2>2. CASE i # 1
      <3>1. i - 1 \in 1..n /\ (i - 1) + 1 = i /\ ~(i <= 1)
        BY <1>1, <2>2
      <3> QED
        BY <1>3, <3>1
    <2> QED
      BY <2>1, <2>2
  <1>5. x = s
    BY <1>3, <1>4, SeqEqual
  <1> QED
    BY <1>5 DEF x, a

\* The pieces of a text that is put together from pieces.
LEMMA PiecesAre ==
    ASSUME NEW n \in Nat \ {0}, NEW B \in [1..n -> Seq(Alphabet)], NEW U \in [1..n -> Seq(Alphabet)],
           NEW sep \in Alphabet, \A i \in 1..n : Without(B[i], {sep}),
           U[n] = B[n], \A i \in 1..(n - 1) : U[i] = B[i] \o (<<sep>> \o U[i + 1])
    PROVE  Pieces(U[1], sep) = B
  <1> DEFINE W == Seq(Alphabet)
             T(j) == [k \in 1..(j + 1) |-> B[(n - j) + k - 1]]
             Bad == {j \in 0..(n - 1) : Pieces(U[n - j], sep) # T(j)}
  <1>1. ASSUME NEW j \in 0..(n - 1)
        PROVE  /\ T(j) \in Seq(W) /\ Len(T(j)) = j + 1
               /\ \A k \in 1..(j + 1) : T(j)[k] = B[(n - j) + k - 1]
    <2>1. \A k \in 1..(j + 1) : (n - j) + k - 1 \in 1..n
      OBVIOUS
    <2>2. T(j) \in [1..(j + 1) -> W]
      BY <2>1
    <2>3. j + 1 \in Nat /\ DOMAIN T(j) = 1..(j + 1) /\ \A k \in 1..(j + 1) : T(j)[k] = B[(n - j) + k - 1]
      OBVIOUS
    <2> HIDE DEF T, W
    <2>4. T(j) \in Seq(W)
      BY <2>2, <2>3, SeqDef
    <2>5. Len(T(j)) = j + 1
      BY <2>3, <2>4, LenProperties
    <2> QED
      BY <2>3, <2>4, <2>5
  <1>2. T(0) = <<B[n]>>
    <2> DEFINE x == <<B[n]>>
    <2>1. B[n] \in W
      OBVIOUS
    <2>2. x \in Seq(W) /\ Len(x) = 1 /\ x[1] = B[n]
      BY <2>1
    <2>3. 0 \in 0..(n - 1) /\ (n - 0) + 1 - 1 = n
      OBVIOUS
    <2>4. T(0) \in Seq(W) /\ Len(T(0)) = 0 + 1 /\ \A k \in 1..(0 + 1) : T(0)[k] = B[(n - 0) + k - 1]
      BY <1>1, <2>3
    <2>5. T(0)[1] = B[n]
      BY <2>3, <2>4
    <2> HIDE DEF T, W, x
    <2>6. \A k \in 1..1 : T(0)[k] = x[k]
      BY <2>2, <2>5
    <2>7. T(0) = x
      BY <2>2, <2>4, <2>6, SeqEqual
    <2> QED
      BY <2>7 DEF x
  <1>3. ASSUME Bad # {} PROVE FALSE
    <2>1. PICK j \in Bad : \A k \in Bad : j <= k
      <3>1. Bad \subseteq Nat
        OBVIOUS
      <3> HIDE DEF Bad
      <3> QED
        BY <1>3, <3>1, LeastOf
    <2>2. j \in 0..(n - 1) /\ Pieces(U[n - j], sep) # T(j)
      BY <2>1
    <2>3. CASE j = 0
      <3>1. n \in 1..n /\ n - 0 = n
        OBVIOUS
      <3>2. Place(B[n], sep) = 0 /\ B[n] \in Seq(Alphabet)
        BY <3>1, PlaceNone
      <3>3. Pieces(B[n], sep) = <<B[n]>>
        BY <3>2, PiecesFirst
      <3> HIDE DEF T
      <3> QED
        BY <1>2, <2>2, <2>3, <3>1, <3>3
    <2>4. CASE j # 0
      <3> DEFINE i == n - j
                 b == B[i]
                 w == U[i + 1]
                 s == U[i]
      <3>1. /\ i \in 1..(n - 1) /\ i \in 1..n /\ i + 1 \in 1..n /\ i + 1 = n - (j - 1)
            /\ j - 1 \in 0..(n - 1) /\ j - 1 < j
        BY <2>2, <2>4
      <3>2. Pieces(w, sep) = T(j - 1)
        <4>1. j - 1 \notin Bad
          <5> HIDE DEF Bad, i
          <5> QED
            BY <2>1, <2>2, <3>1
        <4> HIDE DEF T, i
        <4> QED
          BY <3>1, <4>1
      <3>3. /\ b \in Seq(Alphabet) /\ w \in Seq(Alphabet) /\ s \in Seq(Alphabet)
            /\ IsPiece(s, b, sep, w) /\ Without(b, {sep})
        BY <3>1 DEF IsPiece
      <3>4. T(j) = <<b>> \o T(j - 1)
        <4> HIDE DEF i
        <4>1. /\ T(j) \in Seq(W) /\ Len(T(j)) = j + 1
              /\ \A k \in 1..(j + 1) : T(j)[k] = B[(n - j) + k - 1]
          BY <1>1, <2>2
        <4>2. /\ T(j - 1) \in Seq(W) /\ Len(T(j - 1)) = (j - 1) + 1
              /\ \A k \in 1..((j - 1) + 1) : T(j - 1)[k] = B[(n - (j - 1)) + k - 1]
          BY <1>1, <3>1
        <4> HIDE DEF T
        <4>3. b \in W
          BY <3>3
        <4>4. (j - 1) + 1 = j /\ 1 \in 1..(j + 1) /\ (n - j) + 1 - 1 = i
          BY <2>2, <2>4 DEF i
        <4>5. Len(T(j)) = Len(T(j - 1)) + 1
          BY <4>1, <4>2, <4>4
        <4>6. T(j)[1] = b
          BY <4>1, <4>4
        <4>7. ASSUME NEW k \in 1..Len(T(j - 1)) PROVE T(j)[k + 1] = T(j - 1)[k]
          <5>1. k \in 1..((j - 1) + 1) /\ k + 1 \in 1..(j + 1) /\ (n - j) + (k + 1) - 1 = (n - (j - 1)) + k - 1
            BY <2>2, <4>2, <4>4
          <5> QED
            BY <4>1, <4>2, <5>1
        <4> HIDE DEF b, W
        <4> QED
          BY <4>1, <4>2, <4>3, <4>5, <4>6, <4>7, OneMore
      <3> HIDE DEF b, w, s, i, T
      <3>5. Place(s, sep) = Len(b) + 1 /\ SubSeq(s, 1, Len(b)) = b /\ From(s, Len(b) + 2) = w
        BY <3>3, PieceEnd
      <3>6. Len(b) \in Nat
        BY <3>3, LenProperties
      <3> DEFINE p == Place(s, sep)
      <3>7. p = Len(b) + 1
        BY <3>5
      <3>8. p # 0 => Pieces(s, sep) = <<SubSeq(s, 1, p - 1)>> \o Pieces(From(s, p + 1), sep)
        BY <3>3, PiecesFirst
      <3> HIDE DEF p
      <3>9. p # 0 /\ p - 1 = Len(b) /\ p + 1 = Len(b) + 2
        BY <3>6, <3>7
      <3>10. Pieces(s, sep) = <<b>> \o T(j - 1)
        BY <3>2, <3>5, <3>8, <3>9
      <3> QED
        BY <2>2, <3>4, <3>10 DEF s, i
    <2> QED
      BY <2>3, <2>4
  <1>4. n - 1 \in 0..(n - 1) /\ n - 1 \notin Bad
    <2> HIDE DEF Bad
    <2> QED
      BY <1>3
  <1>5. Pieces(U[n - (n - 1)], sep) = T(n - 1)
    <2> HIDE DEF T
    <2> QED
      BY <1>4
  <1>6. n - (n - 1) = 1 /\ (n - 1) + 1 = n
    OBVIOUS
  <1>7. T(n - 1) = B
    <2>1. T(n - 1) = [k \in 1..n |-> B[k]]
      <3>1. \A k \in 1..n : (n - (n - 1)) + k - 1 = k
        OBVIOUS
      <3> QED
        BY <1>6, <3>1
    <2>2. B = [k \in 1..n |-> B[k]]
      OBVIOUS
    <2> QED
      BY <2>1, <2>2
  <1> HIDE DEF T
  <1> QED
    BY <1>5, <1>6, <1>7

\* The text of a pair whose key has no '=': its key ends where it is written.
LEMMA KeyLengthIs ==
    ASSUME NEW s \in Seq(Alphabet)
    PROVE  KeyLength(s) = IF Place(s, EQUAL) = 0 THEN Len(s) ELSE Place(s, EQUAL) - 1
  <1>1. DOMAIN s = 1..Len(s)
    BY LenProperties
  <1>2. /\ Place(s, EQUAL) \in 0..Len(s)
        /\ Place(s, EQUAL) = 0 => \A k \in 1..Len(s) : s[k] # EQUAL
        /\ Place(s, EQUAL) > 0 => s[Place(s, EQUAL)] = EQUAL
    BY PlaceFirst
  <1> DEFINE p == Place(s, EQUAL)
  <1> HIDE DEF p
  <1>3. CASE p = 0
    <2>1. EQUAL \notin Range(s)
      BY <1>1, <1>2, <1>3 DEF Range, p
    <2> QED
      BY <1>3, <2>1 DEF KeyLength, p
  <1>4. CASE p # 0
    <2>1. p \in DOMAIN s /\ s[p] = EQUAL
      <3>1. p \in 0..Len(s) /\ (p > 0 => s[p] = EQUAL)
        BY <1>2 DEF p
      <3> QED
        BY <1>1, <1>4, <3>1
    <2>2. EQUAL \in Range(s)
      BY <2>1 DEF Range
    <2> QED
      BY <1>4, <2>2 DEF KeyLength, p
  <1> QED
    BY <1>3, <1>4

\* The text of a pair gives the pair.
LEMMA ItemIs ==
    ASSUME NEW c \in Pair, c.key # <<>>, c.value # <<>>,
           Without(c.key, {EQUAL}), Without(c.key, {Nul}), Without(c.value, {Nul}),
           NEW t, t = PairText(c)
    PROVE  t \in Seq(Alphabet) /\ KeyLength(t) # 0 /\ Item(t) = c
  <1> DEFINE k == c.key
             v == c.value
             n == Len(k)
             m == Len(t)
             l == KeyLength(t)
             front == SubSeq(t, 1, l)
             back == SubSeq(t, l + 2, m)
  <1>1. /\ k \in Seq(Alphabet) /\ v \in Seq(Alphabet) /\ c = [key |-> k, value |-> v]
        /\ k # <<>> /\ v # <<>> /\ Without(k, {EQUAL}) /\ Without(k, {Nul}) /\ Without(v, {Nul})
    BY DEF Pair
  <1>2. t \in Seq(Alphabet)
    BY PairTextTyped
  <1>3. t = k \o (IF v = NoValue THEN <<>> ELSE <<EQUAL>> \o v)
    BY DEF PairText
  <1>4. Item(t) = [key |-> CString(front), value |-> IF back = <<>> THEN NoValue ELSE CString(back)]
    BY DEF Item
  <1>5. EQUAL \in Alphabet
    BY AlphabetAssumption
  <1> HIDE DEF k, v
  <1>6. n \in Nat \ {0} /\ m \in Nat
    BY <1>1, <1>2, LenProperties, EmptySeq
  <1>7. CASE v = NoValue
    <2>1. t = k
      <3>1. t = k \o <<>>
        BY <1>3, <1>7
      <3> QED
        BY <1>1, <3>1, ConcatEmptySeq
    <2>2. Place(t, EQUAL) = 0
      BY <1>1, <2>1, PlaceNone
    <2>3. l = n
      BY <1>2, <2>1, <2>2, KeyLengthIs
    <2>4. front = k
      BY <1>1, <2>1, <2>3, SubSeqFull
    <2>5. back = <<>>
      <3>1. l + 2 \in Int /\ m \in Int /\ m < l + 2
        BY <1>6, <2>1, <2>3
      <3> QED
        BY <3>1, SubSeqEmpty
    <2> HIDE DEF front, back, l
    <2>6. CString(front) = k
      BY <1>1, <2>4, CStringWhole
    <2> QED
      BY <1>1, <1>2, <1>4, <1>6, <1>7, <2>3, <2>5, <2>6 DEF l
  <1>8. CASE v # NoValue
    <2>1. IsPiece(t, k, EQUAL, v)
      BY <1>3, <1>8 DEF IsPiece
    <2>2. Place(t, EQUAL) = n + 1 /\ SubSeq(t, 1, n) = k /\ From(t, n + 2) = v
      BY <1>1, <1>2, <1>5, <2>1, PieceEnd
    <2>3. l = n
      <3>1. l = IF Place(t, EQUAL) = 0 THEN m ELSE Place(t, EQUAL) - 1
        BY <1>2, KeyLengthIs
      <3> HIDE DEF l, n, m
      <3> QED
        BY <1>6, <2>2, <3>1
    <2>4. front = k /\ back = v
      BY <2>2, <2>3 DEF From
    <2> HIDE DEF front, back, l
    <2>5. CString(front) = k /\ CString(back) = v
      BY <1>1, <2>4, CStringWhole
    <2> QED
      BY <1>1, <1>2, <1>4, <1>6, <2>3, <2>4, <2>5 DEF l
  <1> QED
    BY <1>7, <1>8

\* Blanks in front of a text that does not begin with one.
LEMMA NoBlanksOf ==
    ASSUME NEW s \in Seq(Alphabet), NEW a \in 1..Len(s), s[a] # SP, \A i \in 1..(a - 1) : s[i] = SP
    PROVE  NoBlanks(s) = From(s, a)
  <1> DEFINE I == {i \in 1..Len(s) : s[i] # SP}
             k == IF I # {} THEN Min(I) ELSE 0
  <1>1. NoBlanks(s) = IF k = 0 THEN <<>> ELSE From(s, k)
    BY DEF NoBlanks, SelectInSeq
  <1>2. Len(s) \in Nat
    BY LenProperties
  <1>3. I \subseteq Nat /\ a \in I /\ \A i \in I : a <= i
    BY <1>2
  <1> HIDE DEF I
  <1>4. Min(I) \in I /\ \A i \in I : Min(I) <= i
    BY <1>3, MinLeast
  <1>5. k = a
    <2>1. Min(I) \in Nat /\ a \in Nat /\ a <= Min(I) /\ Min(I) <= a
      BY <1>3, <1>4
    <2>2. Min(I) = a
      BY <2>1
    <2>3. I # {}
      BY <1>3
    <2> QED
      BY <2>2, <2>3
  <1> HIDE DEF k
  <1> QED
    BY <1>1, <1>2, <1>5

\* The pieces of the pairs behind the first k, together.
PairsFrom(pairs, sep, k) == FlattenSeq([j \in 1..(Len(pairs) - k) |-> PairPiece(pairs, sep, k + j)])

\* One pair, and those behind it.
LEMMA PairsFromAre ==
    ASSUME NEW pairs \in Seq(Pair), NEW sep \in Seq(Alphabet), NEW k \in 0..Len(pairs)
    PROVE  /\ PairsFrom(pairs, sep, k) \in Seq(Alphabet)
           /\ k = 0 => Joined(pairs, sep) = PairsFrom(pairs, sep, k)
           /\ k = Len(pairs) => PairsFrom(pairs, sep, k) = <<>>
           /\ k < Len(pairs) => PairsFrom(pairs, sep, k) =
                  PairPiece(pairs, sep, k + 1) \o PairsFrom(pairs, sep, k + 1)
  <1> DEFINE n == Len(pairs)
             P(i) == PairPiece(pairs, sep, i)
             q(i) == [j \in 1..(n - i) |-> P(i + j)]
  <1>1. n \in Nat /\ DOMAIN pairs = 1..n
    BY LenProperties
  <1>2. \A i \in 1..n : P(i) \in Seq(Alphabet)
    <2> DEFINE x == [i \in DOMAIN pairs |-> PairPiece(pairs, sep, i)]
    <2>1. x \in Seq(Seq(Alphabet)) /\ Len(x) = n /\ \A i \in 1..n : x[i] = P(i)
      BY PairPieces
    <2> HIDE DEF x, P, n
    <2> QED
      BY <2>1, ElementOfSeq
  <1>3. Joined(pairs, sep) = FlattenSeq([i \in 1..n |-> P(i)])
    BY <1>1 DEF Joined, PairPiece
  <1>4. PairsFrom(pairs, sep, k) = FlattenSeq(q(k)) /\ PairsFrom(pairs, sep, k + 1) = FlattenSeq(q(k + 1))
    BY DEF PairsFrom
  <1> HIDE DEF P, n
  <1>5. ASSUME NEW i \in 0..n
        PROVE q(i) \in Seq(Seq(Alphabet)) /\ Len(q(i)) = n - i
                  /\ \A j \in 1..(n - i) : q(i)[j] = P(i + j)
    <2> DEFINE x == q(i)
               m == n - i
    <2>1. m \in Nat /\ \A j \in 1..m : i + j \in 1..n
      BY <1>1
    <2>2. \A j \in 1..m : x[j] = P(i + j)
      OBVIOUS
    <2>3. \A j \in 1..m : x[j] \in Seq(Alphabet)
      BY <1>2, <2>1, <2>2
    <2>4. x = [j \in 1..m |-> x[j]]
      OBVIOUS
    <2> HIDE DEF x, m
    <2>5. x \in Seq(Seq(Alphabet)) /\ Len(x) = m
      BY <2>1, <2>3, <2>4, TextsTyped
    <2> QED
      BY <2>2, <2>5 DEF x, m
  <1>6. PairsFrom(pairs, sep, k) \in Seq(Alphabet)
    <2>1. k \in 0..n
      BY DEF n
    <2>2. q(k) \in Seq(Seq(Alphabet))
      BY <1>5, <2>1
    <2> HIDE DEF q
    <2> QED
      BY <1>4, <2>2, FlattenTyped
  <1>7. k = 0 => Joined(pairs, sep) = PairsFrom(pairs, sep, k)
    <2>1. \A i \in 1..n : P(0 + i) = P(i)
      OBVIOUS
    <2>2. n - 0 = n
      BY <1>1
    <2>3. q(0) = [i \in 1..n |-> P(i)]
      BY <2>1, <2>2
    <2> QED
      BY <1>3, <1>4, <2>3
  <1>8. k = n => PairsFrom(pairs, sep, k) = <<>>
    <2> SUFFICES ASSUME k = n PROVE FlattenSeq(q(k)) = <<>>
      BY <1>4
    <2>1. q(k) \in Seq(Seq(Alphabet)) /\ Len(q(k)) = 0
      BY <1>1, <1>5
    <2> HIDE DEF q
    <2> QED
      BY <2>1, FlattenNone
  <1>9. k < n => PairsFrom(pairs, sep, k) = P(k + 1) \o PairsFrom(pairs, sep, k + 1)
    <2> SUFFICES ASSUME k < n PROVE FlattenSeq(q(k)) = P(k + 1) \o FlattenSeq(q(k + 1))
      BY <1>4
    <2>1. k \in 0..n /\ k + 1 \in 0..n /\ 1 \in 1..(n - k) /\ n - k = (n - (k + 1)) + 1
      BY <1>1 DEF n
    <2>2. q(k) \in Seq(Seq(Alphabet)) /\ Len(q(k)) = n - k /\ \A j \in 1..(n - k) : q(k)[j] = P(k + j)
      BY <1>5, <2>1
    <2>3. q(k + 1) \in Seq(Seq(Alphabet)) /\ Len(q(k + 1)) = n - (k + 1)
              /\ \A j \in 1..(n - (k + 1)) : q(k + 1)[j] = P((k + 1) + j)
      BY <1>5, <2>1
    <2> DEFINE a == q(k)
               b == q(k + 1)
    <2> HIDE DEF q
    <2>4. \A j \in 1..Len(b) : b[j] = a[j + 1]
      <3>1. ASSUME NEW j \in 1..(n - (k + 1)) PROVE j + 1 \in 1..(n - k) /\ (k + 1) + j = k + (j + 1)
        BY <1>1, <2>1
      <3> QED
        BY <2>2, <2>3, <3>1
    <2>5. a \in Seq(Seq(Alphabet)) /\ b \in Seq(Seq(Alphabet)) /\ Len(a) = Len(b) + 1
      BY <2>1, <2>2, <2>3
    <2>6. a[1] = P(k + 1)
      BY <2>1, <2>2
    <2> HIDE DEF a, b
    <2>7. FlattenSeq(a) = a[1] \o FlattenSeq(b)
      BY ONLY <2>4, <2>5, FlattenFirst
    <2> QED
      BY <2>6, <2>7 DEF a, b
  <1> QED
    BY <1>6, <1>7, <1>8, <1>9 DEF n, P

\* A text that begins with a byte that is no blank, behind a blank or not.
LEMMA NoBlanksText ==
    ASSUME NEW t \in Seq(Alphabet), Len(t) > 0, t[1] # SP
    PROVE  NoBlanks(<<>> \o t) = t /\ NoBlanks(<<SP>> \o t) = t
  <1> DEFINE c == <<SP>>
             s == c \o t
             n == Len(t)
  <1>1. n \in Nat /\ c \in Seq(Alphabet) /\ Len(c) = 1 /\ c[1] = SP
    BY LenProperties, BytesAre
  <1>2. NoBlanks(t) = From(t, 1)
    <2>1. 1 \in 1..Len(t) /\ \A i \in 1..(1 - 1) : t[i] = SP
      BY <1>1
    <2> QED
      BY <2>1, NoBlanksOf
  <1>3. From(t, 1) = t /\ <<>> \o t = t
    BY SubSeqFull, ConcatEmptySeq DEF From
  <1> HIDE DEF c
  <1>4. /\ s \in Seq(Alphabet) /\ Len(s) = 1 + n
        /\ \A i \in 1..(1 + n) : s[i] = IF i <= 1 THEN c[i] ELSE t[i - 1]
    <2>1. /\ s \in Seq(Alphabet) /\ Len(s) = Len(c) + n
          /\ \A i \in 1..(Len(c) + n) : s[i] = IF i <= Len(c) THEN c[i] ELSE t[i - Len(c)]
      BY <1>1, ConcatProperties
    <2> HIDE DEF s, n
    <2> QED
      BY <1>1, <2>1
  <1> HIDE DEF s
  <1>5. 2 \in 1..Len(s) /\ s[2] # SP /\ \A i \in 1..(2 - 1) : s[i] = SP
    <2>1. 1 \in 1..(1 + n) /\ 2 \in 1..(1 + n) /\ ~(2 <= 1) /\ 2 - 1 = 1 /\ \A i \in 1..1 : i = 1
      BY <1>1
    <2>2. s[1] = SP /\ s[2] = t[1]
      BY <1>1, <1>4, <2>1
    <2> QED
      BY <1>4, <2>1, <2>2
  <1>6. NoBlanks(s) = From(s, 2)
    BY <1>4, <1>5, NoBlanksOf
  <1>7. From(s, 2) = t
    <2> DEFINE w == From(s, 2)
    <2>1. w \in Seq(Alphabet) /\ Len(w) = n
      <3>1. Len(w) = IF 2 <= Len(s) THEN Len(s) - 2 + 1 ELSE 0
        BY <1>4, RestOf
      <3>2. w \in Seq(Alphabet)
        BY <1>4, RestOf
      <3> HIDE DEF w, n
      <3> QED
        BY <1>1, <1>4, <1>5, <3>1, <3>2
    <2>2. \A i \in 1..n : w[i] = s[i + 1]
      <3>1. Len(s) \in Int /\ \A i \in 2..Len(s) : s[i] \in Alphabet
        BY <1>1, <1>4, ElementOfSeq
      <3>2. \A i \in 1..(Len(s) - 2 + 1) : w[i] = s[2 + i - 1]
        BY <3>1, SubSeqProperties DEF From
      <3> HIDE DEF w, n
      <3>3. \A i \in 1..n : i \in 1..(Len(s) - 2 + 1) /\ 2 + i - 1 = i + 1
        BY <1>1, <1>4
      <3> QED
        BY <3>2, <3>3
    <2> HIDE DEF w
    <2>3. ASSUME NEW i \in 1..n PROVE w[i] = t[i]
      <3>1. i + 1 \in 1..(1 + n) /\ ~(i + 1 <= 1) /\ (i + 1) - 1 = i
        BY <1>1
      <3> QED
        BY <1>4, <2>2, <3>1
    <2>4. w = t
      BY <2>1, <2>3, SeqEqual
    <2> QED
      BY <2>4 DEF w
  <1> QED
    BY <1>2, <1>3, <1>6, <1>7 DEF s, c

\* The text of a pair begins with its key.
LEMMA PairTextFirst ==
    ASSUME NEW p \in Pair, p.key # <<>>
    PROVE  Len(PairText(p)) > 0 /\ PairText(p)[1] = p.key[1]
  <1> DEFINE k == p.key
             v == IF p.value = NoValue THEN <<>> ELSE <<EQUAL>> \o p.value
             t == k \o v
  <1>1. PairText(p) = t
    BY DEF PairText
  <1>2. k \in Seq(Alphabet) /\ p.value \in Seq(Alphabet) /\ k # <<>>
    BY DEF Pair
  <1>3. v \in Seq(Alphabet)
    BY <1>2, BytesAre, WordsJoin
  <1> HIDE DEF k, v
  <1>4. Len(k) \in Nat \ {0} /\ Len(v) \in Nat
    BY <1>2, <1>3, LenProperties, EmptySeq
  <1>5. Len(t) = Len(k) + Len(v) /\ \A i \in 1..(Len(k) + Len(v)) : t[i] = IF i <= Len(k) THEN k[i] ELSE v[i - Len(k)]
    BY <1>2, <1>3, ConcatProperties
  <1> HIDE DEF t
  <1>6. 1 \in 1..(Len(k) + Len(v)) /\ 1 <= Len(k)
    BY <1>4
  <1>7. Len(t) > 0 /\ t[1] = k[1]
    BY <1>4, <1>5, <1>6
  <1> QED
    BY <1>1, <1>7 DEF k

\* The blank of a separator belongs to the piece behind it.
LEMMA SeparatorIs ==
    ASSUME NEW t \in Seq(Alphabet)
    PROVE  <<SEMICOLON, SP>> \o t = <<SEMICOLON>> \o (<<SP>> \o t)
  <1>1. <<SEMICOLON>> \in Seq(Alphabet) /\ <<SP>> \in Seq(Alphabet)
    BY AlphabetAssumption
  <1>2. <<SEMICOLON, SP>> = <<SEMICOLON>> \o <<SP>>
    OBVIOUS
  <1> DEFINE a == <<SEMICOLON>>
             b == <<SP>>
  <1>3. a \in Seq(Alphabet) /\ b \in Seq(Alphabet)
    BY <1>1
  <1> HIDE DEF a, b
  <1>4. (a \o b) \o t = a \o (b \o t)
    BY <1>3, Assoc
  <1> QED
    BY <1>2, <1>4 DEF a, b

\* The cookies of a readable request are read from the text they are sent as.
LEMMA CookiesRead ==
    ASSUME NEW r \in Requests, Readable(r), r.cookies # <<>>
    PROVE  CookiesIn(Joined(r.cookies, <<SEMICOLON, SP>>)) = r.cookies
  <1> DEFINE c == r.cookies
             n == Len(c)
             sep == <<SEMICOLON, SP>>
             txt == [k \in 1..n |-> PairText(c[k])]
             L(k) == IF k = 1 THEN <<>> ELSE <<SP>>
             B == [k \in 1..n |-> L(k) \o txt[k]]
             R(k) == PairsFrom(c, sep, k)
             U == [k \in 1..n |-> B[k] \o R(k)]
  <1>1. c \in Seq(Pair) /\ c # <<>> /\ sep \in Seq(Alphabet) /\ SEMICOLON \in Alphabet
    BY PartsAre, BytesAre, AlphabetAssumption
  <1>2. n \in Nat \ {0} /\ DOMAIN c = 1..n /\ c = [k \in 1..n |-> c[k]]
    BY <1>1, LenProperties, EmptySeq
  <1>3. ASSUME NEW k \in 1..n
        PROVE  /\ c[k] \in Pair /\ c[k].key # <<>> /\ c[k].value # <<>>
               /\ Without(c[k].key, {SEMICOLON}) /\ Without(c[k].key, {EQUAL}) /\ Without(c[k].key, {SP})
               /\ Without(c[k].key, {Nul})
               /\ Without(c[k].value, {SEMICOLON}) /\ Without(c[k].value, {Nul})
    <2>1. c[k].key # <<>> /\ c[k].value # <<>>
          /\ Without(c[k].key, {SEMICOLON, EQUAL, SP, CR, Nul}) /\ Without(c[k].value, {SEMICOLON, CR, Nul})
      BY <1>2 DEF Readable
    <2>2. c[k] \in Pair
      BY <1>1, ElementOfSeq
    <2> HIDE DEF c
    <2> QED
      BY <2>1, <2>2, WithoutSmaller
  <1> HIDE DEF c
  <1>4. ASSUME NEW k \in 1..n
        PROVE  /\ txt[k] = PairText(c[k]) /\ txt[k] \in Seq(Alphabet) /\ Len(txt[k]) > 0 /\ txt[k][1] # SP
               /\ Without(txt[k], {SEMICOLON}) /\ KeyLength(txt[k]) # 0 /\ Item(txt[k]) = c[k]
    <2> DEFINE p == c[k]
               t == PairText(p)
    <2>1. /\ p \in Pair /\ p.key # <<>> /\ p.value # <<>>
          /\ Without(p.key, {SEMICOLON}) /\ Without(p.key, {EQUAL}) /\ Without(p.key, {SP}) /\ Without(p.key, {Nul})
          /\ Without(p.value, {SEMICOLON}) /\ Without(p.value, {Nul})
      BY <1>3
    <2>2. txt[k] = t
      OBVIOUS
    <2> HIDE DEF p
    <2>3. t \in Seq(Alphabet) /\ KeyLength(t) # 0 /\ Item(t) = p
      BY <2>1, ItemIs
    <2>4. Without(t, {SEMICOLON})
      <3>1. EQUAL \notin {SEMICOLON}
        BY DEF EQUAL, SEMICOLON
      <3> QED
        BY <2>1, <3>1, PairTextWithout
    <2>5. Len(t) > 0 /\ t[1] = p.key[1]
      BY <2>1, PairTextFirst
    <2>6. p.key[1] # SP
      <3>1. p.key \in Seq(Alphabet)
        BY <2>1 DEF Pair
      <3>2. 1 \in DOMAIN p.key
        BY <2>1, <3>1, LenProperties, EmptySeq
      <3> QED
        BY <2>1, <3>2 DEF Without
    <2> HIDE DEF t, txt
    <2> QED
      BY <2>2, <2>3, <2>4, <2>5, <2>6 DEF p, t
  <1> HIDE DEF txt, n
  <1>5. \A k \in 1..n : L(k) \in Seq(Alphabet) /\ Without(L(k), {SEMICOLON})
    <2>1. <<SP>> \in Seq(Alphabet) /\ <<>> \in Seq(Alphabet)
      BY BytesAre
    <2>2. Without(<<SP>>, {SEMICOLON}) /\ Without(<<>>, {SEMICOLON})
      <3>1. DOMAIN <<SP>> = {1} /\ <<SP>>[1] = SP
        OBVIOUS
      <3>2. SP # SEMICOLON
        BY DEF SP, SEMICOLON
      <3> QED
        BY <3>1, <3>2, WithoutEmpty DEF Without
    <2> QED
      BY <2>1, <2>2
  <1>6. ASSUME NEW k \in 1..n
        PROVE  B[k] = L(k) \o txt[k] /\ B[k] \in Seq(Alphabet) /\ Without(B[k], {SEMICOLON})
                /\ NoBlanks(B[k]) = txt[k]
    <2>1. B[k] = L(k) \o txt[k]
      OBVIOUS
    <2>2. NoBlanks(<<>> \o txt[k]) = txt[k] /\ NoBlanks(<<SP>> \o txt[k]) = txt[k]
      BY <1>4, NoBlanksText
    <2>3. NoBlanks(L(k) \o txt[k]) = txt[k]
      BY <2>2
    <2> HIDE DEF B, L
    <2>4. L(k) \o txt[k] \in Seq(Alphabet) /\ Without(L(k) \o txt[k], {SEMICOLON})
      BY <1>4, <1>5, WordsJoin, WithoutJoin
    <2> QED
      BY <2>1, <2>3, <2>4
  <1>7. B \in [1..n -> Seq(Alphabet)] /\ DOMAIN B = 1..n
    <2>1. B = [k \in 1..n |-> B[k]]
      OBVIOUS
    <2> HIDE DEF B
    <2> QED
      BY <1>6, <2>1
  <1>8. ASSUME NEW k \in 0..n
        PROVE  /\ R(k) \in Seq(Alphabet)
               /\ k = 0 => Joined(c, sep) = R(k)
               /\ k = n => R(k) = <<>>
               /\ k < n => R(k) = PairPiece(c, sep, k + 1) \o R(k + 1)
    <2> HIDE DEF sep
    <2> QED
      BY <1>1, PairsFromAre DEF n
  <1> HIDE DEF B
  <1>9. ASSUME NEW k \in 1..n PROVE U[k] = B[k] \o R(k) /\ U[k] \in Seq(Alphabet)
    <2>1. U[k] = B[k] \o R(k)
      OBVIOUS
    <2>2. R(k) \in Seq(Alphabet)
      <3>1. k \in 0..n
        BY <1>2
      <3> QED
        BY <1>8, <3>1
    <2> HIDE DEF U, R
    <2> QED
      BY <1>6, <2>1, <2>2, WordsJoin
  <1>10. U \in [1..n -> Seq(Alphabet)]
    <2>1. U = [k \in 1..n |-> U[k]]
      OBVIOUS
    <2> HIDE DEF U
    <2> QED
      BY <1>9, <2>1
  <1> HIDE DEF U, R
  <1>11. U[n] = B[n]
    <2>1. n \in 1..n /\ n \in 0..n
      BY <1>2
    <2>2. U[n] = B[n] \o R(n) /\ B[n] \in Seq(Alphabet)
      BY <1>6, <1>9, <2>1
    <2>3. R(n) = <<>>
      BY <1>8, <2>1
    <2>4. B[n] \o <<>> = B[n]
      BY ONLY <2>2, ConcatEmptySeq
    <2> QED
      BY <2>2, <2>3, <2>4
  <1>12. ASSUME NEW k \in 1..(n - 1) PROVE U[k] = B[k] \o (<<SEMICOLON>> \o U[k + 1])
    <2>1. k \in 1..n /\ k \in 0..n /\ k < n /\ k + 1 \in 1..n /\ k + 1 \in 0..n /\ k + 1 # 1
      BY <1>2
    <2> DEFINE b == B[k + 1]
               u == R(k + 1)
               s == <<SEMICOLON>>
    <2>2. b \in Seq(Alphabet) /\ u \in Seq(Alphabet) /\ s \in Seq(Alphabet)
      <3>1. b \in Seq(Alphabet)
        BY <1>6, <2>1
      <3>2. u \in Seq(Alphabet)
        BY <1>8, <2>1
      <3>3. s \in Seq(Alphabet)
        BY <1>1
      <3> QED
        BY <3>1, <3>2, <3>3
    <2>3. PairPiece(c, sep, k + 1) = s \o b
      <3>1. PairPiece(c, sep, k + 1) = sep \o txt[k + 1]
        BY <1>4, <2>1 DEF PairPiece
      <3>2. b = <<SP>> \o txt[k + 1]
        BY <1>6, <2>1
      <3>3. sep \o txt[k + 1] = <<SEMICOLON>> \o (<<SP>> \o txt[k + 1])
        BY <1>4, <2>1, SeparatorIs
      <3> QED
        BY <3>1, <3>2, <3>3
    <2>4. U[k + 1] = b \o u
      BY <1>9, <2>1
    <2>5. U[k] = B[k] \o (PairPiece(c, sep, k + 1) \o u)
      BY <1>8, <1>9, <2>1
    <2> HIDE DEF s, b, u
    <2>6. (s \o b) \o u = s \o (b \o u)
      BY <2>2, Assoc
    <2>7. U[k] = B[k] \o (s \o U[k + 1])
      BY <2>3, <2>4, <2>5, <2>6
    <2> QED
      BY <2>7 DEF s
  <1>13. U[1] = Joined(c, sep)
    <2>1. 1 \in 1..n /\ 0 \in 0..n /\ 0 < n /\ 0 + 1 = 1
      BY <1>2
    <2>2. PairPiece(c, sep, 1) = B[1]
      BY <1>4, <1>6, <2>1 DEF PairPiece
    <2>3. Joined(c, sep) = R(0) /\ R(0) = PairPiece(c, sep, 1) \o R(1)
      BY <1>8, <2>1
    <2>4. U[1] = B[1] \o R(1)
      BY <1>9, <2>1
    <2> QED
      BY <2>2, <2>3, <2>4
  <1>14. Pieces(U[1], SEMICOLON) = B
    <2>1. \A k \in 1..n : Without(B[k], {SEMICOLON})
      BY <1>6
    <2> QED
      BY <1>1, <1>2, <1>7, <1>10, <1>11, <1>12, <2>1, PiecesAre
  <1>15. CookiesIn(Joined(c, sep)) = Iterated(txt)
    <2>1. [k \in DOMAIN B |-> NoBlanks(B[k])] = [k \in 1..n |-> txt[k]]
      BY <1>6, <1>7
    <2>2. txt = [k \in 1..n |-> txt[k]]
      BY DEF txt
    <2> HIDE DEF sep
    <2> QED
      BY <1>13, <1>14, <2>1, <2>2 DEF CookiesIn
  <1>16. Len(txt) = n
    <2>1. txt = [k \in 1..n |-> txt[k]] /\ \A k \in 1..n : txt[k] \in Seq(Alphabet)
      <3>1. txt = [k \in 1..n |-> txt[k]]
        BY DEF txt
      <3> QED
        BY <1>4, <3>1
    <2> QED
      BY <1>2, <2>1, TextsTyped
  <1>17. Iterated(txt) = [k \in 1..n |-> Item(txt[k])]
    <2>1. \A k \in 1..n : KeyLength(txt[k]) # 0
      BY <1>4
    <2> QED
      BY <1>2, <1>16, <2>1, IteratedIs
  <1>18. [k \in 1..n |-> Item(txt[k])] = [k \in 1..n |-> c[k]]
    BY <1>4
  <1>19. Iterated(txt) = c
    BY <1>2, <1>17, <1>18
  <1> QED
    BY <1>15, <1>19 DEF c

-----------------------------------------------------------------------------
(***************************************************************************)
(* The invariant: k header lines were taken, and the text that was received *)
(* and what follows it are what was sent behind them.                      *)
(***************************************************************************)
\* What a failure leaves that counts as bytes: a part of the method, and
\* behind it anything but a CR.
Garbled ==
    \E m \in Nat : /\ Len(rest) <= m + 3
                   /\ \A i \in 1..Len(rest) : rest[i] # CR /\ (i <= m => rest[i] # SP)

\* What is left to read.  Nothing is said once the header is left.
Ahead(k) ==
    /\ rpc \in {"alloc", "first"} => k = 0 /\ input = Encoded(sent)
    /\ rpc = "more" => k = 0 /\ rest \o input = Encoded(sent) /\ Len(rest) \in 1..3
    /\ rpc = "line" => k = 0 /\ (rest \o input = Encoded(sent) \/ Garbled)
    /\ rpc \in {"header", "header_recv"} => rest = <<>> \/ rest \o input = After(sent, k)
    /\ rpc = "header_recv" => rest # <<>> /\ CrLfAt(rest, 1) = 0

\* ... with the lines that were taken, and the cookies once their line was.
HeaderAt(k) ==
    /\ k \in 0..Len(HeaderLines(sent))
    /\ lines = LinesTaken(k)
    /\ cookie_info = IF k = Len(HeaderLines(sent)) THEN sent.cookies ELSE <<>>
    /\ Ahead(k)

HeaderInv == ~crApart /\ Readable(sent) => \E k \in Nat : HeaderAt(k)

HeaderPCs == {"alloc", "first", "more", "line", "header", "header_recv"}

\* A step that leaves the reading of the header, or what was read of it.
LEMMA HeaderLeft ==
    ASSUME NEW k, HeaderAt(k), UNCHANGED <<sent, lines, cookie_info>>, rpc' \notin HeaderPCs
    PROVE  HeaderAt(k)'
  <1>1. LinesTaken(k)' = LinesTaken(k)
    BY DEF LinesTaken, HeaderLines, CookieLines
  <1>2. HeaderLines(sent)' = HeaderLines(sent)
    BY DEF HeaderLines, CookieLines
  <1>3. Ahead(k)'
    BY DEF Ahead, HeaderPCs
  <1> QED
    BY <1>1, <1>2, <1>3 DEF HeaderAt

\* A step that moves bytes only keeps what the invariant says of the header.
LEMMA HeaderKept ==
    ASSUME NEW k, HeaderAt(k), UNCHANGED <<sent, lines, cookie_info>>, Ahead(k)'
    PROVE  HeaderAt(k)'
  <1>1. LinesTaken(k)' = LinesTaken(k)
    BY DEF LinesTaken, HeaderLines, CookieLines
  <1>2. HeaderLines(sent)' = HeaderLines(sent)
    BY DEF HeaderLines, CookieLines
  <1> QED
    BY <1>1, <1>2 DEF HeaderAt

\* Nothing is taken yet.
LEMMA NoneTaken ==
    ASSUME NEW r \in Requests
    PROVE  /\ 0 \in 0..Len(HeaderLines(r)) /\ SubSeq(HeaderLines(r), 1, 0) = <<>>
           /\ <<>> = IF 0 = Len(HeaderLines(r)) THEN r.cookies ELSE <<>>
  <1>1. /\ Len(HeaderLines(r)) = Len(r.headers) + Len(CookieLines(r))
        /\ Len(r.headers) \in Nat /\ Len(HeaderLines(r)) \in Nat
    BY HeaderLinesAre
  <1>2. r.cookies # <<>> => Len(CookieLines(r)) = 1
    BY CookieLinesAre
  <1>3. Len(HeaderLines(r)) = 0 => r.cookies = <<>>
    <2> DEFINE a == Len(r.headers)
               b == Len(CookieLines(r))
               n == Len(HeaderLines(r))
    <2>1. n = a + b /\ a \in Nat
      BY <1>1
    <2>2. r.cookies # <<>> => b = 1
      BY <1>2
    <2> HIDE DEF a, b, n
    <2>3. r.cookies # <<>> => n # 0
      BY <2>1, <2>2
    <2> QED
      BY <2>3 DEF n
  <1>4. SubSeq(HeaderLines(r), 1, 0) = <<>>
    BY SubSeqEmpty
  <1> QED
    BY <1>1, <1>3, <1>4

\* A segment and what follows it.
LEMMA SegmentJoins ==
    ASSUME input \in Seq(Alphabet), NEW room \in Int, NEW k, k \in DOMAIN input, Arrive(room, k)
    PROVE  Segment(k) \o input' = input
  <1> DEFINE s == input
             a == SubSeq(s, 1, k)
             b == SubSeq(s, k + 1, Len(s))
             x == a \o b
  <1>1. input' = b /\ Segment(k) = a
    BY DEF Arrive, Segment
  <1>2. k \in 1..Len(s) /\ Len(s) \in Nat /\ \A i \in 1..Len(s) : s[i] \in Alphabet
    BY LenProperties, ElementOfSeq
  <1> HIDE DEF s
  <1>3. a \in Seq(Alphabet) /\ Len(a) = k /\ \A i \in 1..k : a[i] = s[i]
    BY <1>2, SubSeqProperties
  <1>4. b \in Seq(Alphabet) /\ Len(b) = Len(s) - k /\ \A i \in 1..(Len(s) - k) : b[i] = s[k + i]
    <2>1. /\ b \in Seq(Alphabet) /\ Len(b) = IF k + 1 <= Len(s) THEN Len(s) - (k + 1) + 1 ELSE 0
          /\ \A i \in 1..(Len(s) - (k + 1) + 1) : b[i] = s[(k + 1) + i - 1]
      <3>1. \A i \in (k + 1)..Len(s) : s[i] \in Alphabet
        BY <1>2
      <3> QED
        BY <1>2, <3>1, SubSeqProperties
    <2> HIDE DEF b
    <2>2. Len(s) - (k + 1) + 1 = Len(s) - k /\ \A i \in 1..(Len(s) - k) : (k + 1) + i - 1 = k + i
      BY <1>2
    <2>3. Len(b) = Len(s) - k
      BY <1>2, <2>1
    <2> QED
      BY <2>1, <2>2, <2>3
  <1> HIDE DEF a, b
  <1>5. x \in Seq(Alphabet) /\ Len(x) = Len(a) + Len(b)
            /\ \A i \in 1..(Len(a) + Len(b)) : x[i] = IF i <= Len(a) THEN a[i] ELSE b[i - Len(a)]
    <2>1. a \in Seq(Alphabet) /\ b \in Seq(Alphabet)
      BY <1>3, <1>4
    <2> QED
      BY ONLY <2>1, ConcatProperties
  <1> HIDE DEF x
  <1>6. Len(x) = Len(s) /\ \A i \in 1..Len(s) : x[i] = IF i <= k THEN a[i] ELSE b[i - k]
    <2>1. Len(a) = k /\ Len(a) + Len(b) = Len(s)
      BY <1>2, <1>3, <1>4
    <2> QED
      BY ONLY <1>5, <2>1
  <1>7. ASSUME NEW i \in 1..Len(s) PROVE x[i] = s[i]
    <2>1. CASE i <= k
      <3>1. i \in 1..k
        BY <2>1
      <3> QED
        BY <1>3, <1>6, <2>1, <3>1
    <2>2. CASE ~(i <= k)
      <3>1. i - k \in 1..(Len(s) - k) /\ k + (i - k) = i
        BY <1>2, <2>2
      <3> QED
        BY <1>4, <1>6, <2>2, <3>1
    <2> QED
      BY <2>1, <2>2
  <1>8. x = s
    <2>1. s \in Seq(Alphabet)
      BY DEF s
    <2> QED
      BY <1>5, <1>6, <1>7, <2>1, SeqEqual
  <1> QED
    BY <1>1, <1>8 DEF x, s

\* The steps that read the first bytes keep it.
LEMMA AllocKeepsHeader ==
    ASSUME NEW k, HeaderAt(k), AllocRequest
    PROVE  HeaderAt(k)'
  <1>1. UNCHANGED <<sent, input, lines, cookie_info, rest>> /\ rpc = "alloc" /\ rpc' \in {"first", "no_request"}
    BY DEF AllocRequest, connVars, formVars, fieldVars, lineVars, Goes
  <1>2. input = Encoded(sent) /\ k = 0
    BY <1>1 DEF HeaderAt, Ahead
  <1>3. Ahead(k)'
    BY <1>1, <1>2 DEF Ahead, Encoded, FirstLine, Target, HeaderLines, CookieLines
  <1> QED
    BY <1>1, <1>3, HeaderKept

LEMMA FirstKeepsHeader ==
    ASSUME Typed, NEW k, HeaderAt(k), FirstRecv
    PROVE  HeaderAt(k)'
  <1>1. UNCHANGED <<sent, lines, cookie_info>> /\ rpc = "first"
    BY DEF FirstRecv, lineVars, Arrive, Nothing, RecvFails
  <1>2. input \in Seq(Alphabet) /\ k = 0 /\ input = Encoded(sent)
    BY <1>1 DEF Typed, HeaderAt, Ahead
  <1>3. CASE rpc' = "read_end"
    BY <1>1, <1>3, HeaderLeft DEF HeaderPCs
  <1>4. ASSUME NEW j \in DOMAIN input, Arrive(buflen0, j), rest' = Segment(j),
               rpc' = (IF j < 4 THEN "more" ELSE "line")
        PROVE  HeaderAt(k)'
    <2>1. buflen0 \in Int
      BY Parameters
    <2>2. rest' \o input' = input
      BY <1>2, <1>4, <2>1, SegmentJoins
    <2>3. j \in Nat /\ 1 <= j /\ Len(rest') = j
      BY <1>2, <1>4, <2>1, Received
    <2>4. rest' \o input' = Encoded(sent)' /\ Encoded(sent)' = Encoded(sent')
      BY <1>1, <1>2, <2>2 DEF Encoded, FirstLine, Target, HeaderLines, CookieLines
    <2>5. Ahead(k)'
      <3>1. rpc' = "more" => Len(rest') \in 1..3
        BY <1>4, <2>3
      <3>2. rpc' \in {"more", "line"}
        BY <1>4
      <3> QED
        BY <1>2, <2>4, <3>1, <3>2 DEF Ahead
    <2> QED
      BY <1>1, <2>5, HeaderKept
  <1>5. \/ rpc' = "read_end"
        \/ \E j \in DOMAIN input : Arrive(buflen0, j) /\ rest' = Segment(j)
                              /\ rpc' = (IF j < 4 THEN "more" ELSE "line")
    BY DEF FirstRecv, Goes, ReadEnd
  <1> QED
    BY <1>3, <1>4, <1>5

\* The first bytes of a readable request: a part of its method.
LEMMA BeginsWithMethod ==
    ASSUME NEW r \in Requests, Readable(r), NEW s \in Seq(Alphabet), NEW t \in Seq(Alphabet),
           s \o t = Encoded(r), Len(s) <= 3
    PROVE  \A i \in 1..Len(s) : s[i] \notin {SP, CR}
  <1> DEFINE z == Start(r)
             w == r.version \o (CRLF \o After(r, 0))
  <1>1. PICK a \in Nat, u \in Nat :
           /\ z \in Seq(Alphabet) /\ Len(z) = a + u + 2 /\ a > 2
           /\ \A i \in 1..a : z[i] \notin {SP, CR, LF}
    BY StartIs
  <1>2. /\ Encoded(r) = z \o w /\ w \in Seq(Alphabet)
    BY StartIs, BytesAre, WordsJoin
  <1> HIDE DEF z, w
  <1>3. \A i \in 1..Len(z) : i <= Len(s) => s[i] = z[i]
    <2>1. s \o t = z \o w
      BY <1>2
    <2> QED
      BY <1>1, <1>2, <2>1, CutAt
  <1>4. ASSUME NEW i \in 1..Len(s) PROVE s[i] \notin {SP, CR}
    <2>1. Len(s) \in Nat
      BY LenProperties
    <2>2. i \in 1..Len(z) /\ i <= Len(s) /\ i \in 1..a
      BY <1>1, <2>1
    <2> QED
      BY <1>1, <1>3, <2>2
  <1> QED
    BY <1>4

\* Bytes of the method, and garbage behind them.
LEMMA GarbledIs ==
    ASSUME NEW s \in Seq(Alphabet), NEW g \in Garbage, Len(g) <= 3, \A i \in 1..Len(s) : s[i] \notin {SP, CR},
           rest' = s \o g
    PROVE  Garbled'
  <1>1. g \in Seq(Alphabet) /\ Len(g) \in Nat /\ Len(s) \in Nat
    BY GarbageIs, LenProperties
  <1>2. \A i \in 1..Len(g) : g[i] # CR
    <2> DEFINE G == {"x", SP, LF}
    <2>1. PICK n \in 0..3 : g \in [1..n -> G]
      BY DEF Garbage, BoundedSeq, SeqOf
    <2>2. Len(g) = n
      BY <2>1
    <2>3. CR \notin G
      BY DEF SP, LF, CR
    <2> HIDE DEF G
    <2> QED
      BY <2>1, <2>2, <2>3
  <1> DEFINE x == s \o g
             m == Len(s)
  <1>3. Len(x) = m + Len(g) /\ \A i \in 1..(m + Len(g)) : x[i] = IF i <= m THEN s[i] ELSE g[i - m]
    BY <1>1, ConcatProperties
  <1>4. rest' = x
    OBVIOUS
  <1>5. \A i \in 1..m : s[i] # SP /\ s[i] # CR
    OBVIOUS
  <1> HIDE DEF x, m
  <1>6. m \in Nat
    BY <1>1 DEF m
  <1>7. Len(x) <= m + 3
    BY <1>1, <1>3, <1>6
  <1>8. ASSUME NEW i \in 1..Len(x) PROVE x[i] # CR /\ (i <= m => x[i] # SP)
    <2>1. CASE i <= m
      <3>1. i \in 1..m /\ x[i] = s[i]
        BY <1>1, <1>3, <1>6, <2>1
      <3> QED
        BY <1>5, <3>1
    <2>2. CASE ~(i <= m)
      <3>1. i - m \in 1..Len(g) /\ x[i] = g[i - m]
        BY <1>1, <1>3, <1>6, <2>2
      <3> QED
        BY <1>2, <2>2, <3>1
    <2> QED
      BY <2>1, <2>2
  <1> QED
    BY <1>4, <1>6, <1>7, <1>8 DEF Garbled

\* What was sent stays, and its encoding.
LEMMA SentStays ==
    ASSUME UNCHANGED sent
    PROVE  /\ Encoded(sent)' = Encoded(sent) /\ (Readable(sent)' <=> Readable(sent))
           /\ HeaderLines(sent)' = HeaderLines(sent)
           /\ \A k : LinesTaken(k)' = LinesTaken(k) /\ After(sent, k)' = After(sent, k)
  BY DEF Encoded, FirstLine, Target, HeaderLines, CookieLines, Readable, LinesTaken, After, LinesFrom, FormText

\* Two segments and what follows them.
LEMMA SegmentFollows ==
    ASSUME input \in Seq(Alphabet), rest \in Seq(Alphabet),
           NEW room \in Int, NEW j, j \in DOMAIN input, Arrive(room, j)
    PROVE  /\ (rest \o Segment(j)) \o input' = rest \o input
           /\ rest \o Segment(j) \in Seq(Alphabet) /\ input' \in Seq(Alphabet)
           /\ Len(rest \o Segment(j)) = Len(rest) + j /\ j \in Nat /\ j > 0
  <1> DEFINE a == Segment(j)
             b == input'
             z == input
             s == rest
  <1>1. a \o b = z
    BY SegmentJoins
  <1>2. a \in Seq(Alphabet) /\ b \in Seq(Alphabet) /\ Len(a) = j /\ j \in Nat /\ 1 <= j
    BY Received
  <1>3. s \in Seq(Alphabet)
    OBVIOUS
  <1> HIDE DEF a, b, z, s
  <1>4. (s \o a) \o b = s \o (a \o b)
    BY <1>2, <1>3, Assoc
  <1>5. (s \o a) \o b = s \o z
    BY <1>1, <1>4
  <1>6. s \o a \in Seq(Alphabet) /\ Len(s \o a) = Len(s) + Len(a)
    BY <1>2, <1>3, Appended
  <1>7. Len(s \o a) = Len(s) + j /\ j > 0
    BY <1>2, <1>6
  <1> QED
    BY <1>2, <1>5, <1>6, <1>7 DEF a, b, z, s

\* The steps up to the end of the header, one by one.
LEMMA MoreKeepsHeader ==
    ASSUME Typed, sent \in Requests, Readable(sent), NEW k, HeaderAt(k), MoreRecv
    PROVE  HeaderAt(k)'
  <1>1. UNCHANGED <<sent, lines, cookie_info>> /\ rpc = "more"
    BY DEF MoreRecv, lineVars, Arrive, Nothing, RecvFails
  <1>2. /\ input \in Seq(Alphabet) /\ rest \in Seq(Alphabet)
        /\ k = 0 /\ rest \o input = Encoded(sent)
    BY <1>1 DEF Typed, HeaderAt, Ahead
  <1>7. Len(rest) \in 1..3
    BY <1>1 DEF HeaderAt, Ahead
  <1>8. Len(rest) \in Int /\ Len(rest) <= 3
    <2> DEFINE l == Len(rest)
    <2>1. l \in 1..3
      BY <1>7
    <2> HIDE DEF l
    <2>2. l \in Int /\ l <= 3
      BY <2>1
    <2> QED
      BY <2>2 DEF l
  <1>3. CASE rpc' = "read_end"
    BY <1>1, <1>3, HeaderLeft DEF HeaderPCs
  <1>4. ASSUME NEW j \in DOMAIN input, Arrive(buflen0 - Len(rest), j), rest' = rest \o Segment(j), rpc' = "line"
        PROVE  HeaderAt(k)'
    <2>1. buflen0 - Len(rest) \in Int
      BY <1>8, Parameters
    <2>2. rest' \o input' = rest \o input
      BY <1>2, <1>4, <2>1, SegmentFollows
    <2>3. (rest \o input = Encoded(sent))'
      BY <1>1, <1>2, <2>2, SentStays
    <2>4. Ahead(k)'
      BY <1>2, <1>4, <2>3 DEF Ahead
    <2> QED
      BY <1>1, <2>4, HeaderKept
  <1>5. ASSUME NEW kind \in Failures, NEW g \in Garbage, Len(g) <= Rrt[kind], rest' = rest \o g, rpc' = "line"
        PROVE  HeaderAt(k)'
    <2>1. Rrt[kind] \in 1..3
      BY DEF Rrt, Failures
    <2>2. Len(g) <= 3
      <3>1. Len(g) \in Nat
        BY GarbageIs
      <3> QED
        BY <1>5, <2>1, <3>1
    <2>3. \A i \in 1..Len(rest) : rest[i] \notin {SP, CR}
      BY <1>2, <1>8, BeginsWithMethod
    <2>4. Garbled'
      BY <1>2, <1>5, <2>2, <2>3, GarbledIs
    <2>5. Ahead(k)'
      BY <1>2, <1>5, <2>4 DEF Ahead
    <2> QED
      BY <1>1, <2>5, HeaderKept
  <1>6. \/ rpc' = "read_end"
        \/ \E j \in DOMAIN input : /\ Arrive(buflen0 - Len(rest), j) /\ rest' = rest \o Segment(j)
                                   /\ rpc' = "line"
        \/ \E kind \in Failures : \E g \in Garbage : Len(g) <= Rrt[kind] /\ rest' = rest \o g /\ rpc' = "line"
    BY DEF MoreRecv, Goes, ReadEnd
  <1> QED
    BY <1>3, <1>4, <1>5, <1>6

\* A header line that is read is the next one that was sent (read_http_header).
LEMMA LineKeepsHeader ==
    ASSUME Typed, sent \in Requests, Readable(sent), NEW k, HeaderAt(k), RequestLine
    PROVE  HeaderAt(k)'
  <1>1. UNCHANGED <<sent, lines, cookie_info>> /\ rpc = "line"
    BY DEF RequestLine, connVars
  <1>2. /\ input \in Seq(Alphabet) /\ rest \in Seq(Alphabet)
        /\ k = 0 /\ (rest \o input = Encoded(sent) \/ Garbled)
    BY <1>1 DEF Typed, HeaderAt, Ahead
  <1>3. CASE rpc' = "read_end"
    BY <1>1, <1>3, HeaderLeft DEF HeaderPCs
  <1>4. ASSUME rpc' = "header", (rest = <<>> \/ rest \o input = After(sent, k))'
        PROVE  HeaderAt(k)'
    BY <1>1, <1>4, HeaderKept DEF Ahead
  <1>5. CASE rest \o input = Encoded(sent)
    <2>1. rpc' = "read_end" \/ (rpc' = "header" /\ rest' \o input' = After(sent, 0))
      BY <1>2, <1>5, RequestLineWhole
    <2>2. After(sent, 0) = After(sent, k)'
      BY <1>1, <1>2, SentStays
    <2> QED
      BY <1>3, <1>4, <2>1, <2>2
  <1>6. CASE Garbled
    <2>1. rpc' = "read_end" \/ (rpc' = "header" /\ rest' = <<>>)
      BY <1>2, <1>6, RequestLineGarbled DEF Garbled
    <2> QED
      BY <1>3, <1>4, <2>1
  <1> QED
    BY <1>2, <1>5, <1>6

\* Behind the last header line an empty line comes.
LEMMA LastLineIs ==
    ASSUME NEW r \in Requests, NEW s \in Seq(Alphabet), NEW t \in Seq(Alphabet),
           s \o t = After(r, Len(HeaderLines(r)))
    PROVE  CrLfAt(s, 1) \in {0, 1}
  <1> DEFINE h == <<>>
             w == FormText(r)
  <1>1. h \in Seq(Alphabet) /\ Len(h) = 0 /\ w \in Seq(Alphabet) /\ Without(h, {CR})
    BY EmptySeq, FormTyped, WithoutEmpty
  <1>2. s \o t = CRLF \o w /\ CRLF \o w \in Seq(Alphabet)
    BY <1>1, AfterLast, BytesAre, WordsJoin
  <1>3. h \o (CRLF \o w) = CRLF \o w
    BY <1>2, ConcatEmptySeq
  <1>4. IsLine(s, t, h, w)
    BY <1>2, <1>3 DEF IsLine
  <1> HIDE DEF h, w
  <1>5. CrLfAt(s, 1) = 0 \/ CrLfAt(s, 1) = Len(h) + 1
    BY <1>1, <1>4, LineEndIs
  <1> QED
    BY <1>1, <1>5

\* A line that was begun and has no end yet holds no 0 byte.
LEMMA LineStarted ==
    ASSUME NEW r \in Requests, Readable(r), NEW k \in 0..Len(HeaderLines(r)),
           NEW s \in Seq(Alphabet), NEW t \in Seq(Alphabet), s \o t = After(r, k), CrLfAt(s, 1) = 0
    PROVE  Without(s, {Nul})
  <1> DEFINE n == Len(HeaderLines(r))
  <1>1. k \in Nat /\ n \in Nat
    BY HeaderLinesAre
  <1>2. CASE k = n
    <2> DEFINE h == <<>>
               w == FormText(r)
    <2>1. h \in Seq(Alphabet) /\ w \in Seq(Alphabet) /\ Without(h, {CR, Nul})
      BY EmptySeq, FormTyped, WithoutEmpty
    <2>2. s \o t = CRLF \o w /\ CRLF \o w \in Seq(Alphabet)
      BY <1>2, <2>1, AfterLast, BytesAre, WordsJoin
    <2>3. h \o (CRLF \o w) = CRLF \o w
      BY <2>2, ConcatEmptySeq
    <2>4. IsLine(s, t, h, w)
      BY <2>2, <2>3 DEF IsLine
    <2> HIDE DEF h, w
    <2> QED
      BY <2>1, <2>4, LineNotEnded
  <1>3. CASE k # n
    <2> DEFINE h == HeaderLines(r)[k + 1]
               x == HeaderText(h)
               w == After(r, k + 1)
    <2>1. k < n
      BY <1>1, <1>3
    <2>2. After(r, k) = x \o (CRLF \o w) /\ k + 1 \in 1..n /\ k + 1 \in 0..n
      BY <2>1, AfterNext
    <2>3. /\ h \in Pair /\ h.key # <<>> /\ Without(h.key, {COLON})
          /\ Without(h.key, {CR, Nul}) /\ Without(h.value, {CR, Nul})
      BY <2>2, HeaderReadable
    <2> HIDE DEF h
    <2>4. x \in Seq(Alphabet) /\ Without(x, {CR, Nul})
      BY <2>3, HeaderTextIs
    <2>5. w \in Seq(Alphabet)
      BY <2>2, AfterTyped
    <2> HIDE DEF x, w
    <2>6. IsLine(s, t, x, w)
      BY <2>2 DEF IsLine
    <2> QED
      BY <2>4, <2>5, <2>6, LineNotEnded
  <1> QED
    BY <1>2, <1>3

\* A line that is taken, with the end that was found in the text s.
LEMMA LineKeepsAt ==
    ASSUME sent \in Requests, Readable(sent), NEW k, HeaderAt(k), UNCHANGED sent,
           NEW s \in Seq(Alphabet), NEW t \in Seq(Alphabet), s \o t = After(sent, k), input' = t,
           CrLfAt(s, 1) \notin {0, 1}, TakeLine(s, CrLfAt(s, 1))
    PROVE  \E j \in Nat : HeaderAt(j)'
  <1> DEFINE n == Len(HeaderLines(sent))
             cookies == Joined(sent.cookies, <<SEMICOLON, SP>>)
  <1>1. /\ k \in 0..n /\ lines = LinesTaken(k) /\ n \in Nat
        /\ cookie_info = IF k = n THEN sent.cookies ELSE <<>>
    BY HeaderLinesAre DEF HeaderAt
  <1>2. k # n
    BY LastLineIs
  <1>3. k < n /\ k \in Nat
    BY <1>1, <1>2
  <1>4. \/ rpc' = "read_end" /\ UNCHANGED <<lines, cookie_info>>
        \/ /\ rpc' = "header" /\ lines' = LinesTaken(k + 1) /\ rest' \o t = After(sent, k + 1)
           /\ \/ k + 1 <= Len(sent.headers) /\ UNCHANGED cookie_info
              \/ /\ k + 1 > Len(sent.headers) /\ k + 1 = n /\ sent.cookies # <<>>
                 /\ cookie_info' = CookiesFrom(cookies)
    BY <1>1, <1>3, LineRead
  <1>5. CASE rpc' = "read_end" /\ UNCHANGED <<lines, cookie_info>>
    BY <1>3, <1>5, HeaderLeft DEF HeaderPCs
  <1>6. CASE /\ rpc' = "header" /\ lines' = LinesTaken(k + 1) /\ rest' \o t = After(sent, k + 1)
             /\ \/ k + 1 <= Len(sent.headers) /\ UNCHANGED cookie_info
                \/ /\ k + 1 > Len(sent.headers) /\ k + 1 = n /\ sent.cookies # <<>>
                   /\ cookie_info' = CookiesFrom(cookies)
    <2> DEFINE j == k + 1
    <2>1. j \in Nat /\ j \in 0..n
      BY <1>1, <1>3
    <2>2. cookie_info' = IF j = n THEN sent.cookies ELSE <<>>
      <3>1. CASE j > Len(sent.headers) /\ j = n /\ sent.cookies # <<>> /\ cookie_info' = CookiesFrom(cookies)
        <4>1. CookiesIn(cookies) = sent.cookies
          BY <3>1, CookiesRead
        <4> QED
          BY <3>1, <4>1 DEF CookiesFrom
      <3>2. CASE j <= Len(sent.headers) /\ UNCHANGED cookie_info
        <4>1. cookie_info' = <<>>
          BY <1>1, <1>2, <3>2
        <4>2. j = n => sent.cookies = <<>>
          <5> DEFINE a == Len(sent.headers)
                     b == Len(CookieLines(sent))
          <5>1. n = a + b /\ a \in Nat
            BY HeaderLinesAre
          <5>2. sent.cookies # <<>> => b = 1
            BY CookieLinesAre
          <5>3. j <= a
            BY <3>2
          <5> HIDE DEF a, b, n, j
          <5>4. j = n => b # 1
            BY <2>1, <5>1, <5>3
          <5> QED
            BY <5>2, <5>4
        <4> QED
          BY <4>1, <4>2
      <3> QED
        BY <1>6, <3>1, <3>2
    <2>3. /\ n' = n /\ lines' = LinesTaken(j)' /\ (sent.cookies)' = sent.cookies
          /\ (rest \o input = After(sent, j))'
      <3>1. HeaderLines(sent)' = HeaderLines(sent) /\ LinesTaken(j)' = LinesTaken(j)
                /\ After(sent, j)' = After(sent, j)
        BY SentStays
      <3> QED
        BY <1>6, <3>1
    <2>4. Ahead(j)'
      BY <1>6, <2>3 DEF Ahead
    <2>5. HeaderAt(j)'
      BY <2>1, <2>2, <2>3, <2>4 DEF HeaderAt
    <2> QED
      BY <2>1, <2>5
  <1> QED
    BY <1>4, <1>5, <1>6

\* A line that is in the buffer, or its end that comes in one more segment:
\* had it begun in the buffer, its CR would have been the last byte there.
LEMMA NextLineKeepsHeader ==
    ASSUME Typed, sent \in Requests, Readable(sent), NEW k \in Nat, HeaderAt(k), NextLine
    PROVE  \E j \in Nat : HeaderAt(j)'
  <1> DEFINE p == CrLfAt(rest, 1)
  <1>1. UNCHANGED <<sent, input>> /\ rpc = "header"
    BY DEF NextLine, connVars
  <1>2. /\ input \in Seq(Alphabet) /\ rest \in Seq(Alphabet)
        /\ rest = <<>> \/ rest \o input = After(sent, k)
    BY <1>1 DEF Typed, HeaderAt, Ahead
  <1>3. CASE rpc' = "post" /\ UNCHANGED <<lines, cookie_info>>
    <2>1. HeaderAt(k)'
      BY <1>1, <1>3, HeaderLeft DEF HeaderPCs
    <2> QED
      BY <2>1
  <1>4. CASE ~NoText /\ p = 0 /\ rpc' = "header_recv" /\ UNCHANGED <<lines, cookie_info, rest>>
    <2>3. rest # <<>>
      BY <1>4 DEF NoText
    <2>1. After(sent, k)' = After(sent, k)
      BY <1>1, SentStays
    <2>2. Ahead(k)'
      BY <1>1, <1>2, <1>4, <2>1, <2>3 DEF Ahead
    <2>4. HeaderAt(k)'
      BY <1>1, <1>4, <2>2, HeaderKept
    <2> QED
      BY <2>4
  <1>5. CASE p > 1 /\ TakeLine(rest, p)
    <2>1. rest # <<>>
      <3>1. p \in 1..(Len(rest) - 1)
        <4>1. 1 \in Nat \ {0} /\ p # 0
          BY <1>5
        <4> QED
          BY <1>2, <4>1, CrLfFirst
      <3> QED
        BY <3>1, EmptySeq
    <2>2. rest \o input = After(sent, k) /\ p \notin {0, 1}
      BY <1>2, <1>5, <2>1
    <2> QED
      BY <1>1, <1>2, <1>5, <2>2, LineKeepsAt
  <1>6. \/ rpc' = "post" /\ UNCHANGED <<lines, cookie_info>>
        \/ ~NoText /\ p = 0 /\ rpc' = "header_recv" /\ UNCHANGED <<lines, cookie_info, rest>>
        \/ p > 1 /\ TakeLine(rest, p)
    BY DEF NextLine, Goes
  <1> QED
    BY <1>3, <1>4, <1>5, <1>6

\* A header line that needs more bytes loses none of them.
LEMMA LineRecvKeepsHeader ==
    ASSUME Typed, sent \in Requests, Readable(sent), NEW k \in Nat, HeaderAt(k), LineRecv, ~crApart'
    PROVE  \E j \in Nat : HeaderAt(j)'
  <1>1. UNCHANGED sent /\ rpc = "header_recv"
    BY DEF LineRecv, Arrive, Nothing, RecvFails
  <1>2. /\ input \in Seq(Alphabet) /\ rest \in Seq(Alphabet) /\ rest # <<>>
        /\ rest \o input = After(sent, k) /\ CrLfAt(rest, 1) = 0
    BY <1>1 DEF Typed, HeaderAt, Ahead
  <1>3. CASE rpc' = "read_end" /\ UNCHANGED <<lines, cookie_info>>
    <2>1. HeaderAt(k)'
      BY <1>1, <1>3, HeaderLeft DEF HeaderPCs
    <2> QED
      BY <2>1
  <1>4. ASSUME NEW i \in DOMAIN input, Arrive(buflen0 - Len(rest), i), Last(rest) # CR,
               CrLfAt(rest \o Segment(i), Len(rest) + 1) > 0,
               TakeLine(rest \o Segment(i), CrLfAt(rest \o Segment(i), Len(rest) + 1))
        PROVE  \E j \in Nat : HeaderAt(j)'
    <2> DEFINE s == rest \o Segment(i)
               a == Len(rest)
               p == CrLfAt(s, a + 1)
    <2>1. a \in Nat /\ a > 0
      BY <1>2, EmptySeq, LenProperties
    <2>2. buflen0 - a \in Int
      BY <2>1, Parameters
    <2>3. s \o input' = After(sent, k) /\ s \in Seq(Alphabet) /\ input' \in Seq(Alphabet)
      BY <1>2, <1>4, <2>2, SegmentFollows
    <2>4. p = CrLfAt(s, 1)
      <3>1. Segment(i) \in Seq(Alphabet)
        BY <1>2, <1>4, <2>2, Received
      <3>2. Without(rest, {Nul})
        BY <1>2, LineStarted DEF HeaderAt
      <3> QED
        BY <1>2, <1>4, <2>1, <3>1, <3>2, LineEndLater
    <2>5. p > 0 /\ TakeLine(s, p)
      BY <1>4
    <2> HIDE DEF s
    <2>6. p \in Ends(s, a + 1)
      <3>1. a + 1 \in Nat \ {0} /\ p # 0
        BY <2>1, <2>5
      <3> QED
        BY <2>3, <3>1, CrLfFirst
    <2>7. p \notin {0, 1}
      <3>1. p \in (a + 1)..(Len(s) - 1)
        BY <2>6 DEF Ends
      <3> HIDE DEF p, a
      <3> QED
        BY <2>1, <3>1
    <2> HIDE DEF p, a
    <2>8. CrLfAt(s, 1) \notin {0, 1} /\ TakeLine(s, CrLfAt(s, 1))
      BY <2>4, <2>5, <2>7
    <2> QED
      BY <1>1, <2>3, <2>8, LineKeepsAt
  <1>5. \/ rpc' = "read_end" /\ UNCHANGED <<lines, cookie_info>>
        \/ \E i \in DOMAIN input :
              /\ Arrive(buflen0 - Len(rest), i) /\ crApart' = (crApart \/ Last(rest) = CR)
              /\ CrLfAt(rest \o Segment(i), Len(rest) + 1) > 0
              /\ TakeLine(rest \o Segment(i), CrLfAt(rest \o Segment(i), Len(rest) + 1))
    BY DEF LineRecv, ReadEnd
  <1> QED
    BY <1>3, <1>4, <1>5

\* What comes after the header leaves its lines alone.
LEMMA BehindHeader ==
    ASSUME ReadStep
    PROVE  \/ AllocRequest \/ FirstRecv \/ MoreRecv \/ RequestLine \/ NextLine \/ LineRecv
           \/ rpc' \notin HeaderPCs /\ UNCHANGED <<lines, cookie_info>>
  <1> USE DEF HeaderPCs, Goes, ReadEnd, lineVars
  <1>1. ASSUME PostNoMemory \/ PostInfo \/ NoPost \/ ReadReturns \/ NullRequest \/ Drain
        PROVE  rpc' \notin HeaderPCs /\ UNCHANGED <<lines, cookie_info>>
    BY <1>1 DEF PostNoMemory, PostInfo, NoPost, ReadReturns, NullRequest, Drain
  <1>2. ASSUME FormMore, rpc \notin HeaderPCs PROVE rpc' \notin HeaderPCs
    BY <1>2 DEF FormMore
  <1>3. FormKey \/ FormValue => rpc' \notin HeaderPCs
    BY <1>2 DEF FormKey, FormValue
  <1>4. FormStart \/ FormNoMemory \/ FormFirst \/ FormLoop \/ FormRest \/ FormEnd \/ ThrowAway(LineBuf)
          => rpc' \notin HeaderPCs
    BY DEF FormStart, FormNoMemory, FormFirst, FormLoop, FormRest, FormEnd, ThrowAway
  <1> QED
    BY <1>1, <1>3, <1>4 DEF ReadStep, FormStep

\* Every step of the reading keeps the invariant.
LEMMA HeaderKeeps ==
    ASSUME RequestTypes, HeaderInv, ReadStep
    PROVE  HeaderInv'
  <1>1. Typed /\ sent \in Requests /\ crApart \in BOOLEAN
    BY DEF RequestTypes, ReadInv, Coming, Flags
  <1>2. sent' = sent
    BY StepReceives DEF Receives, connVars, Arrive, Nothing, RecvFails
  <1>3. ~crApart' => ~crApart
    <2>1. crApart' = crApart \/ crApart' = (crApart \/ Last(rest) = CR)
      BY StepLineFlags, Zenon DEF LineFlags
    <2> QED
      BY <1>1, <2>1, Zenon
  <1>4. Readable(sent)' <=> Readable(sent)
    BY <1>2, SentStays
  <1>5. ASSUME ~crApart', Readable(sent) PROVE \E j \in Nat : HeaderAt(j)'
    <2>1. PICK k \in Nat : HeaderAt(k)
      BY <1>3, <1>5, Zenon DEF HeaderInv
    <2>2. ASSUME HeaderAt(k)' PROVE \E j \in Nat : HeaderAt(j)'
      BY <2>1, <2>2
    <2>3. CASE AllocRequest
      BY <2>1, <2>2, <2>3, AllocKeepsHeader
    <2>4. CASE FirstRecv
      BY <1>1, <2>1, <2>2, <2>4, FirstKeepsHeader
    <2>5. CASE MoreRecv
      BY <1>1, <1>5, <2>1, <2>2, <2>5, MoreKeepsHeader
    <2>6. CASE RequestLine
      BY <1>1, <1>5, <2>1, <2>2, <2>6, LineKeepsHeader
    <2>7. CASE NextLine
      BY <1>1, <1>5, <2>1, <2>7, NextLineKeepsHeader
    <2>8. CASE LineRecv
      BY <1>1, <1>5, <2>1, <2>8, LineRecvKeepsHeader
    <2>9. CASE rpc' \notin HeaderPCs /\ UNCHANGED <<lines, cookie_info>>
      BY <1>2, <2>1, <2>2, <2>9, HeaderLeft
    <2> QED
      BY <2>3, <2>4, <2>5, <2>6, <2>7, <2>8, <2>9, BehindHeader
  <1> QED
    BY <1>4, <1>5, Zenon DEF HeaderInv

\* The invariant of the header holds at the start.
LEMMA HeaderStart ==
    ASSUME RequestInit
    PROVE  HeaderInv
  <1>1. /\ rpc = "alloc" /\ sent \in Requests /\ input = Encoded(sent) /\ lines = <<>> /\ cookie_info = <<>>
    BY DEF RequestInit, ConnInit, LinesInit
  <1>2. Ahead(0)
    BY <1>1 DEF Ahead
  <1>3. HeaderAt(0)
    BY <1>1, <1>2, NoneTaken DEF HeaderAt, LinesTaken
  <1> QED
    BY <1>3 DEF HeaderInv

\* Behind the header, and with nothing taken.
LEMMA HeaderDropped ==
    ASSUME sent' \in Requests, lines' = <<>>, cookie_info' = <<>>, rpc' \notin HeaderPCs
    PROVE  HeaderInv'
  <1>1. Ahead(0)'
    BY DEF Ahead, HeaderPCs
  <1>2. /\ 0 \in 0..Len(HeaderLines(sent'))
        /\ SubSeq(HeaderLines(sent'), 1, 0) = <<>>
        /\ <<>> = IF 0 = Len(HeaderLines(sent')) THEN sent'.cookies ELSE <<>>
    BY NoneTaken
  <1>3. HeaderLines(sent)' = HeaderLines(sent')
    BY DEF HeaderLines, CookieLines
  <1>4. HeaderAt(0)'
    BY <1>1, <1>2, <1>3 DEF HeaderAt, LinesTaken
  <1> QED
    BY <1>4 DEF HeaderInv

\* The invariant does not look at what else a thread does.
LEMMA HeaderRests ==
    ASSUME HeaderInv, UNCHANGED <<sent, input, rest, lines, cookie_info, crApart>>,
           rpc' = rpc \/ rpc' \notin HeaderPCs
    PROVE  HeaderInv'
  <1>1. ASSUME NEW k \in Nat, HeaderAt(k) PROVE HeaderAt(k)'
    <2>1. CASE rpc' \notin HeaderPCs
      BY <1>1, <2>1, HeaderLeft
    <2>2. CASE rpc' = rpc
      <3>1. Encoded(sent)' = Encoded(sent) /\ After(sent, k)' = After(sent, k)
        BY SentStays
      <3>2. Garbled => Garbled'
        BY DEF Garbled
      <3>3. CrLfAt(rest, 1)' = CrLfAt(rest, 1)
        BY DEF CrLfAt
      <3>4. Ahead(k)'
        BY <1>1, <2>2, <3>1, <3>2, <3>3 DEF HeaderAt, Ahead
      <3> QED
        BY <1>1, <3>4, HeaderKept
    <2> QED
      BY <2>1, <2>2
  <1>2. ~crApart' /\ Readable(sent)' => ~crApart /\ Readable(sent)
    <2>1. Readable(sent)' <=> Readable(sent)
      BY SentStays
    <2>2. crApart' = crApart
      OBVIOUS
    <2>3. ~crApart' => ~crApart
      BY ONLY <2>2
    <2> QED
      BY ONLY <2>1, <2>3, Zenon
  <1> QED
    BY <1>1, <1>2, Zenon DEF HeaderInv

\* The lines taken are all lines exactly when their number is that of all.
LEMMA HeadersFromInv ==
    ASSUME sent \in Requests, HeaderInv
    PROVE  HeadersIntact
  <1>1. ASSUME NEW k \in Nat, HeaderAt(k)
        PROVE  /\ IsPrefix(lines, HeaderLines(sent))
               /\ cookie_info = IF lines = HeaderLines(sent) THEN sent.cookies ELSE <<>>
    <2> DEFINE q == HeaderLines(sent)
               n == Len(q)
               a == LinesTaken(k)
    <2>1. /\ k \in 0..n /\ lines = a /\ cookie_info = IF k = n THEN sent.cookies ELSE <<>>
          /\ n \in Nat /\ q \in Seq(Pair)
      BY <1>1, HeaderLinesAre DEF HeaderAt
    <2>2. a = SubSeq(q, 1, k)
      BY DEF LinesTaken
    <2> HIDE DEF q, a
    <2>3. a \in Seq(Pair) /\ Len(a) = k /\ \A i \in 1..k : a[i] = q[i]
      BY <2>1, <2>2, SubSeqProperties
    <2>4. IsPrefix(a, q)
      BY <2>1, <2>3 DEF IsPrefix
    <2>5. a = q <=> k = n
      <3>1. a = q => k = n
        BY <2>3
      <3>2. k = n => a = q
        <4>1. ASSUME k = n PROVE a = q
          BY <2>1, <2>3, <4>1, SeqEqual
        <4> QED
          BY <4>1
      <3> QED
        BY <3>1, <3>2
    <2> QED
      BY <2>1, <2>4, <2>5 DEF q, a
  <1> QED
    BY <1>1, Zenon DEF HeaderInv, HeadersIntact

-----------------------------------------------------------------------------
(***************************************************************************)
(* How much is left of a request: of the form no more than was sent of it, *)
(* once an empty line was met, even when lines were merged before.         *)
(***************************************************************************)
\* A text and what follows it begin with a header line of r, or its empty
\* line, or are not more than the form.
Left(r, s, t) ==
    \/ \E k \in 0..Len(HeaderLines(r)) : s \o t = After(r, k)
    \/ Len(s) + Len(t) <= Len(FormText(r))

\* The end of a line is two bytes.
LEMMA TwoMore ==
    ASSUME NEW e \in Seq(Alphabet), NEW w \in Seq(Alphabet), Len(e) = 2
    PROVE  Len(e \o w) = 2 + Len(w) /\ Len(w) \in Nat
  <1>1. Len(e \o w) = Len(e) + Len(w) /\ Len(w) \in Nat
    BY Appended
  <1>2. Len(e) + Len(w) = 2 + Len(w)
    OBVIOUS
  <1> QED
    BY <1>1, <1>2

\* Behind the last line there is the form.
LEMMA LeftBehindLast ==
    ASSUME NEW r \in Requests, NEW s \in Seq(Alphabet), NEW t \in Seq(Alphabet),
           s \o t = After(r, Len(HeaderLines(r))), NEW p \in Ends(s, 1)
    PROVE  Len(From(s, p + 2)) + Len(t) <= Len(FormText(r))
  <1> DEFINE e == CRLF
             w == FormText(r)
             n == Len(s)
             u == From(s, p + 2)
  <1>1. s \o t = e \o w /\ e \in Seq(Alphabet) /\ Len(e) = 2 /\ w \in Seq(Alphabet)
    BY AfterLast, FormTyped, BytesAre
  <1>2. p \in 1..(n - 1)
    BY DEF Ends
  <1> HIDE DEF e, w
  <1>3. n + Len(t) = 2 + Len(w) /\ n \in Nat /\ Len(t) \in Nat /\ Len(w) \in Nat
    <2>1. Len(s \o t) = n + Len(t) /\ n \in Nat /\ Len(t) \in Nat
      <3>1. s \in Seq(Alphabet) /\ t \in Seq(Alphabet)
        OBVIOUS
      <3> QED
        BY <3>1, Appended
    <2> HIDE DEF u, n
    <2>2. Len(e \o w) = 2 + Len(w) /\ Len(w) \in Nat
      BY <1>1, TwoMore
    <2> QED
      BY <1>1, <2>1, <2>2
  <1>4. p + 2 \in Nat \ {0} /\ p + 2 <= n + 1
    BY <1>2, <1>3
  <1>5. Len(u) = n - p - 1
    <2>1. Len(u) = IF p + 2 <= n THEN n - (p + 2) + 1 ELSE 0
      BY <1>4, RestOf
    <2> HIDE DEF u, n
    <2> QED
      BY <1>2, <1>3, <1>4, <2>1
  <1> HIDE DEF u, n
  <1> QED
    BY <1>2, <1>3, <1>5 DEF u, w

\* The end of a line is that of the first one, of m bytes, or one of what
\* follows it.
EndsBehind(s, t, m, w, p) ==
    /\ p > m
    /\ \/ p = m + 1 /\ From(s, p + 2) \o t = w
       \/ /\ From(s, m + 3) \in Seq(Alphabet) /\ From(s, m + 3) \o t = w
          /\ p - (m + 2) \in Ends(From(s, m + 3), 1)
          /\ From(From(s, m + 3), (p - (m + 2)) + 2) = From(s, p + 2)

\* One line in front: its end, or one that comes later.
LEMMA LeftBehindLine ==
    ASSUME NEW s \in Seq(Alphabet), NEW t \in Seq(Alphabet), NEW h \in Seq(Alphabet), NEW w \in Seq(Alphabet),
           IsLine(s, t, h, w), Without(h, {CR}), NEW p \in Ends(s, 1)
    PROVE  EndsBehind(s, t, Len(h), w, p)
  <1> DEFINE e == CRLF
             z == h \o e
             m == Len(h)
             n == Len(s)
             u == From(s, m + 3)
  <1>1. e \in Seq(Alphabet) /\ Len(e) = 2 /\ e[1] = CR /\ e[2] = LF /\ CR # LF
    BY BytesAre DEF CR, LF
  <1>2. m \in Nat /\ n \in Nat /\ DOMAIN h = 1..m /\ p \in 1..(n - 1) /\ s[p] = CR /\ s[p + 1] = LF
    BY LenProperties DEF Ends
  <1> HIDE DEF e
  <1>3. s \o t = z \o w
    BY <1>1, Assoc DEF e, IsLine
  <1>4. /\ z \in Seq(Alphabet) /\ Len(z) = m + 2
        /\ \A i \in 1..(m + 2) : z[i] = IF i <= m THEN h[i] ELSE e[i - m]
    <2>1. /\ z \in Seq(Alphabet) /\ Len(z) = m + Len(e)
          /\ \A i \in 1..(m + Len(e)) : z[i] = IF i <= m THEN h[i] ELSE e[i - m]
      BY <1>1, ConcatProperties
    <2> HIDE DEF z, m
    <2> QED
      BY <1>1, <2>1
  <1> HIDE DEF z
  <1>5. /\ \A i \in 1..(m + 2) : i <= n => s[i] = z[i]
        /\ m + 2 <= n => From(s, Len(z) + 1) \o t = w
    <2>1. /\ \A i \in 1..Len(z) : i <= n => s[i] = z[i]
          /\ Len(z) <= n => From(s, Len(z) + 1) \o t = w
      <3>1. s \in Seq(Alphabet) /\ t \in Seq(Alphabet) /\ z \in Seq(Alphabet) /\ w \in Seq(Alphabet)
        BY <1>4
      <3>2. s \o t = z \o w
        BY <1>3
      <3>3. /\ \A i \in 1..Len(z) : i <= Len(s) => s[i] = z[i]
            /\ Len(z) <= Len(s) => SubSeq(s, 1, Len(z)) = z /\ From(s, Len(z) + 1) \o t = w
        BY ONLY <3>1, <3>2, CutAt
      <3> QED
        BY <3>3
    <2> HIDE DEF m, n
    <2> QED
      BY <1>4, <2>1
  <1> HIDE DEF m, n
  <1>6. p > m
    <2>1. SUFFICES ASSUME p <= m PROVE FALSE
      BY <1>2
    <2>2. p \in 1..m /\ p <= n /\ p \in 1..(m + 2)
      BY <1>2, <2>1
    <2>3. s[p] = h[p] /\ h[p] # CR
      <3>1. s[p] = h[p]
        BY <1>4, <1>5, <2>1, <2>2
      <3>2. h[p] # CR
        BY <1>2, <2>2 DEF Without
      <3> QED
        BY <3>1, <3>2
    <2> QED
      BY <1>2, <2>3
  <1>7. m + 2 <= n /\ Len(z) + 1 = m + 3
    BY <1>2, <1>4, <1>6
  <1>8. u \o t = w
    BY <1>5, <1>7
  <1>9. CASE p = m + 1
    <2>1. p + 2 = m + 3
      BY <1>2, <1>9
    <2> QED
      BY <1>6, <1>8, <1>9, <2>1 DEF m, EndsBehind
  <1>10. CASE p # m + 1
    <2>1. p # m + 2
      <3>1. SUFFICES ASSUME p = m + 2 PROVE FALSE
        OBVIOUS
      <3>2. m + 2 \in 1..(m + 2) /\ ~(m + 2 <= m) /\ (m + 2) - m = 2
        BY <1>2
      <3>3. s[m + 2] = e[2]
        BY <1>4, <1>5, <1>7, <3>2
      <3> QED
        BY <1>1, <1>2, <3>1, <3>3
    <2> DEFINE q == p - (m + 2)
    <2>2. q \in 1..(n - (m + 2) - 1) /\ q \in Nat
      BY <1>2, <1>6, <1>10, <2>1
    <2>3. u \in Seq(Alphabet) /\ Len(u) = n - (m + 2) /\ \A i \in 1..(n - (m + 2)) : u[i] = s[(m + 2) + i]
      <3>1. m + 3 \in Nat \ {0} /\ n \in Nat
        BY <1>2
      <3>2. u \in Seq(Alphabet) /\ Len(u) = IF m + 3 <= n THEN n - (m + 3) + 1 ELSE 0
        BY <3>1, RestOf DEF n
      <3>3. \A i \in (m + 3)..n : s[i] \in Alphabet
        BY <3>1, ElementOfSeq DEF n
      <3>4. \A i \in 1..(n - (m + 3) + 1) : u[i] = s[(m + 3) + i - 1]
        BY <3>1, <3>3, SubSeqProperties DEF From, n
      <3> HIDE DEF u
      <3>5. Len(u) = n - (m + 2)
        BY <1>2, <1>7, <3>2
      <3>6. \A i \in 1..(n - (m + 2)) : i \in 1..(n - (m + 3) + 1) /\ (m + 3) + i - 1 = (m + 2) + i
        BY <1>2
      <3> QED
        BY <3>2, <3>4, <3>5, <3>6
    <2>4. q \in Ends(u, 1)
      <3>1. q \in 1..(n - (m + 2)) /\ q + 1 \in 1..(n - (m + 2)) /\ (m + 2) + q = p /\ (m + 2) + (q + 1) = p + 1
        BY <1>2, <2>2
      <3>2. u[q] = CR /\ u[q + 1] = LF
        <4> HIDE DEF u, q
        <4> QED
          BY <1>2, <2>3, <3>1
      <3>3. q \in 1..(Len(u) - 1)
        <4> HIDE DEF u, q
        <4> QED
          BY <2>2, <2>3
      <3> HIDE DEF u, q
      <3> QED
        BY <3>2, <3>3 DEF Ends
    <2>5. From(u, q + 2) = From(s, p + 2)
      <3>1. m + 3 \in 1..(n + 1) /\ q + 2 \in Nat \ {0} /\ (m + 3) + (q + 2) - 1 = p + 2
        BY <1>2, <1>7, <2>2
      <3>2. From(From(s, m + 3), q + 2) = From(s, (m + 3) + (q + 2) - 1)
        <4> HIDE DEF q
        <4> QED
          BY <3>1, RestOfRest DEF n
      <3> QED
        BY <3>1, <3>2
    <2> QED
      BY <1>6, <1>8, <2>3, <2>4, <2>5 DEF m, EndsBehind
  <1> QED
    BY <1>9, <1>10

\* Wherever a line is taken to end, what is left begins with a line.
LEMMA LeftBehindEnd ==
    ASSUME NEW r \in Requests, Readable(r), NEW k \in 0..Len(HeaderLines(r)),
           NEW s \in Seq(Alphabet), NEW t \in Seq(Alphabet), s \o t = After(r, k), NEW p \in Ends(s, 1)
    PROVE  /\ Left(r, From(s, p + 2), t)
           /\ p = 1 => Len(From(s, p + 2)) + Len(t) <= Len(FormText(r))
  <1> DEFINE n == Len(HeaderLines(r))
             Holds(x, q) == /\ Left(r, From(x, q + 2), t)
                            /\ q = 1 => Len(From(x, q + 2)) + Len(t) <= Len(FormText(r))
             Bad == {j \in 0..n : \E x \in Seq(Alphabet) :
                                    x \o t = After(r, n - j) /\ \E q \in Ends(x, 1) : ~Holds(x, q)}
  <1>1. n \in Nat
    BY HeaderLinesAre
  <1>2. SUFFICES Bad = {}
    <2>1. n - k \in 0..n /\ n - (n - k) = k
      BY <1>1
    <2> HIDE DEF Holds
    <2>2. Holds(s, p)
      BY <1>2, <2>1
    <2> QED
      BY <2>2 DEF Holds
  <1>3. SUFFICES ASSUME Bad # {} PROVE FALSE
    OBVIOUS
  <1>4. PICK j \in Bad : \A i \in Bad : j <= i
    <2>1. Bad \subseteq Nat
      OBVIOUS
    <2> QED
      BY <1>3, <2>1, LeastOf
  <1>5. j \in 0..n
    OBVIOUS
  <1>6. PICK x \in Seq(Alphabet) : x \o t = After(r, n - j) /\ \E q \in Ends(x, 1) : ~Holds(x, q)
    OBVIOUS
  <1>7. PICK q \in Ends(x, 1) : ~Holds(x, q)
    BY <1>6
  <1>8. CASE j = 0
    <2>1. x \o t = After(r, n)
      BY <1>1, <1>6, <1>8
    <2>2. Len(From(x, q + 2)) + Len(t) <= Len(FormText(r))
      BY <2>1, LeftBehindLast
    <2> QED
      BY <1>7, <2>2 DEF Left
  <1>9. CASE j # 0
    <2> DEFINE i == n - j
               h == HeaderText(HeaderLines(r)[i + 1])
               w == After(r, i + 1)
               m == Len(h)
    <2>1. i \in 0..n /\ i < n /\ j - 1 \in 0..n /\ n - (j - 1) = i + 1 /\ i + 1 \in 1..n /\ ~(j <= j - 1)
      BY <1>1, <1>5, <1>9
    <2>2. x \o t = h \o (CRLF \o w) /\ i + 1 \in 0..n
      BY <1>6, <2>1, AfterNext
    <2>3. h \in Seq(Alphabet) /\ m > 0 /\ m \in Nat /\ Without(h, {CR})
      <3>1. h \in Seq(Alphabet) /\ m > 0 /\ m \in Nat /\ Without(h, {CR, Nul})
        BY <2>1, HeaderReadable, HeaderTextIs
      <3> QED
        BY <3>1, WithoutSmaller
    <2>4. w \in Seq(Alphabet)
      BY <2>2, AfterTyped
    <2>5. IsLine(x, t, h, w)
      BY <2>2 DEF IsLine
    <2> HIDE DEF h, w
    <2>6. /\ q > m
          /\ \/ q = m + 1 /\ From(x, q + 2) \o t = w
             \/ /\ From(x, m + 3) \in Seq(Alphabet) /\ From(x, m + 3) \o t = w
                /\ q - (m + 2) \in Ends(From(x, m + 3), 1)
                /\ From(From(x, m + 3), (q - (m + 2)) + 2) = From(x, q + 2)
      <3>1. EndsBehind(x, t, Len(h), w, q)
        <4> HIDE DEF n, Holds, Bad, i, m
        <4> QED
          BY <2>3, <2>4, <2>5, LeftBehindLine
      <3> QED
        BY <3>1 DEF EndsBehind
    <2>7. q # 1
      <3>1. q \in Nat
        BY DEF Ends
      <3> QED
        BY <2>3, <2>6, <3>1
    <2>8. Left(r, From(x, q + 2), t)
      <3>1. CASE q = m + 1 /\ From(x, q + 2) \o t = w
        BY <2>2, <3>1 DEF Left, w
      <3>2. CASE /\ From(x, m + 3) \in Seq(Alphabet) /\ From(x, m + 3) \o t = w
                 /\ q - (m + 2) \in Ends(From(x, m + 3), 1)
                 /\ From(From(x, m + 3), (q - (m + 2)) + 2) = From(x, q + 2)
        <4> DEFINE y == From(x, m + 3)
                   l == q - (m + 2)
        <4>1. j - 1 \notin Bad
          BY <1>4, <2>1
        <4>2. y \in Seq(Alphabet) /\ y \o t = After(r, n - (j - 1)) /\ l \in Ends(y, 1)
          BY <2>1, <3>2 DEF w
        <4> HIDE DEF y, l, Holds
        <4>3. Holds(y, l)
          BY <2>1, <4>1, <4>2
        <4>4. Left(r, From(y, l + 2), t)
          BY <4>3 DEF Holds
        <4> QED
          BY <3>2, <4>4 DEF y, l
      <3> QED
        BY <2>6, <3>1, <3>2
    <2> QED
      BY <1>7, <2>7, <2>8
  <1> QED
    BY <1>8, <1>9

-----------------------------------------------------------------------------
(***************************************************************************)
(* The invariant: from the end of the header on, what was read of the body *)
(* and what is still to come are not more than the form, unless the header *)
(* was left before its empty line or the connection was interrupted.       *)
(***************************************************************************)
FormLength == Len(FormText(sent))
Interrupted == closed \/ fault # "none"

\* Before the header lines; where a POST may be.
FirstPCs == {"alloc", "first", "more", "line"}

BodyCounted == post => headerCut \/ Interrupted \/ bytes_read + Len(input) <= FormLength
BodyDone == content_length = 0 \/ Interrupted \/ bytes_read >= content_length

Body ==
    /\ rpc \in FirstPCs => ~crApart
    /\ rpc = "header" => rest = <<>> \/ Left(sent, rest, input)
    /\ rpc = "header_recv" => Left(sent, rest, input)
    /\ rpc = "post" => headerCut \/ Len(rest) + Len(input) <= FormLength
    /\ BodyCounted
    /\ rpc = "drain" => content_length = 0
    /\ rpc \in {"read", "done"} /\ post /\ err # "okay" => BodyDone

BodyInv == Readable(sent) => Body

\* What is interrupted stays so, and a header that was left.
LEMMA Interrupts ==
    ASSUME ReadStep
    PROVE  (Interrupted => Interrupted') /\ (headerCut => headerCut')
  <1>1. closed => closed'
    BY StepReceives, Zenon DEF Receives, connVars, Arrive, Nothing, RecvFails
  <1>3. fault # "none" => fault' # "none"
    <2>1. fault' = fault \/ fault' \in FaultPlaces
      BY StepReceives DEF Receives, connVars, Arrive, Nothing, RecvFails
    <2> QED
      BY <2>1 DEF FaultPlaces
  <1>2. headerCut => headerCut'
    BY StepLineFlags, Zenon DEF LineFlags
  <1> QED
    BY <1>1, <1>2, <1>3, Zenon DEF Interrupted

\* A step that reads a part of the body counts it.
CountKept == bytes_read' + Len(input') <= bytes_read + Len(input)

\* Bytes that are counted as they arrive.
LEMMA ArrivedCounts ==
    ASSUME input \in Seq(Alphabet), bytes_read \in Nat, NEW k \in DOMAIN input, NEW room, Arrive(room, k),
           bytes_read' \in {bytes_read, bytes_read + k}
    PROVE  CountKept
  <1> DEFINE n == Len(input)
             m == Len(input')
  <1>1. n \in Nat /\ k \in 1..n
    BY LenProperties
  <1>2. m = n - k
    <2>1. input' = From(input, k + 1)
      BY DEF Arrive, From
    <2>2. k + 1 \in Nat \ {0} /\ input \in Seq(Alphabet)
      BY <1>1
    <2>3. m = IF k + 1 <= n THEN n - (k + 1) + 1 ELSE 0
      BY <2>1, <2>2, RestOf
    <2> HIDE DEF m, n
    <2> QED
      BY <1>1, <2>3
  <1> HIDE DEF m, n
  <1>3. bytes_read' + m <= bytes_read + n
    BY <1>1, <1>2
  <1> QED
    BY <1>3 DEF CountKept, m, n

\* More bytes of the form are counted, or the reading is interrupted.
LEMMA MoreCounts ==
    ASSUME input \in Seq(Alphabet), bytes_read \in Nat, FormMore
    PROVE  Interrupted' \/ CountKept
  <1>1. CASE UNCHANGED <<input, bytes_read>>
    <2>1. Len(input) \in Nat
      BY LenProperties
    <2> QED
      BY <1>1, <2>1 DEF CountKept
  <1>2. CASE Nothing \/ \E kind \in Failures : RecvFails(kind, "form")
    BY <1>2 DEF Nothing, RecvFails, Interrupted
  <1>3. CASE \E k \in DOMAIN input : \E room : Arrive(room, k) /\ bytes_read' = bytes_read + k
    BY <1>3, ArrivedCounts
  <1>4. \/ UNCHANGED <<input, bytes_read>>
        \/ Nothing \/ \E kind \in Failures : RecvFails(kind, "form")
        \/ \E k \in DOMAIN input : \E room : Arrive(room, k) /\ bytes_read' = bytes_read + k
    BY DEF FormMore, connVars, formVars
  <1> QED
    BY <1>1, <1>2, <1>3, <1>4

\* The steps behind the header of a POST.
BodyStep ==
    /\ FormStep \/ ThrowAway(LineBuf) \/ ReadReturns \/ NullRequest \/ Drain
    /\ UNCHANGED lineVars

\* Every step of the body counts what it receives.
LEMMA BodyStepCounts ==
    ASSUME input \in Seq(Alphabet), bytes_read \in Nat, BodyStep
    PROVE  Interrupted' \/ CountKept
  <1>1. ASSUME UNCHANGED <<input, bytes_read>> PROVE CountKept
    <2>1. Len(input) \in Nat
      BY LenProperties
    <2> QED
      BY <1>1, <2>1 DEF CountKept
  <1>2. ASSUME Nothing \/ \E kind \in Failures, at \in FaultPlaces : RecvFails(kind, at)
        PROVE  Interrupted'
    <2>1. closed' = TRUE \/ fault' \in FaultPlaces
      BY <1>2, Zenon DEF Nothing, RecvFails
    <2>2. fault' \in FaultPlaces => fault' # "none"
      BY DEF FaultPlaces
    <2> QED
      BY <2>1, <2>2, Zenon DEF Interrupted
  <1>3. ASSUME NEW k \in DOMAIN input, NEW room, Arrive(room, k), bytes_read' \in {bytes_read, bytes_read + k}
        PROVE  CountKept
    BY <1>3, ArrivedCounts
  <1> USE DEF connVars, formVars, fieldVars, FaultPlaces
  <1>4. CASE FormStart \/ FormNoMemory \/ FormLoop \/ FormEnd \/ ReadReturns \/ NullRequest
    BY <1>1, <1>4 DEF FormStart, FormNoMemory, FormLoop, FormEnd, ReadReturns, NullRequest
  <1>5. CASE FormKey
    BY <1>1, <1>5, MoreCounts DEF FormKey
  <1>6. CASE FormValue
    BY <1>1, <1>6, MoreCounts DEF FormValue
  <1>7. CASE FormFirst
    BY <1>2, <1>3, <1>7 DEF FormFirst
  <1>8. CASE FormRest
    BY <1>2, <1>3, <1>8 DEF FormRest
  <1>9. CASE ThrowAway(LineBuf)
    BY <1>1, <1>2, <1>3, <1>9 DEF ThrowAway
  <1>10. CASE Drain
    BY <1>2, <1>3, <1>10 DEF Drain
  <1> QED
    BY <1>4, <1>5, <1>6, <1>7, <1>8, <1>9, <1>10 DEF BodyStep, FormStep

\* Where a step goes: to the end of the reading only from the body.
LEMMA BodyEnds ==
    ASSUME ReadStep, rpc' \in {"drain", "read", "done"}
    PROVE  ReadReturns \/ Drain \/ ThrowAway(LineBuf)
  <1> USE DEF Goes, ReadEnd
  <1>1. ASSUME AllocRequest \/ FirstRecv \/ MoreRecv \/ PostNoMemory \/ PostInfo \/ NoPost \/ NullRequest
        PROVE  FALSE
    BY <1>1 DEF AllocRequest, FirstRecv, MoreRecv, PostNoMemory, PostInfo, NoPost, NullRequest
  <1>2. ASSUME RequestLine PROVE FALSE
    BY <1>2 DEF RequestLine, RequestVersion, StaleVersion, Headed
  <1>3. ASSUME NextLine \/ LineRecv PROVE FALSE
    BY <1>3 DEF NextLine, LineRecv, TakeLine
  <1>4. ASSUME FormMore, rpc \in {"form_key", "form_value"} PROVE FALSE
    BY <1>4 DEF FormMore
  <1>5. ASSUME FormStep PROVE FALSE
    BY <1>4, <1>5 DEF FormStep, FormStart, FormFirst, FormKey, FormValue, FormNoMemory, FormLoop, FormRest, FormEnd
  <1> QED
    BY <1>1, <1>2, <1>3, <1>5 DEF ReadStep

\* The steps of the body stay behind the header.
LEMMA BodyStays ==
    ASSUME BodyStep
    PROVE  /\ rpc' \notin FirstPCs \cup {"header", "header_recv", "post"}
           /\ UNCHANGED content_length
  <1> USE DEF Goes, ReadEnd, FirstPCs
  <1>1. ASSUME FormMore, rpc \in {"form_key", "form_value"}
        PROVE  rpc' \notin FirstPCs \cup {"header", "header_recv", "post"} /\ UNCHANGED content_length
    BY <1>1 DEF FormMore, formVars, fieldVars
  <1>2. ASSUME FormStep PROVE rpc' \notin FirstPCs \cup {"header", "header_recv", "post"}
    BY <1>1, <1>2 DEF FormStep, FormStart, FormFirst, FormKey, FormValue, FormNoMemory, FormLoop, FormRest, FormEnd
  <1>3. ASSUME FormStep PROVE UNCHANGED content_length
    BY <1>1, <1>3 DEF FormStep, FormStart, FormFirst, FormKey, FormValue, FormNoMemory, FormLoop, FormRest, FormEnd,
                      formVars, fieldVars
  <1>4. ASSUME ThrowAway(LineBuf) \/ ReadReturns \/ NullRequest \/ Drain
        PROVE  rpc' \notin FirstPCs \cup {"header", "header_recv", "post"} /\ UNCHANGED content_length
    BY <1>4 DEF ThrowAway, ReadReturns, NullRequest, Drain, formVars, fieldVars
  <1> QED
    BY <1>2, <1>3, <1>4 DEF BodyStep

\* The length of the form is that of the request.
LEMMA FormLengthStays ==
    ASSUME sent \in Requests, UNCHANGED sent
    PROVE  FormLength' = FormLength /\ FormLength \in Nat
  <1>1. FormText(sent)' = FormText(sent)
    BY DEF FormText
  <1>2. FormText(sent) \in Seq(Alphabet)
    BY FormTyped
  <1> QED
    BY <1>1, <1>2, LenProperties DEF FormLength

\* What is left to read is the same when no byte moves.
LEMMA LeftStays ==
    ASSUME UNCHANGED sent, NEW s, NEW t, Left(sent, s, t), rest' = s, input' = t
    PROVE  Left(sent, rest, input)'
  <1>1. /\ HeaderLines(sent)' = HeaderLines(sent)
        /\ \A k : After(sent, k)' = After(sent, k)
    BY SentStays
  <1>2. FormText(sent)' = FormText(sent)
    BY DEF FormText
  <1> QED
    BY <1>1, <1>2 DEF Left

\* Behind the end of any line, and behind an empty one.
LEMMA LeftAtEnd ==
    ASSUME NEW r \in Requests, Readable(r), NEW s \in Seq(Alphabet), NEW t \in Seq(Alphabet), Left(r, s, t),
           NEW p \in Ends(s, 1)
    PROVE  /\ Left(r, From(s, p + 2), t)
           /\ p = 1 => Len(From(s, p + 2)) + Len(t) <= Len(FormText(r))
  <1>1. CASE \E k \in 0..Len(HeaderLines(r)) : s \o t = After(r, k)
    BY <1>1, LeftBehindEnd
  <1>2. CASE Len(s) + Len(t) <= Len(FormText(r))
    <2> DEFINE n == Len(s)
               m == Len(From(s, p + 2))
               l == Len(t)
               w == Len(FormText(r))
    <2>1. n \in Nat /\ l \in Nat /\ w \in Nat /\ p \in 1..(n - 1)
      BY FormTyped, LenProperties DEF Ends
    <2>2. m = IF p + 2 <= n THEN n - (p + 2) + 1 ELSE 0
      BY <2>1, RestOf
    <2>3. n + l <= w
      BY <1>2
    <2> HIDE DEF n, m, l, w
    <2>4. m + l <= w
      BY <2>1, <2>2, <2>3
    <2> QED
      BY <2>4 DEF Left, m, l, w
  <1> QED
    BY <1>1, <1>2 DEF Left

\* Steps before the header lines, and to them.
LEMMA FirstKeepsBody ==
    ASSUME RequestTypes, Body, AllocRequest \/ FirstRecv \/ MoreRecv
    PROVE  Body'
  <1>1. rpc \in FirstPCs /\ UNCHANGED lineVars
    BY DEF AllocRequest, FirstRecv, MoreRecv, FirstPCs
  <1>2. rpc' \in {"first", "more", "line", "no_request", "read_end"}
    BY DEF AllocRequest, FirstRecv, MoreRecv, Goes, ReadEnd
  <1>3. ~post /\ ~crApart
    BY <1>1, Zenon DEF RequestTypes, ReadInv, Placed, EarlyPCs, FirstPCs, Body
  <1>4. ~post' /\ ~crApart'
    BY <1>1, <1>3, Zenon DEF lineVars
  <1> QED
    BY <1>2, <1>4 DEF Body, BodyCounted

\* The steps of the request line and of the header keep the count of the body.
LEMMA RequestLineKeepsBody ==
    ASSUME RequestTypes, HeaderInv, Readable(sent), Body, RequestLine
    PROVE  Body'
  <1>1. rpc = "line" /\ UNCHANGED <<sent, input, post, crApart>>
    BY DEF RequestLine, connVars
  <1>2. rpc' \in {"header", "read_end", "broken"}
    BY DEF RequestLine, RequestVersion, StaleVersion, Headed, Goes, ReadEnd
  <1>3. ~post /\ ~crApart
    BY <1>1 DEF RequestTypes, ReadInv, Placed, EarlyPCs, FirstPCs, Body
  <1>4. ~post' /\ Typed /\ sent \in Requests
    BY <1>1, <1>3 DEF RequestTypes, ReadInv, Coming
  <1>5. PICK k \in Nat : HeaderAt(k)
    BY <1>3 DEF HeaderInv
  <1>6. HeaderAt(k)'
    BY <1>4, <1>5, LineKeepsHeader
  <1>7. rpc' = "header" => rest' = <<>> \/ Left(sent, rest, input)'
    <2>1. ASSUME rpc' = "header" PROVE rest' = <<>> \/ rest' \o input' = After(sent, k)'
      BY <1>6, <2>1 DEF HeaderAt, Ahead
    <2>2. k \in 0..Len(HeaderLines(sent)')
      BY <1>6 DEF HeaderAt
    <2> QED
      BY <2>1, <2>2 DEF Left
  <1> QED
    BY <1>2, <1>4, <1>7 DEF Body, BodyCounted, FirstPCs

\* A line is taken at any of its ends, or the reading is over.
LEMMA TakenKeepsBody ==
    ASSUME sent \in Requests, Readable(sent), NEW s \in Seq(Alphabet), NEW t \in Seq(Alphabet), Left(sent, s, t),
           NEW p \in Ends(s, 1), TakeLine(s, p), input' = t, UNCHANGED sent, ~post'
    PROVE  Body'
  <1>1. rpc' = "read_end" \/ (rpc' = "header" /\ rest' = From(s, p + 2))
    BY DEF TakeLine, Goes, ReadEnd, BehindLine
  <1>2. Left(sent, From(s, p + 2), t)
    BY LeftAtEnd
  <1>3. rest' = From(s, p + 2) => Left(sent, rest, input)'
    BY <1>2, LeftStays
  <1> QED
    BY <1>1, <1>3 DEF Body, BodyCounted, FirstPCs

LEMMA NextLineKeepsBody ==
    ASSUME RequestTypes, Readable(sent), Body, NextLine
    PROVE  Body'
  <1> DEFINE p == CrLfAt(rest, 1)
  <1>1. rpc = "header" /\ UNCHANGED <<sent, input, post>>
    BY DEF NextLine, connVars, lineFrame
  <1>2. ~post' /\ sent \in Requests /\ rest \in Seq(Alphabet) /\ input \in Seq(Alphabet)
    BY <1>1 DEF RequestTypes, ReadInv, Placed, EarlyPCs, Coming, Typed
  <1>3. rest # <<>> => Left(sent, rest, input)
    BY <1>1 DEF Body
  <1>4. p # 0 => p \in Ends(rest, 1) /\ rest # <<>>
    <2>1. 1 \in Nat \ {0}
      OBVIOUS
    <2>2. p # 0 => p \in Ends(rest, 1)
      BY <1>2, <2>1, CrLfFirst
    <2>3. Ends(<<>>, 1) = {}
      <3>1. Len(<<>>) = 0
        OBVIOUS
      <3>2. 1..(0 - 1) = {}
        OBVIOUS
      <3> QED
        BY <3>1, <3>2 DEF Ends
    <2> HIDE DEF p
    <2> QED
      BY <2>2, <2>3
  <1>5. CASE NoText /\ rpc' = "post"
    <2>1. headerCut'
      BY <1>5, Zenon DEF NextLine
    <2> QED
      BY <1>2, <1>5, <2>1 DEF Body, BodyCounted, FirstPCs
  <1>6. CASE ~NoText /\ p = 0 /\ rpc' = "header_recv" /\ UNCHANGED rest
    <2>1. rest # <<>>
      BY <1>6 DEF NoText
    <2>2. Left(sent, rest, input)'
      BY <1>1, <1>3, <1>6, <2>1, LeftStays
    <2> QED
      BY <1>2, <1>6, <2>2 DEF Body, BodyCounted, FirstPCs
  <1>7. CASE p = 1 /\ rpc' = "post" /\ rest' = BehindLine(rest, 1)
    <2>1. Len(rest') + Len(input') <= FormLength
      <3>1. p \in Ends(rest, 1) /\ Left(sent, rest, input)
        BY <1>3, <1>4, <1>7
      <3>2. p = 1 => Len(From(rest, p + 2)) + Len(input) <= Len(FormText(sent))
        BY <1>2, <3>1, LeftAtEnd
      <3>3. rest' = From(rest, p + 2) /\ input' = input
        BY <1>1, <1>7 DEF BehindLine
      <3> QED
        BY <1>7, <3>2, <3>3 DEF FormLength
    <2>2. FormLength' = FormLength
      BY <1>1, <1>2, FormLengthStays
    <2> QED
      BY <1>2, <1>7, <2>1, <2>2 DEF Body, BodyCounted, FirstPCs
  <1>8. CASE p > 1 /\ TakeLine(rest, p)
    <2>1. p \in Ends(rest, 1) /\ Left(sent, rest, input)
      <3>1. p # 0
        BY <1>8
      <3> QED
        BY <1>3, <1>4, <3>1
    <2> QED
      BY <1>1, <1>2, <1>8, <2>1, TakenKeepsBody
  <1>9. \/ NoText /\ rpc' = "post"
        \/ ~NoText /\ p = 0 /\ rpc' = "header_recv" /\ UNCHANGED rest
        \/ p = 1 /\ rpc' = "post" /\ rest' = BehindLine(rest, 1)
        \/ p > 1 /\ TakeLine(rest, p)
    BY DEF NextLine, Goes
  <1> QED
    BY <1>5, <1>6, <1>7, <1>8, <1>9

LEMMA LineRecvKeepsBody ==
    ASSUME RequestTypes, Readable(sent), Body, LineRecv
    PROVE  Body'
  <1>1. rpc = "header_recv" /\ UNCHANGED <<sent, post>>
    BY DEF LineRecv, lineFrame, Arrive, Nothing, RecvFails
  <1>2. /\ ~post' /\ sent \in Requests /\ rest \in Seq(Alphabet) /\ input \in Seq(Alphabet)
        /\ Left(sent, rest, input)
    BY <1>1 DEF RequestTypes, ReadInv, Placed, EarlyPCs, Coming, Typed, Body
  <1>3. CASE rpc' = "read_end"
    BY <1>2, <1>3 DEF Body, BodyCounted, FirstPCs
  <1>4. ASSUME NEW i \in DOMAIN input, Arrive(buflen0 - Len(rest), i),
               CrLfAt(rest \o Segment(i), Len(rest) + 1) > 0,
               TakeLine(rest \o Segment(i), CrLfAt(rest \o Segment(i), Len(rest) + 1))
        PROVE  Body'
    <2> DEFINE s == rest \o Segment(i)
               a == Len(rest)
               p == CrLfAt(s, a + 1)
    <2>1. a \in Nat
      BY <1>2, LenProperties
    <2>2. buflen0 - a \in Int
      BY <2>1, Parameters
    <2>3. s \o input' = rest \o input /\ s \in Seq(Alphabet) /\ input' \in Seq(Alphabet)
      BY <1>2, <1>4, <2>2, SegmentFollows
    <2>4. Len(s) + Len(input') = Len(rest) + Len(input)
      <3>1. Len(s \o input') = Len(rest \o input)
        BY <2>3
      <3>2. Len(s \o input') = Len(s) + Len(input')
        BY <2>3, Appended
      <3>3. Len(rest \o input) = Len(rest) + Len(input)
        BY <1>2, Appended
      <3> QED
        BY <3>1, <3>2, <3>3
    <2>5. Left(sent, s, input')
      BY <1>2, <2>3, <2>4 DEF Left
    <2>6. p > 0 /\ TakeLine(s, p)
      BY <1>4
    <2> HIDE DEF s
    <2>7. p \in Ends(s, 1)
      <3>1. a + 1 \in Nat \ {0} /\ p # 0
        BY <2>1, <2>6
      <3>2. p \in Ends(s, a + 1)
        BY <2>3, <3>1, CrLfFirst
      <3> HIDE DEF p, a
      <3>3. (a + 1)..(Len(s) - 1) \subseteq 1..(Len(s) - 1)
        BY <2>1
      <3> QED
        BY <3>2, <3>3 DEF Ends
    <2> HIDE DEF p, a
    <2> QED
      BY <1>1, <1>2, <2>3, <2>5, <2>6, <2>7, TakenKeepsBody
  <1>5. \/ rpc' = "read_end"
        \/ \E i \in DOMAIN input :
              /\ Arrive(buflen0 - Len(rest), i)
              /\ CrLfAt(rest \o Segment(i), Len(rest) + 1) > 0
              /\ TakeLine(rest \o Segment(i), CrLfAt(rest \o Segment(i), Len(rest) + 1))
    BY DEF LineRecv, ReadEnd
  <1> QED
    BY <1>3, <1>4, <1>5

\* What came with the header is counted, or nothing of the body is read.
LEMMA PostKeepsBody ==
    ASSUME RequestTypes, Body, PostNoMemory \/ PostInfo \/ NoPost
    PROVE  Body'
  <1>1. rpc = "post" /\ UNCHANGED connVars
    BY DEF PostNoMemory, PostInfo, NoPost
  <1>2. rpc' \in {"form", "read_end"}
    BY DEF PostNoMemory, PostInfo, NoPost, Goes, ReadEnd
  <1>3. ~post /\ sent \in Requests
    BY <1>1 DEF RequestTypes, ReadInv, Placed, EarlyPCs, Coming
  <1>4. headerCut' = headerCut
    BY Zenon DEF PostNoMemory, PostInfo, NoPost, lineVars
  <1>5. post' => bytes_read' = Len(rest)
    <2>1. CASE UNCHANGED post
      BY <1>3, <2>1, Zenon
    <2>2. CASE bytes_read' = Len(rest)
      BY <2>2
    <2> QED
      BY <2>1, <2>2 DEF PostNoMemory, PostInfo, NoPost, lineVars
  <1>6. headerCut \/ Len(rest) + Len(input) <= FormLength
    BY <1>1 DEF Body
  <1>7. FormLength' = FormLength /\ input' = input
    BY <1>1, <1>3, FormLengthStays DEF connVars
  <1>8. BodyCounted'
    <2>1. ASSUME post', ~headerCut' PROVE bytes_read' + Len(input') <= FormLength'
      <3>1. bytes_read' = Len(rest) /\ ~headerCut
        BY <1>4, <1>5, <2>1
      <3> QED
        BY <1>6, <1>7, <3>1
    <2> QED
      BY <2>1 DEF BodyCounted
  <1> QED
    BY <1>2, <1>8 DEF Body, FirstPCs

\* In the body, what is read is counted; and when the reading of a POST that
\* failed ends, all of its length was read, or could not be.
LEMMA BodyStepKeepsBody ==
    ASSUME RequestTypes, Body, ReadStep, BodyStep
    PROVE  Body'
  <1>1. /\ rpc' \notin FirstPCs \cup {"header", "header_recv", "post"}
        /\ content_length' = content_length /\ sent' = sent
    <2>1. sent' = sent
      BY StepReceives DEF Receives, connVars, Arrive, Nothing, RecvFails
    <2> QED
      BY <2>1, BodyStays
  <1>2. (post' <=> post) /\ (headerCut' <=> headerCut)
    BY Zenon DEF BodyStep, lineVars
  <1>3. /\ input \in Seq(Alphabet) /\ bytes_read \in Nat /\ content_length \in Nat /\ sent \in Requests
    BY DEF RequestTypes, ReadInv, Typed, Counts, Coming
  <1>4. FormLength' = FormLength /\ FormLength \in Nat
    BY <1>1, <1>3, FormLengthStays
  <1>5. (Interrupted => Interrupted') /\ (Interrupted' \/ CountKept)
    BY <1>3, Interrupts, BodyStepCounts
  <1>6. bytes_read' \in Nat /\ input' \in Seq(Alphabet)
    BY RequestTypesKept DEF RequestTypes, ReadInv, Typed, Counts
  <1>7. BodyCounted'
    <2>1. ASSUME post', ~headerCut', ~Interrupted' PROVE bytes_read' + Len(input') <= FormLength'
      <3>1. bytes_read + Len(input) <= FormLength /\ CountKept
        BY <1>2, <1>5, <2>1 DEF Body, BodyCounted
      <3>2. Len(input) \in Nat /\ Len(input') \in Nat
        BY <1>3, <1>6, LenProperties
      <3> QED
        BY <1>3, <1>4, <1>6, <3>1, <3>2 DEF CountKept
    <2> QED
      BY <2>1, Zenon DEF BodyCounted
  <1>8. ASSUME rpc' \in {"drain", "read", "done"}
        PROVE  /\ rpc' = "drain" => content_length' = 0
               /\ rpc' \in {"read", "done"} /\ post' /\ err' # "okay" => BodyDone'
    <2>1. CASE ReadReturns
      <3>1. /\ rpc' = (IF err = "okay" \/ ~post THEN "read"
                       ELSE IF content_length > 0 THEN "throw_away" ELSE "drain")
            /\ err' = err
        BY <2>1 DEF ReadReturns
      <3>2. rpc' = "drain" => ~(content_length > 0)
        BY <3>1
      <3>3. rpc' \in {"read", "done"} => err' = "okay" \/ ~post'
        BY <1>2, <3>1
      <3> QED
        BY <1>1, <1>3, <3>2, <3>3
    <2>2. CASE Drain
      <3>1. content_length = 0
        BY <2>2 DEF Drain, Body
      <3> QED
        BY <1>1, <3>1 DEF BodyDone
    <2>3. CASE ThrowAway(LineBuf)
      <3>1. rpc' = "read"
        BY <1>8, <2>3 DEF ThrowAway
      <3>2. CASE Nothing \/ \E kind \in Failures : RecvFails(kind, "drain")
        <4>1. closed' = TRUE \/ fault' # "none"
          BY <3>2, Zenon DEF Nothing, RecvFails
        <4> QED
          BY <3>1, <4>1, Zenon DEF BodyDone, Interrupted
      <3>3. CASE bytes_read >= content_length /\ bytes_read' = bytes_read
        BY <1>1, <3>1, <3>3 DEF BodyDone
      <3>4. \/ Nothing \/ \E kind \in Failures : RecvFails(kind, "drain")
            \/ bytes_read >= content_length /\ bytes_read' = bytes_read
        <4>1. rpc = "throw_away" /\ rpc' # rpc
          BY <2>3, <3>1 DEF ThrowAway
        <4> QED
          BY <2>3, <4>1 DEF ThrowAway
      <3> QED
        BY <3>2, <3>3, <3>4
    <2> QED
      BY <1>8, <2>1, <2>2, <2>3, BodyEnds
  <1> QED
    BY <1>1, <1>7, <1>8, Zenon DEF Body

\* Every step of the reading keeps the invariant.
LEMMA BodyKeeps ==
    ASSUME RequestTypes, HeaderInv, BodyInv, ReadStep
    PROVE  BodyInv'
  <1>1. sent' = sent
    BY StepReceives DEF Receives, connVars, Arrive, Nothing, RecvFails
  <1>2. Readable(sent)' <=> Readable(sent)
    BY <1>1, SentStays
  <1>3. ASSUME Readable(sent) PROVE Body'
    <2>1. Body
      BY <1>3 DEF BodyInv
    <2>2. CASE AllocRequest \/ FirstRecv \/ MoreRecv
      BY <2>1, <2>2, FirstKeepsBody
    <2>3. CASE RequestLine
      BY <1>3, <2>1, <2>3, RequestLineKeepsBody
    <2>4. CASE NextLine
      BY <1>3, <2>1, <2>4, NextLineKeepsBody
    <2>5. CASE LineRecv
      BY <1>3, <2>1, <2>5, LineRecvKeepsBody
    <2>6. CASE PostNoMemory \/ PostInfo \/ NoPost
      BY <2>1, <2>6, PostKeepsBody
    <2>7. CASE BodyStep
      BY <2>1, <2>7, BodyStepKeepsBody
    <2>8. ReadReturns \/ NullRequest \/ Drain => UNCHANGED lineVars
      BY DEF ReadReturns, NullRequest, Drain
    <2> QED
      BY <2>2, <2>3, <2>4, <2>5, <2>6, <2>7, <2>8 DEF ReadStep, BodyStep
  <1> QED
    BY <1>2, <1>3 DEF BodyInv

\* The invariant of the body holds at the start, and in steps of others.
LEMMA BodyStart ==
    ASSUME RequestInit
    PROVE  BodyInv
  <1>1. rpc = "alloc" /\ post = FALSE /\ crApart = FALSE
    BY DEF RequestInit, LinesInit
  <1> QED
    BY <1>1 DEF BodyInv, Body, BodyCounted, FirstPCs

\* A request that was dropped.
LEMMA BodyDropped ==
    ASSUME ~post', rpc' = "answered"
    PROVE  BodyInv'
  BY DEF BodyInv, Body, BodyCounted, FirstPCs

LEMMA BodyRests ==
    ASSUME sent \in Requests, BodyInv,
           UNCHANGED <<sent, input, closed, fault, rest, post, crApart, headerCut, err,
                       bytes_read, content_length>>,
           rpc' = rpc \/ (rpc = "read" /\ rpc' = "done")
    PROVE  BodyInv'
  <1>1. Readable(sent)' <=> Readable(sent)
    BY SentStays
  <1>2. Left(sent, rest, input) => Left(sent, rest, input)'
    BY LeftStays
  <1>3. FormLength' = FormLength
    BY FormLengthStays
  <1>4. /\ (Interrupted' <=> Interrupted) /\ (post' <=> post) /\ (headerCut' <=> headerCut)
        /\ (crApart' <=> crApart)
    BY Zenon DEF Interrupted
  <1>5. (BodyCounted => BodyCounted') /\ (BodyDone => BodyDone')
    BY <1>3, <1>4 DEF BodyCounted, BodyDone
  <1>6. Body => Body'
    BY <1>2, <1>3, <1>4, <1>5 DEF Body, FirstPCs
  <1> QED
    BY <1>1, <1>6 DEF BodyInv

\* When the announced length was read, and is that of the form at least,
\* nothing is left.
LEMMA DrainedFromInv ==
    ASSUME RequestTypes, BodyInv, Readable(sent), content_length >= Len(Joined(sent.form, <<AMP>>))
    PROVE  DrainedBeforeReply
  <1>1. SUFFICES ASSUME rpc \in {"read", "done"}, err # "okay", post, content_length > 0, ~headerCut, ~Interrupted
                 PROVE  input = <<>>
    BY Zenon DEF DrainedBeforeReply, Interrupted
  <1>2. /\ input \in Seq(Alphabet) /\ bytes_read \in Nat /\ content_length \in Nat /\ sent \in Requests
    BY DEF RequestTypes, ReadInv, Typed, Counts, Coming
  <1>3. bytes_read + Len(input) <= FormLength /\ (content_length = 0 \/ bytes_read >= content_length)
    BY <1>1 DEF BodyInv, Body, BodyCounted, BodyDone
  <1>4. FormLength \in Nat /\ content_length >= FormLength
    <2>1. FormText(sent) \in Seq(Alphabet)
      BY <1>2, FormTyped
    <2> QED
      BY <2>1, LenProperties DEF FormLength, FormText
  <1>5. Len(input) \in Nat
    BY <1>2, LenProperties
  <1>6. Len(input) = 0
    <2> DEFINE n == Len(input)
    <2>1. bytes_read + n <= FormLength /\ n \in Nat
      BY <1>3, <1>5
    <2> HIDE DEF n
    <2>2. n = 0
      BY <1>1, <1>2, <1>3, <1>4, <2>1
    <2> QED
      BY <2>2 DEF n
  <1> QED
    BY <1>2, <1>6, EmptySeq

-----------------------------------------------------------------------------
(***************************************************************************)
(* The request line of a readable request always has its end in the text   *)
(* or is refused: nothing is read behind what was received.                *)
(***************************************************************************)
BrokenKnown == Readable(sent) /\ rpc = "broken" => err = NoMemory \/ bodyApart

LEMMA RequestLineGoes ==
    ASSUME RequestTypes, HeaderInv, BodyInv, Readable(sent), RequestLine
    PROVE  rpc' \in {"header", "read_end"}
  <1>1. rpc = "line"
    BY DEF RequestLine
  <1>2. ~crApart
    BY <1>1 DEF BodyInv, Body, FirstPCs
  <1>3. PICK k \in Nat : HeaderAt(k)
    BY <1>2 DEF HeaderInv
  <1>4. /\ input \in Seq(Alphabet) /\ rest \in Seq(Alphabet) /\ sent \in Requests
        /\ rest \o input = Encoded(sent) \/ Garbled
    BY <1>1, <1>3 DEF RequestTypes, ReadInv, Typed, Coming, HeaderAt, Ahead
  <1>5. CASE rest \o input = Encoded(sent)
    BY <1>4, <1>5, RequestLineWhole
  <1>6. CASE Garbled
    BY <1>4, <1>6, RequestLineGarbled DEF Garbled
  <1> QED
    BY <1>4, <1>5, <1>6

\* The steps that use memory that is not there.
LEMMA BreaksHow ==
    ASSUME ReadStep, rpc' = "broken"
    PROVE  RequestLine \/ NullRequest \/ (rpc \in FieldPCs /\ UNCHANGED post)
  <1> USE DEF Goes, ReadEnd
  <1>1. ASSUME AllocRequest \/ FirstRecv \/ MoreRecv \/ PostNoMemory \/ PostInfo \/ NoPost \/ ReadReturns \/ Drain
        PROVE  FALSE
    BY <1>1 DEF AllocRequest, FirstRecv, MoreRecv, PostNoMemory, PostInfo, NoPost, ReadReturns, Drain
  <1>2. ASSUME NextLine \/ LineRecv PROVE FALSE
    BY <1>2 DEF NextLine, LineRecv, TakeLine
  <1>3. ASSUME FormStart \/ FormFirst \/ FormNoMemory \/ FormLoop \/ FormRest \/ FormEnd \/ ThrowAway(LineBuf)
        PROVE  FALSE
    BY <1>3 DEF FormStart, FormFirst, FormNoMemory, FormLoop, FormRest, FormEnd, ThrowAway
  <1>4. FormKey \/ FormValue => rpc \in FieldPCs
    BY DEF FormKey, FormValue, FieldPCs
  <1> QED
    BY <1>1, <1>2, <1>3, <1>4 DEF ReadStep, FormStep, lineVars

LEMMA BrokenKeeps ==
    ASSUME RequestTypes, HeaderInv, BodyInv, ReadStep
    PROVE  BrokenKnown'
  <1>1. (Readable(sent)' <=> Readable(sent)) /\ ReadInv /\ ReadInv'
    <2>1. sent' = sent
      BY StepReceives DEF Receives, connVars, Arrive, Nothing, RecvFails
    <2> QED
      BY <2>1, SentStays, ReadKeeps DEF RequestTypes
  <1>2. ASSUME Readable(sent), rpc' = "broken" PROVE err' = NoMemory \/ bodyApart'
    <2>1. CASE RequestLine
      BY <1>2, <2>1, RequestLineGoes
    <2>2. CASE NullRequest
      BY <1>1, <2>2 DEF NullRequest, Goes, ReadInv, Failed
    <2>3. CASE rpc \in FieldPCs /\ UNCHANGED post
      <3>1. post
        BY <1>1, <2>3 DEF ReadInv, Placed, FieldPCs
      <3>2. post'
        BY <2>3, <3>1, Zenon
      <3> QED
        BY <1>1, <1>2, <3>2, Zenon DEF ReadInv, Failed
    <2> QED
      BY <1>2, <2>1, <2>2, <2>3, BreaksHow
  <1> QED
    BY <1>1, <1>2 DEF BrokenKnown

LEMMA BrokenFromInv ==
    ASSUME ReadInv, BrokenKnown
    PROVE  BrokenOnlyAsKnown
  BY Zenon DEF ReadInv, Failed, BrokenKnown, BrokenOnlyAsKnown

-----------------------------------------------------------------------------
(***************************************************************************)
(* The variables of a URL: what is read begins with the text they were     *)
(* sent as, with a 0 byte and other bytes behind it.                       *)
(***************************************************************************)
\* A text has pieces, one at least.
LEMMA PiecesTyped ==
    ASSUME NEW s \in Seq(Alphabet), NEW sep
    PROVE  Pieces(s, sep) \in Seq(Seq(Alphabet)) /\ Len(Pieces(s, sep)) \in Nat \ {0}
  <1> DEFINE W == Seq(Alphabet)
             n == Len(s)
             Fine(q) == q \in Seq(W) /\ Len(q) \in Nat \ {0}
  <1>1. PICK f : /\ Pieces(s, sep) = f[n]
                 /\ \A k \in 0..n : f[k] = PiecesAt(s, sep, f, k)
    BY PiecesRead
  <1>2. n \in Nat
    BY LenProperties
  <1> DEFINE Bad == {k \in 0..n : ~Fine(f[k])}
  <1>3. ASSUME Bad # {} PROVE FALSE
    <2>1. PICK k \in Bad : \A i \in Bad : k <= i
      <3>1. Bad \subseteq Nat
        OBVIOUS
      <3> HIDE DEF Bad
      <3> QED
        BY <1>3, <3>1, LeastOf
    <2>2. k \in 0..n /\ ~Fine(f[k])
      BY <2>1
    <2> DEFINE text == From(s, n - k + 1)
               p == Place(text, sep)
               a == SubSeq(text, 1, p - 1)
    <2>3. text \in W /\ p \in 0..k /\ Len(text) = k
      BY <2>2, LastBytes
    <2>4. f[k] = IF p = 0 THEN <<text>> ELSE <<a>> \o f[k - p]
      BY <1>1, <2>2 DEF PiecesAt
    <2> HIDE DEF text, p, Bad
    <2>5. CASE p = 0
      <3>1. Fine(<<text>>)
        <4> HIDE DEF W
        <4> QED
          BY <2>3
      <3> QED
        BY <2>2, <2>4, <2>5, <3>1
    <2>6. CASE p # 0
      <3>1. k - p \in 0..n /\ k - p \notin Bad
        BY <1>2, <2>1, <2>2, <2>3, <2>6
      <3>2. Fine(f[k - p])
        BY <3>1 DEF Bad
      <3>3. a \in W
        <4>1. p - 1 \in 0..Len(text)
          BY <2>3, <2>6
        <4> QED
          BY <2>3, <4>1, PieceOf
      <3> DEFINE x == <<a>>
                 y == f[k - p]
      <3>4. x \in Seq(W) /\ Len(x) = 1
        <4> HIDE DEF W, a
        <4> QED
          BY <3>3
      <3>5. y \in Seq(W) /\ Len(y) \in Nat \ {0}
        BY <3>2
      <3> HIDE DEF x, y, W
      <3>6. x \o y \in Seq(W) /\ Len(x \o y) = Len(x) + Len(y)
        BY <3>4, <3>5, ConcatProperties
      <3>7. Fine(x \o y)
        BY <3>4, <3>5, <3>6
      <3> QED
        BY <2>2, <2>4, <2>6, <3>7 DEF x, y
    <2> QED
      BY <2>5, <2>6
  <1>4. n \in 0..n /\ n \notin Bad
    <2> HIDE DEF Bad
    <2> QED
      BY <1>2, <1>3
  <1> QED
    BY <1>1, <1>4

\* A piece in front of a separator is the first.
LEMMA PiecesBehind ==
    ASSUME NEW b \in Seq(Alphabet), NEW sep \in Alphabet, Without(b, {sep}), NEW w \in Seq(Alphabet),
           NEW s \in Seq(Alphabet), IsPiece(s, b, sep, w)
    PROVE  Pieces(s, sep) = <<b>> \o Pieces(w, sep)
  <1> DEFINE p == Place(s, sep)
  <1>1. p = Len(b) + 1 /\ SubSeq(s, 1, Len(b)) = b /\ From(s, Len(b) + 2) = w
    BY PieceEnd
  <1>2. Len(b) \in Nat
    BY LenProperties
  <1>3. p # 0 => Pieces(s, sep) = <<SubSeq(s, 1, p - 1)>> \o Pieces(From(s, p + 1), sep)
    BY PiecesFirst
  <1> HIDE DEF p
  <1>4. p # 0 /\ p - 1 = Len(b) /\ p + 1 = Len(b) + 2
    BY <1>1, <1>2
  <1> QED
    BY <1>1, <1>3, <1>4

\* The pieces of a text: those in front, and those of what is behind them.
LEMMA PiecesFront ==
    ASSUME NEW n \in Nat \ {0}, NEW B \in Seq(Seq(Alphabet)), Len(B) = n - 1,
           NEW U \in [1..n -> Seq(Alphabet)],
           NEW sep \in Alphabet, \A i \in 1..(n - 1) : Without(B[i], {sep}),
           \A i \in 1..(n - 1) : U[i] = B[i] \o (<<sep>> \o U[i + 1])
    PROVE  Pieces(U[1], sep) = B \o Pieces(U[n], sep)
  <1> DEFINE W == Seq(Alphabet)
             q == Pieces(U[1], sep)
             Q(k) == Pieces(U[k + 1], sep)
             P(k) == SubSeq(B, 1, k)
             Bad == {k \in 0..(n - 1) : q # P(k) \o Q(k)}
  <1>1. \A k \in 0..(n - 1) : Q(k) \in Seq(W)
    <2>1. ASSUME NEW k \in 0..(n - 1) PROVE Q(k) \in Seq(W)
      <3>1. U[k + 1] \in Seq(Alphabet)
        <4>1. k + 1 \in 1..n
          OBVIOUS
        <4> QED
          BY <4>1
      <3> QED
        BY <3>1, PiecesTyped
    <2> QED
      BY <2>1
  <1>2. P(0) = <<>> /\ P(n - 1) = B
    <2>1. SubSeq(B, 1, 0) = <<>>
      BY SubSeqEmpty
    <2>2. SubSeq(B, 1, Len(B)) = B
      BY SubSeqFull
    <2> QED
      BY <2>1, <2>2
  <1>3. q = Q(0)
    BY DEF Q
  <1>4. ASSUME NEW k \in 0..(n - 1), k # 0
        PROVE  P(k - 1) \o Q(k - 1) = P(k) \o Q(k)
    <2> DEFINE j == k - 1
               b == B[k]
               x == P(j)
               y == <<b>>
               z == Q(k)
    <2>1. k \in 1..(n - 1) /\ j \in Nat /\ j + 1 = k /\ j + 1 <= Len(B) /\ k \in 1..n /\ k + 1 \in 1..n
      BY <1>4
    <2>2. b \in W /\ Without(b, {sep}) /\ U[k] = b \o (<<sep>> \o U[k + 1])
      <3>1. k \in 1..Len(B)
        BY <2>1
      <3>2. b \in W
        BY <3>1, ElementOfSeq
      <3> QED
        BY <2>1, <3>2
    <2>3. Q(j) = <<b>> \o Q(k)
      <3>1. IsPiece(U[k], b, sep, U[k + 1]) /\ U[k] \in Seq(Alphabet) /\ U[k + 1] \in Seq(Alphabet)
        BY <2>1, <2>2 DEF IsPiece
      <3>2. Pieces(U[k], sep) = <<b>> \o Pieces(U[k + 1], sep)
        <4> HIDE DEF b
        <4> QED
          BY <2>2, <3>1, PiecesBehind
      <3> QED
        BY <2>1, <3>2
    <2>4. P(j + 1) = Append(x, b)
      <3> HIDE DEF j
      <3>1. SubSeq(B, 1, j + 1) = Append(SubSeq(B, 1, j), B[j + 1])
        <4> HIDE DEF W
        <4> QED
          BY <2>1, FrontNext
      <3> QED
        BY <2>1, <3>1
    <2>5. x \in Seq(W) /\ y \in Seq(W) /\ z \in Seq(W)
      <3>1. x \in Seq(W)
        <4> HIDE DEF W
        <4>1. \A i \in 1..j : B[i] \in Seq(Alphabet)
          <5>1. \A i \in 1..j : i \in 1..Len(B)
            BY <2>1
          <5> QED
            BY <5>1, ElementOfSeq
        <4> QED
          BY <2>1, <4>1, SubSeqProperties DEF W
      <3>2. y \in Seq(W)
        <4> HIDE DEF W, b
        <4> QED
          BY <2>2
      <3> QED
        BY <1>1, <3>1, <3>2
    <2> HIDE DEF W, Q, P, b
    <2>6. Append(x, b) = x \o y
      BY <2>2, <2>5, AppendIsConcat
    <2>7. (x \o y) \o z = x \o (y \o z)
      <3> HIDE DEF x, y, z
      <3> QED
        BY <2>5, ConcatAssociative
    <2> QED
      BY <2>1, <2>3, <2>4, <2>6, <2>7
  <1>5. ASSUME Bad # {} PROVE FALSE
    <2>1. PICK k \in Bad : \A i \in Bad : k <= i
      <3>1. Bad \subseteq Nat
        OBVIOUS
      <3> HIDE DEF Bad
      <3> QED
        BY <1>5, <3>1, LeastOf
    <2>2. k \in 0..(n - 1) /\ q # P(k) \o Q(k)
      BY <2>1
    <2>3. k # 0
      <3>1. <<>> \o Q(0) = Q(0)
        <4> HIDE DEF Q, W
        <4>1. 0 \in 0..(n - 1)
          OBVIOUS
        <4>2. Q(0) \in Seq(W)
          BY <1>1, <4>1
        <4> QED
          BY <4>2, ConcatEmptySeq
      <3> HIDE DEF P, Q, q
      <3> QED
        BY <1>2, <1>3, <2>2, <3>1
    <2>4. k - 1 \in 0..(n - 1) /\ k - 1 \notin Bad
      <3> HIDE DEF Bad
      <3> QED
        BY <2>1, <2>2, <2>3
    <2>5. q = P(k - 1) \o Q(k - 1)
      <3> HIDE DEF P, Q, q
      <3> QED
        BY <2>4
    <2> HIDE DEF P, Q, q
    <2> QED
      BY <1>4, <2>2, <2>3, <2>5
  <1>6. n - 1 \in 0..(n - 1) /\ n - 1 \notin Bad
    <2> HIDE DEF Bad
    <2> QED
      BY <1>5
  <1>7. q = P(n - 1) \o Q(n - 1)
    <2> HIDE DEF P, Q, q
    <2> QED
      BY <1>6
  <1>8. (n - 1) + 1 = n
    OBVIOUS
  <1> QED
    BY <1>2, <1>7, <1>8

\* The items of as many of the first pieces exist for every number of pieces.
LEMMA ItemsReadable ==
    ASSUME NEW q, NEW n \in Nat
    PROVE  \E f : ItemsUpto(q, n, f)
  <1> DEFINE Step(f, i) == IF i = 0 THEN <<>>
                           ELSE IF KeyLength(q[i]) = 0 THEN f[i - 1]
                           ELSE Append(f[i - 1], Item(q[i]))
             Bad == {m \in 0..n : \A f : ~ItemsUpto(q, m, f)}
  <1>1. ASSUME Bad # {} PROVE FALSE
    <2>1. PICK m \in Bad : \A k \in Bad : m <= k
      <3>1. Bad \subseteq Nat
        OBVIOUS
      <3> HIDE DEF Bad
      <3> QED
        BY <1>1, <3>1, LeastOf
    <2>2. m \in 0..n /\ \A f : ~ItemsUpto(q, m, f)
      BY <2>1
    <2>3. PICK f : \A k \in 0..(m - 1) : f[k] = Step(f, k)
      <3>1. CASE m = 0
        BY <3>1
      <3>2. CASE m # 0
        <4>1. m - 1 \in 0..n /\ m - 1 \notin Bad
          <5> HIDE DEF Bad
          <5> QED
            BY <2>1, <2>2, <3>2
        <4>2. PICK f : ItemsUpto(q, m - 1, f)
          BY <4>1
        <4> QED
          BY <4>2 DEF ItemsUpto
      <3> QED
        BY <3>1, <3>2
    <2> DEFINE g == [k \in 0..m |-> IF k = m THEN Step(f, m) ELSE f[k]]
    <2>4. \A i \in 0..(m - 1) : g[i] = f[i]
      BY <2>2
    <2>5. ASSUME NEW k \in 0..m PROVE g[k] = Step(g, k)
      <3>1. g[k] = Step(f, k)
        <4>1. CASE k = m
          BY <4>1
        <4>2. CASE k # m
          <5>1. k \in 0..(m - 1)
            BY <2>2, <4>2
          <5> QED
            BY <2>3, <2>4, <5>1
        <4> QED
          BY <4>1, <4>2
      <3> HIDE DEF g
      <3>2. Step(g, k) = Step(f, k)
        <4>1. CASE k = 0
          BY <4>1
        <4>2. CASE k # 0
          <5>1. k - 1 \in 0..(m - 1)
            BY <2>2, <4>2
          <5>2. g[k - 1] = f[k - 1]
            BY <2>4, <5>1
          <5> QED
            BY <5>2
        <4> QED
          BY <4>1, <4>2
      <3> QED
        BY <3>1, <3>2
    <2>6. g = [k \in 0..m |-> g[k]]
      OBVIOUS
    <2> HIDE DEF g, Step
    <2>7. [k \in 0..m |-> g[k]] = [k \in 0..m |-> Step(g, k)]
      BY <2>5
    <2>8. ItemsUpto(q, m, g)
      BY <2>6, <2>7 DEF ItemsUpto, Step
    <2> QED
      BY <2>2, <2>8
  <1>2. n \in 0..n /\ n \notin Bad
    <2> HIDE DEF Bad
    <2> QED
      BY <1>1
  <1> QED
    BY <1>2

\* When each of the first k pieces has a key, the first k items are theirs.
LEMMA IteratedFront ==
    ASSUME NEW q, NEW n \in Nat, Len(q) = n, NEW k \in 0..n, \A i \in 1..k : KeyLength(q[i]) # 0
    PROVE  /\ DOMAIN Iterated(q) = 1..Len(Iterated(q))
           /\ Len(Iterated(q)) \in Nat /\ k <= Len(Iterated(q))
           /\ \A i \in 1..k : Iterated(q)[i] = Item(q[i])
           /\ k = n => Len(Iterated(q)) = n
  <1> DEFINE S == {Item(q[i]) : i \in 1..n}
             items == CHOOSE f : ItemsUpto(q, n, f)
  <1>1. Iterated(q) = items[n]
    BY DEF Iterated, ItemsUpto
  <1>2. ItemsUpto(q, n, items)
    BY ItemsReadable
  <1> HIDE DEF items
  <1>3. /\ items[0] = <<>>
        /\ \A i \in 1..n : items[i] = IF KeyLength(q[i]) = 0 THEN items[i - 1]
                                      ELSE Append(items[i - 1], Item(q[i]))
    <2>1. \A i \in 0..n : items[i] = IF i = 0 THEN <<>>
                                     ELSE IF KeyLength(q[i]) = 0 THEN items[i - 1]
                                     ELSE Append(items[i - 1], Item(q[i]))
      BY <1>2 DEF ItemsUpto
    <2>2. 0 \in 0..n
      OBVIOUS
    <2>3. items[0] = <<>>
      BY <2>1, <2>2
    <2>4. ASSUME NEW i \in 1..n
          PROVE  items[i] = IF KeyLength(q[i]) = 0 THEN items[i - 1] ELSE Append(items[i - 1], Item(q[i]))
      <3>1. i \in 0..n /\ i # 0
        OBVIOUS
      <3> QED
        BY <2>1, <3>1
    <2> QED
      BY <2>3, <2>4
  <1> DEFINE Good(i, t) == /\ t \in Seq(S)
                           /\ i <= k => Len(t) = i
                           /\ i >= k => Len(t) >= k
                           /\ \A j \in 1..k : j <= i => t[j] = Item(q[j])
             Bad == {i \in 0..n : ~Good(i, items[i])}
  <1>4. Good(0, <<>>)
    <2>1. <<>> \in Seq(S) /\ Len(<<>>) = 0
      <3> HIDE DEF S
      <3> QED
        BY EmptySeq
    <2> QED
      BY <2>1
  <1>5. ASSUME NEW i \in 1..n, NEW t, Good(i - 1, t), KeyLength(q[i]) = 0 PROVE Good(i, t)
    <2>1. i \notin 1..k /\ i > k
      BY <1>5
    <2>2. i - 1 >= k /\ ~(i <= k)
      BY <2>1
    <2>3. \A j \in 1..k : j <= i - 1
      BY <2>2
    <2> HIDE DEF S
    <2> QED
      BY <1>5, <2>1, <2>2, <2>3
  <1>6. ASSUME NEW i \in 1..n, NEW t, Good(i - 1, t) PROVE Good(i, Append(t, Item(q[i])))
    <2> DEFINE e == Item(q[i])
               x == Append(t, e)
    <2>1. t \in Seq(S) /\ e \in S
      BY <1>6
    <2> HIDE DEF S
    <2>2. /\ x \in Seq(S) /\ Len(t) \in Nat /\ Len(x) = Len(t) + 1
          /\ \A j \in 1..Len(t) : x[j] = t[j]
          /\ x[Len(t) + 1] = e
      <3> HIDE DEF e
      <3> QED
        BY <2>1, AppendProperties, LenProperties
    <2> HIDE DEF x, e
    <2>3. i <= k => Len(x) = i
      BY <1>6, <2>2
    <2>4. i >= k => Len(x) >= k
      <3>1. CASE i - 1 >= k
        BY <1>6, <2>2, <3>1
      <3>2. CASE ~(i - 1 >= k)
        <4>1. i >= k => i = k /\ i - 1 <= k
          BY <3>2
        <4> QED
          BY <1>6, <2>2, <4>1
      <3> QED
        BY <3>1, <3>2
    <2>5. ASSUME NEW j \in 1..k, j <= i PROVE x[j] = Item(q[j])
      <3>1. CASE j <= i - 1
        <4>1. t[j] = Item(q[j])
          BY <1>6, <3>1
        <4>2. j <= Len(t)
          <5>1. CASE i - 1 <= k
            BY <1>6, <3>1, <5>1
          <5>2. CASE ~(i - 1 <= k)
            <6>1. i - 1 >= k
              BY <5>2
            <6> QED
              BY <1>6, <2>2, <6>1
          <5> QED
            BY <5>1, <5>2
        <4>3. j \in 1..Len(t)
          BY <2>2, <4>2
        <4> QED
          BY <2>2, <4>1, <4>3
      <3>2. CASE ~(j <= i - 1)
        <4>1. j = i /\ i - 1 <= k
          BY <2>5, <3>2
        <4>2. Len(t) + 1 = i
          BY <1>6, <4>1
        <4> QED
          BY <2>2, <4>1, <4>2 DEF e
      <3> QED
        BY <3>1, <3>2
    <2> QED
      BY <2>2, <2>3, <2>4, <2>5 DEF x, e
  <1>7. ASSUME Bad # {} PROVE FALSE
    <2>1. PICK i \in Bad : \A j \in Bad : i <= j
      <3>1. Bad \subseteq Nat
        OBVIOUS
      <3> HIDE DEF Bad
      <3> QED
        BY <1>7, <3>1, LeastOf
    <2>2. i \in 0..n /\ ~Good(i, items[i])
      BY <2>1
    <2>3. i # 0
      <3> HIDE DEF Good
      <3> QED
        BY <1>3, <1>4, <2>2
    <2>4. i \in 1..n /\ i - 1 \in 0..n /\ i - 1 \notin Bad
      <3> HIDE DEF Bad
      <3> QED
        BY <2>1, <2>2, <2>3
    <2>5. Good(i - 1, items[i - 1])
      <3> HIDE DEF Good
      <3> QED
        BY <2>4
    <2> HIDE DEF Good, Bad
    <2> QED
      BY <1>3, <1>5, <1>6, <2>2, <2>4, <2>5
  <1>8. Good(n, items[n])
    <2>1. n \in 0..n /\ n \notin Bad
      <3> HIDE DEF Bad
      <3> QED
        BY <1>7
    <2> HIDE DEF Good
    <2> QED
      BY <2>1
  <1> DEFINE t == items[n]
  <1>9. /\ t \in Seq(S) /\ n >= k
        /\ n <= k => Len(t) = n
        /\ n >= k => Len(t) >= k
        /\ \A j \in 1..k : j <= n => t[j] = Item(q[j])
    BY <1>8
  <1> HIDE DEF t, S
  <1>10. DOMAIN t = 1..Len(t) /\ Len(t) \in Nat
    BY <1>9, LenProperties
  <1>11. k <= Len(t)
    BY <1>9, <1>10
  <1>12. \A j \in 1..k : t[j] = Item(q[j])
    <2>1. \A j \in 1..k : j <= n
      BY <1>9
    <2> QED
      BY <1>9, <2>1
  <1>13. k = n => Len(t) = n
    BY <1>9
  <1>14. Iterated(q) = t
    BY <1>1 DEF t
  <1> QED
    BY <1>10, <1>11, <1>12, <1>13, <1>14

\* s is the text t, and a 0 byte with whatever comes behind it.
StartsWithText(s, t) ==
    /\ Len(t) < Len(s)
    /\ \A i \in 1..Len(t) : s[i] = t[i]
    /\ s[Len(t) + 1] = Nul

\* The part of a text that is not left out in front of its 0 byte.
LEMMA BeginsCut ==
    ASSUME NEW s \in Seq(Alphabet), NEW t \in Seq(Alphabet), StartsWithText(s, t), NEW l \in Nat, Len(t) < l, l <= Len(s)
    PROVE  StartsWithText(SubSeq(s, 1, l), t) /\ SubSeq(s, 1, l) \in Seq(Alphabet)
  <1> DEFINE x == SubSeq(s, 1, l)
  <1>1. Len(t) \in Nat /\ Len(s) \in Nat
    BY LenProperties
  <1>2. x \in Seq(Alphabet) /\ Len(x) = l /\ \A i \in 1..l : x[i] = s[i]
    <2>1. \A i \in 1..l : s[i] \in Alphabet
      BY <1>1, ElementOfSeq
    <2> QED
      BY <1>1, <2>1, SubSeqProperties
  <1> HIDE DEF x
  <1>3. \A i \in 1..Len(t) : i \in 1..l
    BY <1>1
  <1>4. Len(t) + 1 \in 1..l
    BY <1>1
  <1>5. StartsWithText(x, t)
    BY <1>1, <1>2, <1>3, <1>4 DEF StartsWithText
  <1> QED
    BY <1>2, <1>5 DEF x

\* What is behind the first part of the text that s starts with.
LEMMA BeginsBehind ==
    ASSUME NEW s \in Seq(Alphabet), NEW b \in Seq(Alphabet), NEW t \in Seq(Alphabet), StartsWithText(s, b \o t)
    PROVE  StartsWithText(From(s, Len(b) + 1), t) /\ From(s, Len(b) + 1) \in Seq(Alphabet)
  <1> DEFINE n == Len(b)
             x == From(s, n + 1)
             y == b \o t
  <1>1. n \in Nat /\ Len(s) \in Nat /\ Len(t) \in Nat
    BY LenProperties
  <1>2. Len(y) = n + Len(t) /\ \A i \in 1..(n + Len(t)) : y[i] = IF i <= n THEN b[i] ELSE t[i - n]
    BY ConcatProperties
  <1> HIDE DEF y
  <1>3. StartsWithText(s, y)
    BY DEF y
  <1>4. Len(y) < Len(s) /\ s[Len(y) + 1] = Nul /\ \A i \in 1..Len(y) : s[i] = y[i]
    BY <1>3 DEF StartsWithText
  <1> HIDE DEF n
  <1>5. x \in Seq(Alphabet) /\ Len(x) = Len(s) - n /\ \A i \in 1..(Len(s) - n) : x[i] = s[n + i]
    <2> DEFINE p == n + 1
    <2>1. p \in Nat \ {0} /\ p \in 1..(Len(s) + 1)
      BY <1>1, <1>2, <1>4
    <2> HIDE DEF p
    <2>2. \A i \in p..Len(s) : s[i] \in Alphabet
      BY <1>1, <2>1, ElementOfSeq
    <2>3. /\ From(s, p) \in Seq(Alphabet) /\ Len(From(s, p)) = IF p <= Len(s) THEN Len(s) - p + 1 ELSE 0
      BY <1>1, <2>1, RestOf
    <2>4. \A i \in 1..(Len(s) - p + 1) : From(s, p)[i] = s[p + i - 1]
      BY <1>1, <2>1, <2>2, SubSeqProperties DEF From
    <2>5. p <= Len(s) /\ Len(s) - p + 1 = Len(s) - n /\ \A i \in 1..(Len(s) - n) : p + i - 1 = n + i
      BY <1>1, <1>2, <1>4 DEF p
    <2> HIDE DEF x
    <2>6. x = From(s, p)
      BY DEF x, p
    <2> QED
      BY <2>3, <2>4, <2>5, <2>6
  <1> HIDE DEF x
  <1>6. ASSUME NEW i \in 1..Len(t) PROVE x[i] = t[i]
    <2>1. i \in 1..(Len(s) - n) /\ n + i \in 1..Len(y) /\ n + i \in 1..(n + Len(t)) /\ ~(n + i <= n) /\ (n + i) - n = i
      BY <1>1, <1>2, <1>4
    <2> QED
      BY <1>2, <1>4, <1>5, <2>1
  <1>7. x[Len(t) + 1] = Nul
    <2>1. Len(t) + 1 \in 1..(Len(s) - n) /\ n + (Len(t) + 1) = Len(y) + 1
      BY <1>1, <1>2, <1>4
    <2> QED
      BY <1>4, <1>5, <2>1
  <1>8. Len(t) < Len(x)
    BY <1>1, <1>2, <1>4, <1>5
  <1> QED
    BY <1>5, <1>6, <1>7, <1>8 DEF StartsWithText, x, n

\* A string ends at its first 0 byte.
LEMMA CStringOf ==
    ASSUME NEW s \in Seq(Alphabet), NEW t \in Seq(Alphabet), StartsWithText(s, t), Without(t, {Nul})
    PROVE  CString(s) = t
  <1> DEFINE p == Place(s, Nul)
             n == Len(t)
  <1>1. n \in Nat /\ Len(s) \in Nat /\ DOMAIN s = 1..Len(s) /\ DOMAIN t = 1..n
    BY LenProperties
  <1>2. n < Len(s) /\ s[n + 1] = Nul /\ \A i \in 1..n : s[i] = t[i] /\ t[i] # Nul
    BY <1>1 DEF StartsWithText, Without
  <1>3. /\ p \in 0..Len(s)
        /\ p = 0 => \A k \in 1..Len(s) : s[k] # Nul
        /\ p > 0 => s[p] = Nul /\ \A k \in 1..Len(s) : k < p => s[k] # Nul
    BY PlaceFirst
  <1> HIDE DEF p, n
  <1>4. n + 1 \in 1..Len(s)
    BY <1>1, <1>2
  <1>5. p = n + 1
    <2>1. p # 0
      BY <1>2, <1>3, <1>4
    <2>2. ~(n + 1 < p)
      BY <1>2, <1>3, <1>4, <2>1
    <2>3. ASSUME p < n + 1 PROVE FALSE
      <3>1. p \in 1..n
        BY <1>1, <1>3, <2>1, <2>3
      <3> QED
        BY <1>2, <1>3, <2>1, <3>1
    <2> QED
      BY <1>1, <1>3, <2>2, <2>3
  <1>6. Nul \in Range(s)
    BY <1>1, <1>2, <1>4 DEF Range
  <1>7. CString(s) = SubSeq(s, 1, n)
    <2>1. p - 1 = n
      BY <1>1, <1>5
    <2> QED
      BY <1>6, <2>1 DEF CString, p
  <1>8. SubSeq(s, 1, n) = t
    <2> DEFINE x == SubSeq(s, 1, n)
    <2>1. \A i \in 1..n : s[i] \in Alphabet
      BY <1>1, <1>2, ElementOfSeq
    <2>2. x \in Seq(Alphabet) /\ Len(x) = n /\ \A i \in 1..n : x[i] = s[i]
      BY <1>1, <1>2, <2>1, SubSeqProperties
    <2> HIDE DEF x
    <2>3. x = t
      BY <1>2, <2>2, SeqEqual DEF n
    <2> QED
      BY <2>3 DEF x
  <1> QED
    BY <1>7, <1>8

\* The text of a pair with a 0 byte behind it gives its key, and its value if
\* it has one.
LEMMA ItemBegins ==
    ASSUME NEW c \in Pair, c.key # <<>>, c.value # <<>>,
           Without(c.key, {EQUAL}), Without(c.key, {Nul}), Without(c.value, {Nul}),
           NEW s \in Seq(Alphabet), StartsWithText(s, PairText(c))
    PROVE  KeyLength(s) # 0 /\ Item(s).key = c.key /\ c.value \in {NoValue, Item(s).value}
  <1> DEFINE k == c.key
             v == c.value
             t == PairText(c)
             n == Len(k)
             m == Len(s)
             l == KeyLength(s)
             front == SubSeq(s, 1, l)
             back == SubSeq(s, l + 2, m)
             p == Place(s, EQUAL)
  <1>1. /\ k \in Seq(Alphabet) /\ v \in Seq(Alphabet) /\ k # <<>> /\ v # <<>>
        /\ Without(k, {EQUAL}) /\ Without(k, {Nul}) /\ Without(v, {Nul})
    BY DEF Pair
  <1>2. t \in Seq(Alphabet) /\ t = k \o (IF v = NoValue THEN <<>> ELSE <<EQUAL>> \o v)
    BY PairTextTyped DEF PairText
  <1>3. Item(s) = [key |-> CString(front), value |-> IF back = <<>> THEN NoValue ELSE CString(back)]
    BY DEF Item
  <1>4. StartsWithText(s, t)
    OBVIOUS
  <1> HIDE DEF k, v, t
  <1>5. n \in Nat \ {0} /\ m \in Nat /\ DOMAIN k = 1..n
    BY <1>1, LenProperties, EmptySeq
  <1>6. l = IF p = 0 THEN m ELSE p - 1
    BY KeyLengthIs
  <1>7. /\ p \in 0..m
        /\ p = 0 => \A i \in 1..m : s[i] # EQUAL
        /\ p > 0 => s[p] = EQUAL /\ \A i \in 1..m : i < p => s[i] # EQUAL
    BY PlaceFirst
  <1>8. \A i \in 1..n : k[i] # EQUAL
    BY <1>1, <1>5 DEF Without
  <1> HIDE DEF p, l
  <1>9. CASE v = NoValue
    <2>1. t = k
      <3>1. t = k \o <<>>
        BY <1>2, <1>9
      <3> QED
        BY <1>1, <3>1, ConcatEmptySeq
    <2>2. n < m /\ s[n + 1] = Nul /\ \A i \in 1..n : s[i] = k[i]
      BY <1>4, <2>1 DEF StartsWithText
    <2>3. p = 0 \/ p > n + 1
      <3>1. ASSUME p \in 1..n PROVE FALSE
        BY <1>5, <1>7, <1>8, <2>2, <3>1
      <3>2. ASSUME p = n + 1 PROVE FALSE
        <4>1. s[n + 1] = EQUAL
          BY <1>5, <1>7, <3>2
        <4> QED
          BY <2>2, <4>1 DEF EQUAL, Nul
      <3> QED
        BY <1>5, <1>7, <3>1, <3>2
    <2>4. l \in Nat /\ n < l /\ l <= m
      BY <1>5, <1>6, <1>7, <2>2, <2>3
    <2>5. StartsWithText(front, k) /\ front \in Seq(Alphabet)
      BY <1>1, <1>4, <2>1, <2>4, BeginsCut
    <2>6. CString(front) = k
      <3> HIDE DEF front
      <3> QED
        BY <1>1, <2>5, CStringOf
    <2> HIDE DEF front, back
    <2>7. l # 0
      BY <1>5, <2>4
    <2> QED
      BY <1>3, <1>9, <2>6, <2>7 DEF k, v, l
  <1>10. CASE v # NoValue
    <2> DEFINE e == <<EQUAL>>
               b == k \o e
    <2>1. e \in Seq(Alphabet) /\ Len(e) = 1 /\ e[1] = EQUAL
      BY BytesAre
    <2> HIDE DEF e
    <2>2. t = k \o (e \o v)
      BY <1>2, <1>10 DEF e
    <2>3. /\ b \in Seq(Alphabet) /\ Len(b) = n + 1
          /\ \A i \in 1..(n + 1) : b[i] = IF i <= n THEN k[i] ELSE e[i - n]
      <3>1. /\ b \in Seq(Alphabet) /\ Len(b) = n + Len(e)
            /\ \A i \in 1..(n + Len(e)) : b[i] = IF i <= n THEN k[i] ELSE e[i - n]
        BY <1>1, <2>1, ConcatProperties
      <3> QED
        BY <2>1, <3>1
    <2> HIDE DEF b
    <2>4. t = b \o v
      <3>1. (k \o e) \o v = k \o (e \o v)
        BY <1>1, <2>1, Assoc
      <3> QED
        BY <2>2, <3>1 DEF b
    <2>5. Len(t) = n + 1 + Len(v) /\ Len(v) \in Nat \ {0}
          /\ \A i \in 1..(n + 1 + Len(v)) : t[i] = IF i <= n + 1 THEN b[i] ELSE v[i - (n + 1)]
      <3> DEFINE x == b \o v
      <3>1. /\ Len(x) = Len(b) + Len(v)
            /\ \A i \in 1..(Len(b) + Len(v)) : x[i] = IF i <= Len(b) THEN b[i] ELSE v[i - Len(b)]
        BY <1>1, <2>3, ConcatProperties
      <3> HIDE DEF x
      <3>2. Len(v) \in Nat \ {0}
        BY <1>1, LenProperties, EmptySeq
      <3> QED
        BY <2>3, <2>4, <3>1, <3>2 DEF x
    <2>6. \A i \in 1..(n + 1) : s[i] = b[i]
      <3>1. ASSUME NEW i \in 1..(n + 1) PROVE i \in 1..(n + 1 + Len(v)) /\ i <= n + 1 /\ i \in 1..Len(t)
        BY <1>5, <2>5
      <3> QED
        BY <1>4, <2>5, <3>1 DEF StartsWithText
    <2>7. s[n + 1] = EQUAL /\ \A i \in 1..n : s[i] # EQUAL
      <3>1. n + 1 \in 1..(n + 1) /\ ~(n + 1 <= n) /\ (n + 1) - n = 1 /\ \A i \in 1..n : i \in 1..(n + 1) /\ i <= n
        BY <1>5
      <3> QED
        BY <1>8, <2>1, <2>3, <2>6, <3>1
    <2>8. n + 1 < m
      BY <1>4, <1>5, <2>5 DEF StartsWithText
    <2>9. p = n + 1
      <3>1. n + 1 \in 1..m
        BY <1>5, <2>8
      <3>2. p # 0
        BY <1>7, <2>7, <3>1
      <3>3. ~(n + 1 < p)
        BY <1>7, <2>7, <3>1, <3>2
      <3>4. p \notin 1..n
        BY <1>7, <2>7, <3>2
      <3> QED
        BY <1>5, <1>7, <3>2, <3>3, <3>4
    <2>10. l = n
      BY <1>5, <1>6, <2>9
    <2>11. front = k
      <3>1. \A i \in 1..n : s[i] = k[i] /\ s[i] \in Alphabet
        <4>1. ASSUME NEW i \in 1..n PROVE i \in 1..(n + 1) /\ i <= n /\ i \in 1..m
          BY <1>5, <2>8
        <4> QED
          BY <2>3, <2>6, <4>1, ElementOfSeq
      <3> DEFINE x == SubSeq(s, 1, n)
      <3>2. x \in Seq(Alphabet) /\ Len(x) = n /\ \A i \in 1..n : x[i] = s[i]
        BY <1>5, <3>1, <2>8, SubSeqProperties
      <3> HIDE DEF x
      <3>3. x = k
        BY <1>1, <3>1, <3>2, SeqEqual
      <3> QED
        BY <2>10, <3>3 DEF x
    <2>12. StartsWithText(back, v) /\ back \in Seq(Alphabet)
      <3>1. StartsWithText(s, b \o v)
        BY <1>4, <2>4
      <3>2. StartsWithText(From(s, Len(b) + 1), v) /\ From(s, Len(b) + 1) \in Seq(Alphabet)
        BY <1>1, <2>3, <3>1, BeginsBehind
      <3>3. Len(b) + 1 = l + 2
        BY <1>5, <2>3, <2>10
      <3> QED
        BY <3>2, <3>3 DEF From
    <2> HIDE DEF front, back
    <2>13. CString(back) = v
      BY <1>1, <2>12, CStringOf
    <2>14. back # <<>>
      <3>1. Len(back) > Len(v) /\ Len(<<>>) = 0
        BY <2>12 DEF StartsWithText
      <3> QED
        BY <2>5, <3>1
    <2>15. CString(front) = k
      BY <1>1, <2>11, CStringWhole
    <2>16. l # 0
      BY <1>5, <2>10
    <2> QED
      BY <1>3, <2>13, <2>14, <2>15, <2>16 DEF k, v, l
  <1> QED
    BY <1>9, <1>10

\* The first piece of a text is the text of a pair with a 0 byte behind it, if
\* they are what the text begins with.
LEMMA FirstPiece ==
    ASSUME NEW s \in Seq(Alphabet), NEW t \in Seq(Alphabet), StartsWithText(s, t), Without(t, {AMP})
    PROVE  /\ StartsWithText(Pieces(s, AMP)[1], t)
           /\ Pieces(s, AMP)[1] \in Seq(Alphabet)
           /\ (\A i \in 1..Len(s) : Len(t) < i => s[i] # AMP) => Len(Pieces(s, AMP)) = 1
  <1> DEFINE p == Place(s, AMP)
             q == Pieces(s, AMP)
             n == Len(t)
             x == SubSeq(s, 1, p - 1)
             y == Pieces(From(s, p + 1), AMP)
  <1>1. n \in Nat /\ Len(s) \in Nat /\ DOMAIN t = 1..n
    BY LenProperties
  <1>2. /\ p \in 0..Len(s)
        /\ p > 0 => s[p] = AMP
    BY PlaceFirst
  <1>3. p = 0 => q = <<s>>
    BY PiecesFirst
  <1>4. p # 0 => q = <<x>> \o y
    BY PiecesFirst
  <1>5. n < Len(s) /\ s[n + 1] = Nul /\ \A i \in 1..n : s[i] = t[i] /\ t[i] # AMP
    BY <1>1 DEF StartsWithText, Without
  <1> HIDE DEF p, q, n
  <1>6. CASE p = 0
    <2>1. q[1] = s /\ Len(q) = 1
      BY <1>3, <1>6
    <2> QED
      BY <2>1 DEF q
  <1>7. CASE p # 0
    <2>1. p > n + 1
      <3>1. p \notin 1..n
        BY <1>2, <1>5, <1>7
      <3>2. ASSUME p = n + 1 PROVE FALSE
        BY <1>2, <1>5, <1>7, <3>2 DEF AMP, Nul
      <3> QED
        BY <1>1, <1>2, <1>7, <3>1, <3>2
    <2>2. p - 1 \in Nat /\ n < p - 1 /\ p - 1 <= Len(s) /\ p \in 1..Len(s)
      BY <1>1, <1>2, <2>1
    <2>3. StartsWithText(x, t) /\ x \in Seq(Alphabet)
      BY <2>2, BeginsCut DEF n
    <2>4. y \in Seq(Seq(Alphabet))
      <3>1. p + 1 \in Nat \ {0}
        BY <2>2
      <3>2. From(s, p + 1) \in Seq(Alphabet)
        BY <3>1, RestOf
      <3> QED
        BY <3>2, PiecesTyped
    <2> HIDE DEF x, y
    <2>5. q[1] = x
      <3> DEFINE W == Seq(Alphabet)
                 a == <<x>>
      <3>1. a \in Seq(W) /\ y \in Seq(W) /\ Len(a) = 1 /\ a[1] = x
        <4> HIDE DEF W
        <4> QED
          BY <2>3, <2>4 DEF W
      <3> HIDE DEF W, a
      <3>2. \A i \in 1..(Len(a) + Len(y)) : (a \o y)[i] = IF i <= Len(a) THEN a[i] ELSE y[i - Len(a)]
        BY <3>1, ConcatProperties
      <3>3. 1 \in 1..(Len(a) + Len(y)) /\ 1 <= Len(a)
        BY <3>1, LenProperties
      <3> QED
        BY <1>4, <1>7, <3>1, <3>2, <3>3 DEF a
    <2>6. ~\A i \in 1..Len(s) : n < i => s[i] # AMP
      <3>1. n < p
        BY <1>1, <2>1, <2>2
      <3> QED
        BY <1>2, <1>7, <2>2, <3>1
    <2> QED
      BY <2>3, <2>5, <2>6 DEF q, n
  <1> QED
    BY <1>6, <1>7

\* A text that begins with another, and the text that it is put together of.
LEMMA BeginsSplit ==
    ASSUME NEW s \in Seq(Alphabet), NEW t \in Seq(Alphabet), StartsWithText(s, t),
           NEW e, e = From(s, Len(t) + 1)
    PROVE  /\ e \in Seq(Alphabet) /\ StartsWithText(e, <<>>) /\ s = t \o e
           /\ Len(e) = Len(s) - Len(t) /\ \A i \in 1..Len(e) : e[i] = s[Len(t) + i]
  <1> DEFINE n == Len(t)
             x == t \o e
             none == <<>>
  <1>1. n \in Nat /\ Len(s) \in Nat
    BY LenProperties
  <1>2. n < Len(s) /\ s[n + 1] = Nul /\ \A i \in 1..n : s[i] = t[i]
    BY DEF StartsWithText
  <1> HIDE DEF n
  <1>3. e \in Seq(Alphabet) /\ Len(e) = Len(s) - n /\ \A i \in 1..(Len(s) - n) : e[i] = s[n + i]
    <2> DEFINE p == n + 1
    <2>1. p \in Nat \ {0} /\ p <= Len(s)
      BY <1>1, <1>2
    <2> HIDE DEF p
    <2>2. \A i \in p..Len(s) : s[i] \in Alphabet
      BY <1>1, <2>1, ElementOfSeq
    <2>3. From(s, p) \in Seq(Alphabet) /\ Len(From(s, p)) = Len(s) - p + 1
      BY <1>1, <2>1, RestOf
    <2>4. \A i \in 1..(Len(s) - p + 1) : From(s, p)[i] = s[p + i - 1]
      BY <1>1, <2>1, <2>2, SubSeqProperties DEF From
    <2>5. Len(s) - p + 1 = Len(s) - n /\ \A i \in 1..(Len(s) - n) : p + i - 1 = n + i
      BY <1>1, <1>2 DEF p
    <2>6. e = From(s, p)
      BY DEF p, n
    <2> QED
      BY <2>3, <2>4, <2>5, <2>6
  <1>4. x \in Seq(Alphabet) /\ Len(x) = n + Len(e)
            /\ \A i \in 1..(n + Len(e)) : x[i] = IF i <= n THEN t[i] ELSE e[i - n]
    BY <1>3, ConcatProperties DEF n
  <1> HIDE DEF x
  <1>5. Len(x) = Len(s)
    BY <1>1, <1>3, <1>4
  <1>6. ASSUME NEW i \in 1..Len(s) PROVE s[i] = x[i]
    <2>1. i \in 1..(n + Len(e))
      BY <1>4, <1>5
    <2>2. CASE i <= n
      BY <1>1, <1>2, <1>4, <2>1, <2>2
    <2>3. CASE ~(i <= n)
      <3>1. i - n \in 1..(Len(s) - n) /\ n + (i - n) = i
        BY <1>1, <2>3
      <3> QED
        BY <1>3, <1>4, <2>1, <2>3, <3>1
    <2> QED
      BY <2>2, <2>3
  <1>7. s = x
    BY <1>4, <1>5, <1>6, SeqEqual
  <1>8. StartsWithText(e, none)
    <2>1. none \in Seq(Alphabet) /\ Len(none) = 0
      BY EmptySeq
    <2> HIDE DEF none
    <2>2. 1 \in 1..(Len(s) - n)
      BY <1>1, <1>2
    <2> QED
      BY <1>1, <1>2, <1>3, <2>1, <2>2 DEF StartsWithText
  <1> QED
    BY <1>1, <1>3, <1>7, <1>8 DEF x, n

\* A text in front of a 0 byte is begun with.
LEMMA BeginsJoin ==
    ASSUME NEW t \in Seq(Alphabet), NEW e \in Seq(Alphabet), StartsWithText(e, <<>>), NEW s, s = t \o e
    PROVE  /\ s \in Seq(Alphabet) /\ StartsWithText(s, t)
           /\ Len(s) = Len(t) + Len(e) /\ \A i \in 1..Len(s) : Len(t) < i => s[i] = e[i - Len(t)]
  <1> DEFINE n == Len(t)
             none == <<>>
  <1>1. n \in Nat /\ Len(e) \in Nat
    BY LenProperties
  <1>2. Len(e) > 0 /\ e[1] = Nul
    <2>1. StartsWithText(e, none) /\ Len(none) = 0
      OBVIOUS
    <2> HIDE DEF none
    <2> QED
      BY <2>1 DEF StartsWithText
  <1>3. s \in Seq(Alphabet) /\ Len(s) = n + Len(e)
            /\ \A i \in 1..(n + Len(e)) : s[i] = IF i <= n THEN t[i] ELSE e[i - n]
    BY ConcatProperties
  <1> HIDE DEF n
  <1>4. n < Len(s)
    BY <1>1, <1>2, <1>3
  <1>5. \A i \in 1..n : s[i] = t[i]
    BY <1>1, <1>3
  <1>6. s[n + 1] = Nul
    <2>1. n + 1 \in 1..(n + Len(e)) /\ ~(n + 1 <= n) /\ (n + 1) - n = 1
      BY <1>1, <1>2
    <2> QED
      BY <1>2, <1>3, <2>1
  <1>7. StartsWithText(s, t)
    BY <1>4, <1>5, <1>6 DEF StartsWithText, n
  <1>8. \A i \in 1..Len(s) : n < i => s[i] = e[i - n]
    BY <1>1, <1>3
  <1> QED
    BY <1>3, <1>7, <1>8 DEF n

\* A URL has the form it should have: nothing that ends a part is in it.
UrlReadable(r) ==
    /\ r.url # <<>> /\ r.url[1] = SLASH /\ Without(r.url, {QMARK}) /\ Without(r.version, {AMP})
    /\ \A k \in DOMAIN r.vars :
         LET v == r.vars[k]
         IN  /\ v.key # <<>> /\ v.value # <<>>
             /\ Without(v.key, {AMP, EQUAL, Nul}) /\ Without(v.value, {AMP, Nul})

\* The variables g are those of r, but for the value of one that has none.
VarsAre(g, r) ==
    \A k \in DOMAIN r.vars :
        k \in DOMAIN g /\ g[k].key = r.vars[k].key /\ r.vars[k].value \in {NoValue, g[k].value}

\* The variables of a URL are read from their text, whatever is behind its 0
\* byte, and there are no more of them when no separator is there.
LEMMA QueryRead ==
    ASSUME NEW r \in Requests, UrlReadable(r), r.vars # <<>>,
           NEW s \in Seq(Alphabet), StartsWithText(s, Joined(r.vars, <<AMP>>)),
           NEW g, g = Iterated(Pieces(s, AMP))
    PROVE  /\ VarsAre(g, r)
           /\ (\A i \in 1..Len(s) : Len(Joined(r.vars, <<AMP>>)) < i => s[i] # AMP)
                => Len(g) = Len(r.vars)
  <1> DEFINE c == r.vars
             n == Len(c)
             sep == <<AMP>>
             J == Joined(c, sep)
             e == From(s, Len(J) + 1)
             txt(k) == PairText(c[k])
             R(k) == PairsFrom(c, sep, k)
             B == [k \in 1..(n - 1) |-> txt(k)]
             U == [k \in 1..n |-> txt(k) \o (R(k) \o e)]
             P == Pieces(U[n], AMP)
             q == Pieces(s, AMP)
  <1>1. c \in Seq(Pair) /\ c # <<>> /\ sep \in Seq(Alphabet) /\ AMP \in Alphabet
    BY PartsAre, BytesAre, AlphabetAssumption
  <1>2. n \in Nat \ {0} /\ DOMAIN c = 1..n
    BY <1>1, LenProperties, EmptySeq
  <1>3. ASSUME NEW k \in 1..n
        PROVE  /\ c[k] \in Pair /\ c[k].key # <<>> /\ c[k].value # <<>>
               /\ Without(c[k].key, {AMP}) /\ Without(c[k].key, {EQUAL}) /\ Without(c[k].key, {Nul})
               /\ Without(c[k].value, {AMP}) /\ Without(c[k].value, {Nul})
    <2>1. c[k].key # <<>> /\ c[k].value # <<>>
          /\ Without(c[k].key, {AMP, EQUAL, Nul}) /\ Without(c[k].value, {AMP, Nul})
      BY <1>2 DEF UrlReadable
    <2>2. c[k] \in Pair
      BY <1>1, ElementOfSeq
    <2> HIDE DEF c
    <2> QED
      BY <2>1, <2>2, WithoutSmaller
  <1>4. J \in Seq(Alphabet) /\ StartsWithText(s, J)
    BY <1>1, JoinedTyped
  <1> HIDE DEF c, J, n
  <1>5. /\ e \in Seq(Alphabet) /\ StartsWithText(e, <<>>) /\ s = J \o e
        /\ Len(e) = Len(s) - Len(J) /\ \A i \in 1..Len(e) : e[i] = s[Len(J) + i]
    BY <1>4, BeginsSplit
  <1> HIDE DEF e
  <1>6. ASSUME NEW k \in 1..n
        PROVE  txt(k) \in Seq(Alphabet) /\ Without(txt(k), {AMP})
    <2>1. EQUAL \notin {AMP}
      BY DEF EQUAL, AMP
    <2> QED
      BY <1>3, <2>1, PairTextTyped, PairTextWithout
  <1>7. ASSUME NEW k \in 0..n
        PROVE  /\ R(k) \in Seq(Alphabet)
               /\ k = 0 => J = R(k)
               /\ k = n => R(k) = <<>>
               /\ k < n => R(k) = PairPiece(c, sep, k + 1) \o R(k + 1)
    <2> HIDE DEF sep
    <2> QED
      BY <1>1, PairsFromAre DEF n, J
  <1> HIDE DEF txt, R
  <1>8. ASSUME NEW k \in 1..n PROVE U[k] = txt(k) \o (R(k) \o e) /\ U[k] \in Seq(Alphabet)
    <2>1. U[k] = txt(k) \o (R(k) \o e)
      OBVIOUS
    <2>2. R(k) \in Seq(Alphabet)
      <3>1. k \in 0..n
        BY <1>2
      <3> QED
        BY <1>7, <3>1
    <2> HIDE DEF U
    <2> QED
      BY <1>5, <1>6, <2>1, <2>2, WordsJoin
  <1>9. U \in [1..n -> Seq(Alphabet)]
    <2>1. U = [k \in 1..n |-> U[k]]
      OBVIOUS
    <2> HIDE DEF U
    <2> QED
      BY <1>8, <2>1
  <1>10. B \in Seq(Seq(Alphabet)) /\ Len(B) = n - 1 /\ \A k \in 1..(n - 1) : B[k] = txt(k)
    <2>1. \A k \in 1..(n - 1) : B[k] = txt(k)
      OBVIOUS
    <2>2. B = [k \in 1..(n - 1) |-> B[k]] /\ n - 1 \in Nat
      BY <1>2
    <2> HIDE DEF B
    <2>3. \A k \in 1..(n - 1) : B[k] \in Seq(Alphabet)
      <3>1. \A k \in 1..(n - 1) : k \in 1..n
        BY <1>2
      <3> QED
        BY <1>6, <2>1, <3>1
    <2> QED
      BY <2>1, <2>2, <2>3, TextsTyped
  <1> HIDE DEF U, B
  <1>11. ASSUME NEW k \in 1..(n - 1) PROVE U[k] = B[k] \o (<<AMP>> \o U[k + 1])
    <2>1. k \in 1..n /\ k \in 0..n /\ k < n /\ k + 1 \in 1..n /\ k + 1 \in 0..n /\ k + 1 # 1
      BY <1>2
    <2> DEFINE b == txt(k + 1)
               u == R(k + 1)
    <2>2. b \in Seq(Alphabet) /\ u \in Seq(Alphabet)
      <3>1. b \in Seq(Alphabet)
        BY <1>6, <2>1
      <3>2. u \in Seq(Alphabet)
        BY <1>7, <2>1
      <3> QED
        BY <3>1, <3>2
    <2>3. R(k) = (sep \o b) \o u
      <3>1. PairPiece(c, sep, k + 1) = sep \o b
        BY <2>1 DEF PairPiece, txt
      <3> QED
        BY <1>7, <2>1, <3>1
    <2>4. U[k + 1] = b \o (u \o e)
      BY <1>8, <2>1
    <2>5. U[k] = txt(k) \o (R(k) \o e)
      BY <1>8, <2>1
    <2>6. B[k] = txt(k)
      BY <1>10
    <2> HIDE DEF b, u
    <2>7. R(k) \o e = sep \o (b \o (u \o e))
      <3> HIDE DEF sep
      <3> DEFINE x == sep \o b
      <3>1. x \in Seq(Alphabet) /\ u \o e \in Seq(Alphabet)
        BY <1>1, <1>5, <2>2, WordsJoin
      <3>2. (x \o u) \o e = x \o (u \o e)
        <4> HIDE DEF x
        <4>1. x \in Seq(Alphabet) /\ u \in Seq(Alphabet) /\ e \in Seq(Alphabet)
          BY <1>5, <2>2, <3>1
        <4> QED
          BY ONLY <4>1, Assoc
      <3>3. (sep \o b) \o (u \o e) = sep \o (b \o (u \o e))
        BY <1>1, <2>2, <3>1, Assoc
      <3> QED
        BY <2>3, <3>2, <3>3
    <2> QED
      BY <2>4, <2>5, <2>6, <2>7
  <1>12. U[1] = s
    <2>1. 1 \in 1..n /\ 1 \in 0..n /\ 0 \in 0..n /\ 0 < n /\ 0 + 1 = 1
      BY <1>2
    <2>2. PairPiece(c, sep, 1) = <<>> \o txt(1) /\ <<>> \o txt(1) = txt(1)
      BY <1>6, <2>1, ConcatEmptySeq DEF PairPiece, txt
    <2>3. J = R(0) /\ R(0) = PairPiece(c, sep, 1) \o R(1) /\ R(1) \in Seq(Alphabet)
      BY <1>7, <2>1
    <2>4. U[1] = txt(1) \o (R(1) \o e) /\ txt(1) \in Seq(Alphabet)
      BY <1>6, <1>8, <2>1
    <2>5. (txt(1) \o R(1)) \o e = txt(1) \o (R(1) \o e)
      BY <1>5, <2>3, <2>4, Assoc
    <2>6. J = txt(1) \o R(1)
      BY <2>2, <2>3
    <2>7. s = J \o e
      BY <1>5
    <2> QED
      BY <2>4, <2>5, <2>6, <2>7, Zenon
  <1>13. U[n] = txt(n) \o e /\ n \in 1..n
    <2>1. n \in 1..n /\ n \in 0..n
      BY <1>2
    <2>2. R(n) = <<>>
      BY <1>7, <2>1
    <2>3. <<>> \o e = e
      BY <1>5, ConcatEmptySeq
    <2> QED
      BY <1>8, <2>1, <2>2, <2>3
  <1>14. /\ U[n] \in Seq(Alphabet) /\ StartsWithText(U[n], txt(n))
         /\ Len(U[n]) = Len(txt(n)) + Len(e)
         /\ \A i \in 1..Len(U[n]) : Len(txt(n)) < i => U[n][i] = e[i - Len(txt(n))]
    <2> DEFINE t == txt(n)
               u == U[n]
    <2>1. t \in Seq(Alphabet) /\ u = t \o e /\ e \in Seq(Alphabet) /\ StartsWithText(e, <<>>)
      BY <1>5, <1>6, <1>13
    <2> HIDE DEF t, u
    <2>2. u \in Seq(Alphabet) /\ StartsWithText(u, t)
      BY ONLY <2>1, BeginsJoin
    <2>3. Len(u) = Len(t) + Len(e)
      BY ONLY <2>1, BeginsJoin
    <2>4. \A i \in 1..Len(u) : Len(t) < i => u[i] = e[i - Len(t)]
      BY ONLY <2>1, BeginsJoin
    <2> QED
      BY <2>2, <2>3, <2>4 DEF t, u
  <1>15. q = B \o P
    <2>1. \A i \in 1..(n - 1) : Without(B[i], {AMP})
      <3>1. \A k \in 1..(n - 1) : k \in 1..n
        BY <1>2
      <3> QED
        BY <1>6, <1>10, <3>1
    <2> QED
      BY <1>1, <1>2, <1>9, <1>10, <1>11, <1>12, <2>1, PiecesFront
  <1>16. /\ StartsWithText(P[1], txt(n)) /\ P[1] \in Seq(Alphabet)
         /\ (\A i \in 1..Len(U[n]) : Len(txt(n)) < i => U[n][i] # AMP) => Len(P) = 1
    BY <1>6, <1>13, <1>14, FirstPiece
  <1>17. P \in Seq(Seq(Alphabet)) /\ Len(P) \in Nat \ {0}
    BY <1>14, PiecesTyped
  <1> HIDE DEF P, q
  <1>18. /\ Len(q) = n - 1 + Len(P) /\ q[n] = P[1] /\ \A k \in 1..(n - 1) : q[k] = txt(k)
    <2> DEFINE W == Seq(Alphabet)
               x == B \o P
    <2>1. B \in Seq(W) /\ P \in Seq(W)
      BY <1>10, <1>17
    <2> HIDE DEF W
    <2>2. Len(x) = Len(B) + Len(P)
          /\ \A i \in 1..(Len(B) + Len(P)) : x[i] = IF i <= Len(B) THEN B[i] ELSE P[i - Len(B)]
      BY <2>1, ConcatProperties
    <2> HIDE DEF x
    <2>3. /\ n \in 1..(Len(B) + Len(P)) /\ ~(n <= Len(B)) /\ n - Len(B) = 1
          /\ \A k \in 1..(n - 1) : k \in 1..(Len(B) + Len(P)) /\ k <= Len(B)
      BY <1>2, <1>10, <1>17
    <2> QED
      BY <1>10, <1>15, <2>2, <2>3 DEF x
  <1>19. ASSUME NEW k \in 1..n
         PROVE  /\ KeyLength(q[k]) # 0
                /\ Item(q[k]).key = c[k].key /\ c[k].value \in {NoValue, Item(q[k]).value}
    <2>1. CASE k = n
      BY <1>3, <1>16, <1>18, <2>1, ItemBegins DEF txt
    <2>2. CASE k # n
      <3>1. k \in 1..(n - 1)
        BY <1>2, <2>2
      <3>2. KeyLength(txt(k)) # 0 /\ Item(txt(k)) = c[k]
        BY <1>3, ItemIs DEF txt
      <3> QED
        BY <1>18, <3>1, <3>2
    <2> QED
      BY <2>1, <2>2
  <1> DEFINE m == Len(q)
  <1>20. m \in Nat /\ n \in 0..m
    BY <1>2, <1>17, <1>18
  <1> HIDE DEF m
  <1>21. /\ DOMAIN Iterated(q) = 1..Len(Iterated(q))
         /\ Len(Iterated(q)) \in Nat /\ n <= Len(Iterated(q))
         /\ \A i \in 1..n : Iterated(q)[i] = Item(q[i])
         /\ n = m => Len(Iterated(q)) = m
    <2>1. \A i \in 1..n : KeyLength(q[i]) # 0
      BY <1>19
    <2> QED
      BY <1>20, <2>1, IteratedFront DEF m
  <1>22. g = Iterated(q)
    BY DEF q
  <1>23. VarsAre(g, r)
    <2>1. ASSUME NEW k \in 1..n
          PROVE  k \in DOMAIN g /\ g[k].key = c[k].key /\ c[k].value \in {NoValue, g[k].value}
      <3>1. k \in DOMAIN g
        BY <1>2, <1>21, <1>22
      <3> QED
        BY <1>19, <1>21, <1>22, <3>1
    <2> QED
      BY <1>2, <2>1 DEF VarsAre, c
  <1>24. ASSUME \A i \in 1..Len(s) : Len(J) < i => s[i] # AMP PROVE Len(g) = n
    <2>1. ASSUME NEW i \in 1..Len(U[n]), Len(txt(n)) < i PROVE U[n][i] # AMP
      <3>1. Len(txt(n)) \in Nat /\ Len(e) \in Nat /\ Len(J) \in Nat /\ Len(s) \in Nat
        BY <1>4, <1>5, <1>6, <1>13, LenProperties
      <3> DEFINE j == i - Len(txt(n))
      <3>2. j \in 1..Len(e) /\ Len(J) + j \in 1..Len(s) /\ Len(J) < Len(J) + j
        BY <1>5, <1>14, <2>1, <3>1
      <3>3. U[n][i] = e[j]
        BY <1>14, <2>1
      <3> HIDE DEF j
      <3> QED
        BY <1>5, <1>24, <3>2, <3>3
    <2>2. Len(P) = 1
      BY <1>16, <2>1
    <2>3. m = n
      BY <1>2, <1>18, <2>2 DEF m
    <2> QED
      BY <1>21, <1>22, <2>3
  <1> QED
    BY <1>23, <1>24 DEF J, c, n

\* What is in a URL: the path, and the text of the variables behind its mark.
LEMMA TargetIs ==
    ASSUME NEW r \in Requests, UrlReadable(r), NEW J, J = Joined(r.vars, <<AMP>>)
    PROVE  /\ Target(r) \in Seq(Alphabet) /\ Len(r.url) \in Nat /\ Len(r.url) > 0
           /\ Len(Target(r)) \in Nat /\ Len(Target(r)) > 0 /\ Target(r)[1] = SLASH
           /\ \A k \in 1..Len(r.url) : Target(r)[k] # QMARK
           /\ r.vars = <<>> => Len(Target(r)) = Len(r.url)
           /\ r.vars # <<>> =>
                /\ J \in Seq(Alphabet) /\ Len(J) \in Nat
                /\ Len(Target(r)) = Len(r.url) + 1 + Len(J)
                /\ Target(r)[Len(r.url) + 1] = QMARK
                /\ \A k \in 1..Len(J) : Target(r)[Len(r.url) + 1 + k] = J[k]
  <1> DEFINE u == r.url
             n == Len(u)
             b == <<QMARK>>
  <1>1. u \in Seq(Alphabet) /\ r.vars \in Seq(Pair)
    BY RequestsAssumption DEF RequestParts
  <1>2. u # <<>> /\ u[1] = SLASH /\ Without(u, {QMARK})
    BY DEF UrlReadable
  <1> HIDE DEF u
  <1>3. n \in Nat /\ n > 0 /\ DOMAIN u = 1..n /\ 1 \in 1..n
    BY <1>1, <1>2, EmptySeq, LenProperties
  <1>4. \A k \in 1..n : u[k] # QMARK
    BY <1>2, <1>3 DEF Without
  <1>5. J \in Seq(Alphabet) /\ Len(J) \in Nat
    BY <1>1, BytesAre, JoinedTyped, LenProperties
  <1>6. CASE r.vars = <<>>
    <2>1. Target(r) = u
      <3>1. Target(r) = u \o <<>>
        BY <1>6 DEF Target, u
      <3> QED
        BY <1>1, <3>1, ConcatEmptySeq
    <2> QED
      BY <1>1, <1>2, <1>3, <1>4, <1>6, <2>1 DEF u
  <1>7. CASE r.vars # <<>>
    <2> DEFINE e == b \o J
               t == u \o e
    <2>1. Target(r) = t
      BY <1>7 DEF Target, u
    <2>2. b \in Seq(Alphabet) /\ Len(b) = 1 /\ b[1] = QMARK
      <3>1. <<QMARK>> \in Seq(Alphabet)
        BY BytesAre
      <3>2. Len(<<QMARK>>) = 1 /\ <<QMARK>>[1] = QMARK
        OBVIOUS
      <3> QED
        BY <3>1, <3>2 DEF b
    <2> HIDE DEF b
    <2>3. /\ e \in Seq(Alphabet) /\ Len(e) = 1 + Len(J)
          /\ \A k \in 1..(1 + Len(J)) : e[k] = IF k <= 1 THEN b[k] ELSE J[k - 1]
      <3>1. b \in Seq(Alphabet) /\ J \in Seq(Alphabet)
        BY <1>5, <2>2
      <3>2. /\ b \o J \in Seq(Alphabet) /\ Len(b \o J) = Len(b) + Len(J)
            /\ \A k \in 1..(Len(b) + Len(J)) : (b \o J)[k] = IF k <= Len(b) THEN b[k] ELSE J[k - Len(b)]
        BY ONLY <3>1, ConcatProperties
      <3> QED
        BY <2>2, <3>2
    <2> HIDE DEF e
    <2>4. /\ t \in Seq(Alphabet) /\ Len(t) = n + Len(e)
          /\ \A k \in 1..(n + Len(e)) : t[k] = IF k <= n THEN u[k] ELSE e[k - n]
      BY <1>1, <2>3, ConcatProperties
    <2> HIDE DEF t, n
    <2>5. \A k \in 1..n : t[k] = u[k]
      BY <1>3, <1>5, <2>3, <2>4
    <2>6. t[n + 1] = QMARK
      <3>1. n + 1 \in 1..(n + Len(e)) /\ ~(n + 1 <= n) /\ (n + 1) - n = 1 /\ 1 \in 1..(1 + Len(J))
        BY <1>3, <1>5, <2>3
      <3>2. t[n + 1] = e[(n + 1) - n]
        BY <2>4, <3>1
      <3>3. e[1] = b[1]
        BY <2>3, <3>1
      <3> QED
        BY <2>2, <3>1, <3>2, <3>3
    <2>7. ASSUME NEW k \in 1..Len(J) PROVE t[n + 1 + k] = J[k]
      <3>1. /\ n + 1 + k \in 1..(n + Len(e)) /\ ~(n + 1 + k <= n) /\ (n + 1 + k) - n = 1 + k
            /\ 1 + k \in 1..(1 + Len(J)) /\ ~(1 + k <= 1) /\ (1 + k) - 1 = k
        BY <1>3, <1>5, <2>3
      <3>2. t[n + 1 + k] = e[(n + 1 + k) - n]
        BY <2>4, <3>1
      <3>3. e[1 + k] = J[(1 + k) - 1]
        BY <2>3, <3>1
      <3> QED
        BY <3>1, <3>2, <3>3
    <2>8. Len(t) = n + 1 + Len(J) /\ Len(t) \in Nat /\ Len(t) > 0
      BY <1>3, <1>5, <2>3, <2>4
    <2>9. t[1] = SLASH /\ \A k \in 1..n : t[k] # QMARK
      BY <1>2, <1>3, <1>4, <2>5
    <2> QED
      BY <1>3, <1>5, <1>7, <2>1, <2>4, <2>6, <2>7, <2>8, <2>9 DEF n, u
  <1> QED
    BY <1>6, <1>7

\* Behind the q-th byte of a text of m bytes, which has a 0 byte behind its
\* end, there is what is behind its q-th byte, whatever is read of the rest.
LEMMA QueryPart ==
    ASSUME NEW w \in Seq(Alphabet), NEW J \in Seq(Alphabet), NEW q \in Nat, q > 0,
           q + Len(J) < Len(w), w[q + Len(J) + 1] = Nul, \A k \in 1..Len(J) : w[q + k] = J[k]
    PROVE  LET y == From(w, q + 1)
               s == SubSeq(y, 1, Min({q + Len(J), Len(y)}))
           IN  /\ s \in Seq(Alphabet) /\ StartsWithText(s, J) /\ Len(s) \in Nat /\ Len(s) <= q + Len(J)
               /\ \A k \in 1..Len(s) : s[k] = w[q + k] /\ q + k <= Len(w)
  <1> DEFINE m == q + Len(J)
             y == From(w, q + 1)
             s == SubSeq(y, 1, Min({m, Len(y)}))
             n == Len(w)
             p == q + 1
             l == Min({m, Len(y)})
             j == Len(J)
  <1>1. n \in Nat /\ j \in Nat /\ m \in Nat /\ m = q + j /\ m < n
    BY LenProperties
  <1>2. y \in Seq(Alphabet) /\ Len(y) \in Nat /\ Len(y) = n - q /\ j < Len(y)
    <2>1. p \in Nat \ {0} /\ p <= n /\ n - p + 1 = n - q
      BY <1>1
    <2> HIDE DEF p
    <2>2. /\ From(w, p) \in Seq(Alphabet) /\ Len(From(w, p)) \in Nat
          /\ Len(From(w, p)) = IF p <= Len(w) THEN Len(w) - p + 1 ELSE 0
      BY <2>1, RestOf
    <2>3. y = From(w, p)
      BY DEF p
    <2> QED
      BY <1>1, <2>1, <2>2, <2>3
  <1> HIDE DEF n
  <1>3. \A k \in 1..(n - q) : y[k] = w[q + k]
    <2>1. p \in 1..(n + 1) /\ \A k \in p..n : w[k] \in Alphabet
      BY <1>1, ElementOfSeq DEF n
    <2> HIDE DEF p
    <2>2. \A k \in 1..(n - p + 1) : y[k] = w[p + k - 1]
      <3>1. y = SubSeq(w, p, n)
        BY DEF From, n, p
      <3>2. n \in Nat
        BY <1>1
      <3>3. \A k \in 1..(n - p + 1) : SubSeq(w, p, n)[k] = w[p + k - 1]
        BY <2>1, <3>2, SubSeqProperties
      <3> QED
        BY <3>1, <3>3
    <2> USE DEF p
    <2>3. n - p + 1 = n - q /\ \A k \in 1..(n - q) : p + k - 1 = q + k
      BY <1>1
    <2> HIDE DEF p
    <2> QED
      BY <2>2, <2>3
  <1> HIDE DEF p
  <1>4. StartsWithText(y, J)
    <2>1. \A k \in 1..j : k \in 1..(n - q)
      BY <1>1
    <2>2. j + 1 \in 1..(n - q) /\ q + (j + 1) = m + 1
      BY <1>1
    <2>3. y[j + 1] = Nul
      BY <1>3, <2>2
    <2>4. \A k \in 1..j : y[k] = J[k]
      BY <1>3, <2>1
    <2> QED
      BY <1>2, <2>3, <2>4 DEF StartsWithText
  <1>5. l \in Nat /\ l <= m /\ l <= Len(y) /\ j < l
    <2> DEFINE S == {m, Len(y)}
    <2>1. S \subseteq Nat /\ S # {}
      BY <1>1, <1>2
    <2>2. Min(S) \in S /\ \A k \in S : Min(S) <= k
      BY <2>1, MinLeast
    <2> QED
      BY <1>1, <1>2, <2>2
  <1> HIDE DEF l
  <1>6. s = SubSeq(y, 1, l)
    BY DEF l
  <1>7. StartsWithText(s, J) /\ s \in Seq(Alphabet)
    BY <1>2, <1>4, <1>5, <1>6, BeginsCut
  <1>8. Len(s) = l /\ \A k \in 1..l : s[k] = y[k]
    <2> DEFINE x == SubSeq(y, 1, l)
    <2>1. \A k \in 1..l : y[k] \in Alphabet
      BY <1>2, <1>5, ElementOfSeq
    <2>2. Len(x) = l /\ \A k \in 1..l : x[k] = y[k]
      BY <1>2, <1>5, <2>1, SubSeqProperties
    <2> HIDE DEF x
    <2>3. s = x
      BY <1>6 DEF x
    <2> QED
      BY <2>2, <2>3
  <1>9. ASSUME NEW k \in 1..l PROVE s[k] = w[q + k] /\ q + k <= n
    <2>1. k \in 1..(n - q) /\ q + k <= n
      BY <1>1, <1>2, <1>5
    <2> QED
      BY <1>3, <1>8, <2>1
  <1> QED
    BY <1>5, <1>7, <1>8, <1>9 DEF n

\* The bytes of two texts in one.
LEMMA BytesOfJoin ==
    ASSUME NEW s \in Seq(Alphabet), NEW t \in Seq(Alphabet)
    PROVE  /\ Len(s) \in Nat /\ Len(t) \in Nat /\ s \o t \in Seq(Alphabet) /\ Len(s \o t) = Len(s) + Len(t)
           /\ \A k \in 1..Len(s) : (s \o t)[k] = s[k]
           /\ \A k \in 1..Len(t) : (s \o t)[Len(s) + k] = t[k]
  <1> DEFINE m == Len(s)
             n == Len(t)
             w == s \o t
  <1>1. m \in Nat /\ n \in Nat
    BY LenProperties
  <1>2. /\ w \in Seq(Alphabet) /\ Len(w) = m + n
        /\ \A k \in 1..(m + n) : w[k] = IF k <= m THEN s[k] ELSE t[k - m]
    BY ConcatProperties
  <1> HIDE DEF m, n, w
  <1>3. \A k \in 1..m : k \in 1..(m + n) /\ k <= m
    BY <1>1
  <1>4. \A k \in 1..n : m + k \in 1..(m + n) /\ ~(m + k <= m) /\ (m + k) - m = k
    BY <1>1
  <1>5. ASSUME NEW k \in 1..n PROVE w[m + k] = t[k]
    <2>1. w[m + k] = t[(m + k) - m]
      BY <1>2, <1>4
    <2> QED
      BY <1>4, <2>1
  <1>6. \A k \in 1..m : w[k] = s[k]
    BY <1>2, <1>3
  <1> QED
    BY <1>1, <1>2, <1>5, <1>6 DEF m, n, w

\* What the buffer has from the URL on: the URL, a 0 byte, what was received
\* behind it, and what was there before.
LEMMA BufferIs ==
    ASSUME NEW x \in Seq(Alphabet), NEW y \in Seq(Alphabet), NEW z \in Seq(Alphabet)
    PROVE  LET w == x \o <<Nul>> \o y \o <<Nul>> \o z
           IN  /\ w \in Seq(Alphabet) /\ Len(x) < Len(w) /\ w[Len(x) + 1] = Nul
               /\ \A k \in 1..Len(x) : w[k] = x[k]
               /\ \A k \in 1..Len(y) : w[Len(x) + 1 + k] = y[k]
  <1> DEFINE n == Len(y)
             m == Len(x)
             w == x \o <<Nul>> \o y \o <<Nul>> \o z
  <1>0. <<Nul>> \in Seq(Alphabet) /\ Len(<<Nul>>) = 1 /\ <<Nul>>[1] = Nul
    <2>1. Nul \in Alphabet
      BY AlphabetAssumption
    <2> QED
      BY <2>1
  <1>1. PICK b : b = <<Nul>>
    OBVIOUS
  <1>2. PICK x1 : x1 = x \o b
    OBVIOUS
  <1>3. PICK x2 : x2 = x1 \o y
    OBVIOUS
  <1>4. PICK x3 : x3 = x2 \o b
    OBVIOUS
  <1>5. w = x3 \o z
    BY <1>1, <1>2, <1>3, <1>4, Zenon
  <1> HIDE DEF w
  <1>6. b \in Seq(Alphabet) /\ Len(b) = 1 /\ b[1] = Nul
    BY <1>0, <1>1, Zenon
  <1>7. /\ m \in Nat /\ x1 \in Seq(Alphabet) /\ Len(x1) = m + 1
        /\ \A k \in 1..m : x1[k] = x[k]
        /\ \A k \in 1..1 : x1[m + k] = b[k]
    <2>1. x \in Seq(Alphabet) /\ b \in Seq(Alphabet)
      BY <1>6
    <2>2. /\ Len(x) \in Nat /\ Len(b) \in Nat /\ x \o b \in Seq(Alphabet)
          /\ Len(x \o b) = Len(x) + Len(b)
          /\ \A k \in 1..Len(x) : (x \o b)[k] = x[k]
          /\ \A k \in 1..Len(b) : (x \o b)[Len(x) + k] = b[k]
      BY ONLY <2>1, BytesOfJoin
    <2> QED
      BY <2>2, <1>2, <1>6
  <1>8. /\ n \in Nat /\ x2 \in Seq(Alphabet) /\ Len(x2) = (m + 1) + n
        /\ \A k \in 1..(m + 1) : x2[k] = x1[k]
        /\ \A k \in 1..n : x2[(m + 1) + k] = y[k]
    <2>1. x1 \in Seq(Alphabet) /\ y \in Seq(Alphabet)
      BY <1>7
    <2>2. /\ Len(x1) \in Nat /\ Len(y) \in Nat /\ x1 \o y \in Seq(Alphabet)
          /\ Len(x1 \o y) = Len(x1) + Len(y)
          /\ \A k \in 1..Len(x1) : (x1 \o y)[k] = x1[k]
          /\ \A k \in 1..Len(y) : (x1 \o y)[Len(x1) + k] = y[k]
      BY ONLY <2>1, BytesOfJoin
    <2> QED
      BY <2>2, <1>3, <1>7
  <1>9. /\ x3 \in Seq(Alphabet) /\ Len(x3) = ((m + 1) + n) + 1
        /\ \A k \in 1..((m + 1) + n) : x3[k] = x2[k]
    <2>1. x2 \in Seq(Alphabet) /\ b \in Seq(Alphabet)
      BY <1>6, <1>8
    <2>2. /\ Len(x2) \in Nat /\ Len(b) \in Nat /\ x2 \o b \in Seq(Alphabet)
          /\ Len(x2 \o b) = Len(x2) + Len(b)
          /\ \A k \in 1..Len(x2) : (x2 \o b)[k] = x2[k]
          /\ \A k \in 1..Len(b) : (x2 \o b)[Len(x2) + k] = b[k]
      BY ONLY <2>1, BytesOfJoin
    <2> QED
      BY <2>2, <1>4, <1>6, <1>8
  <1>10. /\ w \in Seq(Alphabet) /\ Len(z) \in Nat /\ Len(w) = (((m + 1) + n) + 1) + Len(z)
         /\ \A k \in 1..(((m + 1) + n) + 1) : w[k] = x3[k]
    <2>1. x3 \in Seq(Alphabet) /\ z \in Seq(Alphabet)
      BY <1>9
    <2>2. /\ Len(x3) \in Nat /\ Len(z) \in Nat /\ x3 \o z \in Seq(Alphabet)
          /\ Len(x3 \o z) = Len(x3) + Len(z)
          /\ \A k \in 1..Len(x3) : (x3 \o z)[k] = x3[k]
          /\ \A k \in 1..Len(z) : (x3 \o z)[Len(x3) + k] = z[k]
      BY ONLY <2>1, BytesOfJoin
    <2> QED
      BY <2>2, <1>5, <1>9
  <1>11. ASSUME NEW k \in 1..m PROVE w[k] = x[k]
    <2>1. k \in 1..(m + 1) /\ k \in 1..((m + 1) + n) /\ k \in 1..(((m + 1) + n) + 1)
      BY <1>7, <1>8
    <2> QED
      BY <1>7, <1>8, <1>9, <1>10, <2>1
  <1>12. w[m + 1] = Nul
    <2>1. m + 1 \in 1..(m + 1) /\ m + 1 \in 1..((m + 1) + n) /\ m + 1 \in 1..(((m + 1) + n) + 1) /\ 1 \in 1..1
      BY <1>7, <1>8
    <2> QED
      BY <1>6, <1>7, <1>8, <1>9, <1>10, <2>1
  <1>13. ASSUME NEW k \in 1..n PROVE w[m + 1 + k] = y[k]
    <2>1. /\ (m + 1) + k \in 1..((m + 1) + n) /\ (m + 1) + k \in 1..(((m + 1) + n) + 1)
          /\ m + 1 + k = (m + 1) + k
      BY <1>7, <1>8
    <2> QED
      BY <1>8, <1>9, <1>10, <2>1
  <1>14. m < Len(w)
    BY <1>7, <1>8, <1>10
  <1> QED
    BY <1>10, <1>11, <1>12, <1>13, <1>14 DEF w

\* The text that the variables of a URL are looked for in is theirs, and the
\* 0 byte behind it; when the path has less than five bytes, the end of the
\* version that is read too has no separator.
LEMMA QueryTextIs ==
    ASSUME rest \in Seq(Alphabet), sent \in Requests, Readable(sent), UrlReadable(sent),
           NEW off, NEW i, UrlTaken(off, i), NEW s \in QueryTexts(off, i),
           NEW J, J = Joined(sent.vars, <<AMP>>)
    PROVE  /\ sent.vars = <<>> => s = <<>>
           /\ sent.vars # <<>> =>
                /\ s \in Seq(Alphabet) /\ StartsWithText(s, J)
                /\ Len(sent.url) < 5 => \A k \in 1..Len(s) : Len(J) < k => s[k] # AMP
  <1> DEFINE T == Target(sent)
             U == Len(sent.url)
             v == sent.version
             url == SubSeq(rest, off + 1, off + i)
             q == Place(url, QMARK)
             behind == From(rest, off + i + 2)
             Cut(w) == SubSeq(BehindMark(w, q), 1, Min({i, Len(BehindMark(w, q))}))
             Whole(st) == url \o <<Nul>> \o behind \o <<Nul>> \o st
  <1>1. s \in IF q = 0 THEN {<<>>} ELSE {SubSeq(p, 1, Min({i, Len(p)})) : p \in
                {BehindMark(Whole(stale), q) : stale \in Stale}}
    <2>1. off + i < Len(rest)
      <3>1. PICK a, u \in Nat : a + u + 2 <= Len(rest) /\ off + i = a + u + 1
        BY Zenon DEF UrlTaken
      <3>2. Len(rest) \in Nat
        BY LenProperties
      <3> QED
        BY <3>1, <3>2
    <2> QED
      BY <2>1 DEF QueryTexts
  <1>2. /\ T \in Seq(Alphabet) /\ U \in Nat /\ U > 0
        /\ Len(T) \in Nat /\ Len(T) > 0 /\ T[1] = SLASH
        /\ \A k \in 1..U : T[k] # QMARK
        /\ sent.vars = <<>> => Len(T) = U
        /\ sent.vars # <<>> =>
             /\ J \in Seq(Alphabet) /\ Len(J) \in Nat
             /\ Len(T) = U + 1 + Len(J) /\ T[U + 1] = QMARK
             /\ \A k \in 1..Len(J) : T[U + 1 + k] = J[k]
    BY TargetIs
  <1> HIDE DEF T, U
  <1>3. PICK a, u \in Nat :
        /\ a > 2 /\ u = Len(T) /\ a + u + 2 <= Len(rest)
        /\ \A j \in 1..u : rest[a + 1 + j] = T[j]
        /\ off = IF At(rest, a + 2, SLASH) THEN a + 2 ELSE a + 1
        /\ i \in Nat /\ off + i = a + u + 1
        /\ SubSeq(From(rest, a + u + 3), 1, Len(v)) = v
        /\ Len(v) + 1 \in Ends(From(rest, a + u + 3), 1)
    BY Zenon DEF UrlTaken, T
  <1>4. off = a + 2 /\ i = u - 1
    <2>1. rest[a + 2] = SLASH /\ a + 2 \in DOMAIN rest
      <3>1. 1 \in 1..u /\ a + 1 + 1 = a + 2 /\ a + 2 \in 1..Len(rest)
        BY <1>2, <1>3, LenProperties
      <3> QED
        BY <1>2, <1>3, <3>1, LenProperties
    <2>2. off = a + 2
      BY <1>3, <2>1 DEF At
    <2> QED
      BY <1>3, <2>2
  <1>5. url \in Seq(Alphabet) /\ Len(url) = i /\ \A k \in 1..i : url[k] = T[k + 1]
    <2> DEFINE x == off + 1
               y == off + i
    <2>1. x \in Nat /\ y \in Nat /\ Len(rest) \in Nat /\ x >= 1 /\ x <= y + 1 /\ y <= Len(rest) /\ y - x + 1 = i
      BY <1>3, <1>4, LenProperties
    <2>2. \A k \in 1..i : x + k - 1 = a + 1 + (k + 1) /\ k + 1 \in 1..u
      BY <1>3, <1>4
    <2>3. \A k \in x..y : rest[k] \in Alphabet
      BY <2>1, ElementOfSeq
    <2> HIDE DEF x, y
    <2>4. /\ SubSeq(rest, x, y) \in Seq(Alphabet)
          /\ Len(SubSeq(rest, x, y)) = IF x <= y THEN y - x + 1 ELSE 0
          /\ \A k \in 1..(y - x + 1) : SubSeq(rest, x, y)[k] = rest[x + k - 1]
      BY <2>1, <2>3, SubSeqProperties
    <2>5. Len(SubSeq(rest, x, y)) = i
      BY <1>3, <2>1, <2>4
    <2>6. \A k \in 1..i : SubSeq(rest, x, y)[k] = T[k + 1]
      <3>1. ASSUME NEW k \in 1..i PROVE SubSeq(rest, x, y)[k] = T[k + 1]
        <4>1. k \in 1..(y - x + 1)
          BY <2>1
        <4>2. SubSeq(rest, x, y)[k] = rest[x + k - 1]
          BY <2>4, <4>1
        <4>3. x + k - 1 = a + 1 + (k + 1) /\ k + 1 \in 1..u
          BY <2>2
        <4> QED
          BY <1>3, <4>2, <4>3
      <3> QED
        BY <3>1
    <2> QED
      BY <2>4, <2>5, <2>6 DEF x, y
  <1>6. q \in 0..i /\ (q = 0 => \A k \in 1..i : url[k] # QMARK)
        /\ (q > 0 => url[q] = QMARK /\ \A k \in 1..i : k < q => url[k] # QMARK)
    <2> HIDE DEF url
    <2> QED
      BY <1>5, PlaceFirst
  <1> HIDE DEF q, url
  <1>7. ASSUME sent.vars = <<>> PROVE s = <<>>
    <2>1. q = 0
      <3>1. ASSUME q > 0 PROVE FALSE
        <4>1. q \in 1..i /\ q + 1 \in 1..U
          BY <1>2, <1>3, <1>4, <1>6, <1>7, <3>1
        <4>2. url[q] = T[q + 1] /\ url[q] = QMARK
          BY <1>5, <1>6, <3>1, <4>1
        <4> QED
          BY <1>2, <4>1, <4>2
      <3> QED
        BY <1>3, <1>6, <3>1
    <2> QED
      BY <1>1, <2>1
  <1>8. ASSUME sent.vars # <<>>
        PROVE  /\ s \in Seq(Alphabet) /\ StartsWithText(s, J)
               /\ U < 5 => \A k \in 1..Len(s) : Len(J) < k => s[k] # AMP
    <2>1. i = U + Len(J) /\ Len(J) \in Nat /\ J \in Seq(Alphabet)
      BY <1>2, <1>3, <1>4, <1>8
    <2>2. q = U
      <3>1. U \in 1..i /\ url[U] = QMARK
        BY <1>2, <1>3, <1>5, <1>8, <2>1
      <3>2. ~(q = 0)
        BY <1>6, <3>1
      <3>3. ~(U < q)
        BY <1>6, <3>1, <3>2
      <3>4. ASSUME q < U PROVE FALSE
        <4>1. q \in 1..i /\ q + 1 \in 1..U
          BY <1>2, <1>3, <1>6, <3>2, <3>4
        <4>2. url[q] = T[q + 1] /\ url[q] = QMARK
          BY <1>3, <1>5, <1>6, <4>1
        <4> QED
          BY <1>2, <4>1, <4>2
      <3> QED
        BY <1>2, <1>3, <1>6, <3>3, <3>4
    <2>3. PICK stale \in Stale : s = Cut(Whole(stale))
      <3>1. q # 0
        BY <1>2, <2>2
      <3> QED
        BY <1>1, <3>1
    <2>4. stale \in Seq(Alphabet)
      <3>1. <<"x">> \in Seq(Alphabet) /\ <<AMP, "x">> \in Seq(Alphabet)
        BY AlphabetAssumption
      <3>2. stale = <<"x">> \/ stale = <<AMP, "x">>
        BY DEF Stale
      <3> QED
        BY <3>1, <3>2, Zenon
    <2>5. off + i + 2 = a + u + 3 /\ a + u + 3 \in Nat \ {0}
      <3>1. off + i = a + u + 1
        BY <1>3
      <3> QED
        BY ONLY <3>1, a \in Nat, u \in Nat
    <2>6. behind \in Seq(Alphabet) /\ Len(behind) \in Nat
      BY <2>5, RestOf
    <2>7. behind = From(rest, a + u + 3)
      BY <2>5
    <2> HIDE DEF behind
    <2> DEFINE w == Whole(stale)
               y == From(w, q + 1)
    <2>8. /\ w \in Seq(Alphabet) /\ i < Len(w) /\ w[i + 1] = Nul
          /\ \A k \in 1..i : w[k] = url[k]
          /\ \A k \in 1..Len(behind) : w[i + 1 + k] = behind[k]
      <3>1. w = url \o <<Nul>> \o behind \o <<Nul>> \o stale
        OBVIOUS
      <3>2. url \in Seq(Alphabet) /\ i = Len(url)
        BY <1>5
      <3> HIDE DEF w
      <3> QED
        BY ONLY <2>4, <2>6, <3>1, <3>2, BufferIs
    <2>9. s = SubSeq(y, 1, Min({i, Len(y)}))
      BY <2>3 DEF BehindMark
    <2> HIDE DEF w
    <2>10. \A k \in 1..Len(J) : w[q + k] = J[k]
      <3>1. ASSUME NEW k \in 1..Len(J) PROVE w[q + k] = J[k]
        <4>1. q + k \in 1..i /\ q + k + 1 = U + 1 + k
          BY <1>2, <2>1, <2>2
        <4> QED
          BY <1>2, <1>5, <1>8, <2>8, <4>1
      <3> QED
        BY <3>1
    <2> HIDE DEF y
    <2>11. /\ s \in Seq(Alphabet) /\ StartsWithText(s, J) /\ Len(s) \in Nat /\ Len(s) <= i
           /\ \A k \in 1..Len(s) : s[k] = w[q + k] /\ q + k <= Len(w)
      <3>1. q \in Nat /\ q > 0 /\ i = q + Len(J) /\ y = From(w, q + 1)
        BY <1>2, <2>1, <2>2 DEF y
      <3>2. /\ w \in Seq(Alphabet) /\ J \in Seq(Alphabet) /\ q \in Nat /\ q > 0
            /\ q + Len(J) < Len(w) /\ w[q + Len(J) + 1] = Nul /\ \A k \in 1..Len(J) : w[q + k] = J[k]
        BY <2>1, <2>8, <2>10, <3>1
      <3> DEFINE Cutting(x) == SubSeq(x, 1, Min({q + Len(J), Len(x)}))
      <3>3. /\ Cutting(From(w, q + 1)) \in Seq(Alphabet) /\ StartsWithText(Cutting(From(w, q + 1)), J)
            /\ Len(Cutting(From(w, q + 1))) \in Nat /\ Len(Cutting(From(w, q + 1))) <= q + Len(J)
            /\ \A k \in 1..Len(Cutting(From(w, q + 1))) :
                 Cutting(From(w, q + 1))[k] = w[q + k] /\ q + k <= Len(w)
        BY ONLY <3>2, QueryPart
      <3>4. s = Cutting(From(w, q + 1))
        BY <2>9, <3>1, Zenon
      <3> HIDE DEF Cutting
      <3> QED
        BY <3>1, <3>3, <3>4
    <2>12. ASSUME U < 5, NEW k \in 1..Len(s), Len(J) < k PROVE s[k] # AMP
      <3> DEFINE m == k - Len(J) - 1
      <3>1. m \in 0..3 /\ q + k = i + 1 + m
        BY <1>2, <2>1, <2>2, <2>11, <2>12
      <3>2. s[k] = w[i + 1 + m]
        BY <2>11, <3>1
      <3>3. CASE m = 0
        <4>1. s[k] = Nul
          BY <1>3, <2>8, <3>2, <3>3
        <4> QED
          BY <4>1 DEF Nul, AMP
      <3>4. CASE m # 0
        <4>1. v # <<>> /\ v \in Seq(Alphabet) /\ Without(v, {AMP})
          BY RequestsAssumption DEF Readable, UrlReadable, RequestParts
        <4> HIDE DEF v
        <4>2. Len(v) \in Nat /\ Len(v) > 0 /\ \A j \in 1..Len(v) : v[j] # AMP
          BY <4>1, EmptySeq, LenProperties DEF Without
        <4>3. /\ Len(v) + 1 <= Len(behind) - 1
              /\ behind[Len(v) + 1] = CR /\ behind[Len(v) + 2] = LF
          BY <1>3, <2>6, <2>7, <4>2 DEF Ends
        <4>4. \A j \in 1..Len(v) : behind[j] = v[j]
          <5> DEFINE l == Len(v)
          <5>1. l \in Nat /\ l <= Len(behind) /\ SubSeq(behind, 1, l) = v
            BY <1>3, <2>6, <2>7, <4>2, <4>3
          <5>2. \A j \in 1..l : behind[j] \in Alphabet
            BY <2>6, <5>1, ElementOfSeq
          <5> HIDE DEF l
          <5>3. \A j \in 1..l : SubSeq(behind, 1, l)[j] = behind[j]
            BY <2>6, <5>1, <5>2, SubSeqProperties
          <5> QED
            BY <5>1, <5>3 DEF l
        <4>5. m \in 1..Len(behind) /\ (m \in 1..Len(v) \/ m = Len(v) + 1 \/ m = Len(v) + 2)
          BY <2>6, <3>1, <3>4, <4>2, <4>3
        <4>6. s[k] = behind[m]
          BY <2>8, <3>2, <4>5
        <4>7. behind[m] # AMP
          <5>1. CR # AMP /\ LF # AMP
            BY DEF CR, LF, AMP
          <5> QED
            BY <4>2, <4>3, <4>4, <4>5, <5>1
        <4> QED
          BY <4>6, <4>7
      <3> QED
        BY <3>3, <3>4
    <2> QED
      BY <2>11, <2>12
  <1> QED
    BY <1>7, <1>8 DEF U

\* What is read of a URL: its variables, and no others if its path is short.
UrlRead(g, r) ==
    /\ VarsAre(g, r)
    /\ Len(r.url) < 5 => Len(g) = Len(r.vars)

\* No text has no variables.
LEMMA NothingQueried == Len(Iterated(Pieces(<<>>, AMP))) = 0
  <1> DEFINE none == <<>>
             q == <<none>>
             items == CHOOSE f : ItemsUpto(q, 1, f)
  <1>1. none \in Seq(Alphabet) /\ Len(none) = 0
    BY EmptySeq
  <1>2. Pieces(none, AMP) = q
    <2>1. Place(none, AMP) = 0
      <3>1. Place(none, AMP) \in 0..Len(none)
        BY <1>1, PlaceIs
      <3> QED
        BY <1>1, <3>1
    <2> QED
      BY <1>1, <2>1, PiecesFirst
  <1>3. Len(q) = 1 /\ q[1] = none
    OBVIOUS
  <1>4. KeyLength(none) = 0
    <2>1. Range(none) = {}
      BY DEF Range
    <2> QED
      BY <1>1, <2>1 DEF KeyLength
  <1> HIDE DEF q
  <1>5. Iterated(q) = items[1]
    BY <1>3 DEF Iterated, ItemsUpto
  <1>6. ItemsUpto(q, 1, items)
    <2>1. 1 \in Nat
      OBVIOUS
    <2>2. \E f : ItemsUpto(q, 1, f)
      BY <2>1, ItemsReadable
    <2> QED
      BY <2>2
  <1> HIDE DEF items
  <1>7. items[1] = items[0] /\ items[0] = <<>>
    <2> HIDE DEF none
    <2>1. \A i \in 0..1 : items[i] = IF i = 0 THEN <<>>
                                     ELSE IF KeyLength(q[i]) = 0 THEN items[i - 1]
                                     ELSE Append(items[i - 1], Item(q[i]))
      BY <1>6 DEF ItemsUpto
    <2>2. 0 \in 0..1 /\ 1 \in 0..1 /\ 1 - 1 = 0
      OBVIOUS
    <2> QED
      BY <1>3, <1>4, <2>1, <2>2
  <1> QED
    BY <1>2, <1>5, <1>7

\* The variables of a request line that is read as it was sent are its own.
LEMMA UrlIsRead ==
    ASSUME rest \in Seq(Alphabet), input \in Seq(Alphabet), sent \in Requests, Readable(sent), UrlReadable(sent),
           rest \o input = Encoded(sent), RequestLine
    PROVE  rpc' = "read_end" \/ (rpc' = "header" /\ UrlRead(get_vars', sent))
  <1> DEFINE J == Joined(sent.vars, <<AMP>>)
  <1>1. SUFFICES ASSUME NEW off, NEW i, UrlTaken(off, i), NEW s \in QueryTexts(off, i),
                        NEW g, g = Iterated(Pieces(s, AMP))
                 PROVE  UrlRead(g, sent)
    BY RequestLineIs
  <1>2. /\ sent.vars = <<>> => s = <<>>
        /\ sent.vars # <<>> =>
             /\ s \in Seq(Alphabet) /\ StartsWithText(s, J)
             /\ Len(sent.url) < 5 => \A k \in 1..Len(s) : Len(J) < k => s[k] # AMP
    BY <1>1, QueryTextIs
  <1>3. CASE sent.vars = <<>>
    <2>1. g = Iterated(Pieces(<<>>, AMP))
      BY <1>1, <1>2, <1>3
    <2>2. Len(g) = 0
      BY <2>1, NothingQueried
    <2>3. Len(sent.vars) = 0 /\ DOMAIN sent.vars = {}
      BY <1>3
    <2> QED
      BY <2>2, <2>3 DEF UrlRead, VarsAre
  <1>4. CASE sent.vars # <<>>
    <2>1. /\ VarsAre(g, sent)
          /\ (\A k \in 1..Len(s) : Len(J) < k => s[k] # AMP) => Len(g) = Len(sent.vars)
      BY <1>1, <1>2, <1>4, QueryRead
    <2> QED
      BY <1>2, <1>4, <2>1 DEF UrlRead
  <1> QED
    BY <1>3, <1>4

\* A request line that ends the reading is an error (read_http_request).
LEMMA LineFails == RequestLine /\ rpc' = "read_end" => err' # "okay"
  BY DEF RequestLine, RequestVersion, StaleVersion, Headed, ReadEnd, Goes

-----------------------------------------------------------------------------
(***************************************************************************)
(* The invariant: up to the end of the request line nothing is lost, and   *)
(* behind it the variables are those that were sent.                       *)
(***************************************************************************)
\* What is left to read up to the end of the URL.  Behind it its variables
\* are there, but when bytes that were not received were taken for the
\* request line, or when the request is answered with an error.
UrlAhead ==
    /\ rpc \in FirstPCs => lines = <<>>
    /\ rpc \in {"alloc", "first"} => fault = "none" /\ input = Encoded(sent)
    /\ rpc = "more" => fault = "none" /\ rest \o input = Encoded(sent) /\ Len(rest) \in 1..3
    /\ rpc = "line" => \/ fault = "none" /\ rest \o input = Encoded(sent)
                       \/ fault = "more" /\ Garbled
    /\ rpc \in {"header", "post"} => UrlRead(get_vars, sent) \/ (fault = "more" /\ lines = <<>> /\ rest = <<>>)
    /\ rpc \in FieldPCs \cup {"header_recv", "form_rest"} => UrlRead(get_vars, sent)
    /\ rpc \in {"throw_away", "drain"} => err # "okay"
    /\ rpc \in {"read_end", "read", "done"} => UrlRead(get_vars, sent) \/ fault = "more" \/ err # "okay"

UrlInv == Readable(sent) /\ UrlReadable(sent) => UrlAhead

\* What was sent stays, and what is read of it.
LEMMA UrlStays ==
    ASSUME UNCHANGED sent
    PROVE  /\ Encoded(sent)' = Encoded(sent)
           /\ Readable(sent)' <=> Readable(sent)
           /\ UrlReadable(sent)' <=> UrlReadable(sent)
           /\ UrlRead(get_vars, sent)' <=> UrlRead(get_vars', sent)
  <1>1. UrlReadable(sent)' <=> UrlReadable(sent)
    BY DEF UrlReadable
  <1>2. UrlRead(get_vars, sent)' <=> UrlRead(get_vars', sent)
    BY DEF UrlRead, VarsAre
  <1> QED
    BY <1>1, <1>2, SentStays

\* Once the variables were read, they stay.
LEMMA UrlKept ==
    ASSUME UrlRead(get_vars, sent), UNCHANGED <<sent, get_vars>>, rpc' \notin FirstPCs \cup {"throw_away", "drain"}
    PROVE  UrlAhead'
  <1>1. UrlRead(get_vars, sent)'
    BY UrlStays
  <1> QED
    BY <1>1 DEF UrlAhead, FirstPCs, FieldPCs

\* A reading that failed promises nothing of the variables.
LEMMA FailedKept ==
    ASSUME rpc' = "read_end", err' # "okay"
    PROVE  UrlAhead'
  BY DEF UrlAhead, FirstPCs, FieldPCs

\* The steps up to the end of the request line, one by one.
LEMMA AllocKeepsUrl ==
    ASSUME UrlAhead, AllocRequest
    PROVE  UrlAhead'
  <1>1. UNCHANGED <<sent, input, fault, lines>> /\ rpc = "alloc" /\ rpc' \in {"first", "no_request"}
    BY DEF AllocRequest, connVars, lineVars, Goes
  <1>2. input = Encoded(sent) /\ fault = "none" /\ lines = <<>>
    BY <1>1 DEF UrlAhead, FirstPCs
  <1>3. Encoded(sent)' = Encoded(sent)
    BY <1>1, SentStays
  <1> QED
    BY <1>1, <1>2, <1>3 DEF UrlAhead, FirstPCs, FieldPCs

LEMMA FirstKeepsUrl ==
    ASSUME Typed, UrlAhead, FirstRecv
    PROVE  UrlAhead'
  <1>1. UNCHANGED <<sent, lines>> /\ rpc = "first"
    BY DEF FirstRecv, lineVars, Arrive, Nothing, RecvFails
  <1>2. input \in Seq(Alphabet) /\ input = Encoded(sent) /\ fault = "none" /\ lines = <<>>
    BY <1>1 DEF Typed, UrlAhead, FirstPCs
  <1>3. CASE ReadEnd("malformed") \/ ReadEnd("socket_err")
    BY <1>3, FailedKept DEF ReadEnd
  <1>4. ASSUME NEW j \in DOMAIN input, Arrive(buflen0, j), rest' = Segment(j),
               rpc' = (IF j < 4 THEN "more" ELSE "line")
        PROVE  UrlAhead'
    <2>1. buflen0 \in Int
      BY Parameters
    <2>2. rest' \o input' = input
      BY <1>2, <1>4, <2>1, SegmentJoins
    <2>3. j \in Nat /\ 1 <= j /\ Len(rest') = j
      BY <1>2, <1>4, <2>1, Received
    <2>4. rest' \o input' = Encoded(sent)'
      BY <1>1, <1>2, <2>2, SentStays
    <2>5. rpc' = "more" => Len(rest') \in 1..3
      BY <1>4, <2>3
    <2>6. rpc' \in {"more", "line"} /\ fault' = "none"
      BY <1>2, <1>4 DEF Arrive
    <2> QED
      BY <1>1, <1>2, <2>4, <2>5, <2>6 DEF UrlAhead, FirstPCs, FieldPCs
  <1>5. \/ ReadEnd("malformed") \/ ReadEnd("socket_err")
        \/ \E j \in DOMAIN input : Arrive(buflen0, j) /\ rest' = Segment(j)
                              /\ rpc' = (IF j < 4 THEN "more" ELSE "line")
    BY DEF FirstRecv, Goes
  <1> QED
    BY <1>3, <1>4, <1>5

LEMMA MoreKeepsUrl ==
    ASSUME Typed, sent \in Requests, Readable(sent), UrlAhead, MoreRecv
    PROVE  UrlAhead'
  <1>1. UNCHANGED <<sent, lines>> /\ rpc = "more"
    BY DEF MoreRecv, lineVars, Arrive, Nothing, RecvFails
  <1>2. /\ input \in Seq(Alphabet) /\ rest \in Seq(Alphabet) /\ lines = <<>>
        /\ fault = "none" /\ rest \o input = Encoded(sent) /\ Len(rest) \in 1..3
    BY <1>1 DEF Typed, UrlAhead, FirstPCs
  <1>3. Len(rest) \in Int /\ Len(rest) <= 3
    <2> DEFINE l == Len(rest)
    <2>1. l \in 1..3
      BY <1>2
    <2> HIDE DEF l
    <2>2. l \in Int /\ l <= 3
      BY <2>1
    <2> QED
      BY <2>2 DEF l
  <1>4. CASE ReadEnd("malformed")
    BY <1>4, FailedKept DEF ReadEnd
  <1>5. ASSUME NEW j \in DOMAIN input, Arrive(buflen0 - Len(rest), j), rest' = rest \o Segment(j), rpc' = "line"
        PROVE  UrlAhead'
    <2>1. buflen0 - Len(rest) \in Int
      BY <1>3, Parameters
    <2>2. rest' \o input' = rest \o input
      BY <1>2, <1>5, <2>1, SegmentFollows
    <2>3. rest' \o input' = Encoded(sent)' /\ fault' = "none"
      BY <1>1, <1>2, <1>5, <2>2, SentStays DEF Arrive
    <2> QED
      BY <1>1, <1>2, <1>5, <2>3 DEF UrlAhead, FirstPCs, FieldPCs
  <1>6. ASSUME NEW kind \in Failures, NEW g \in Garbage, Len(g) <= Rrt[kind], rest' = rest \o g, rpc' = "line",
               fault' = "more"
        PROVE  UrlAhead'
    <2>1. Rrt[kind] \in 1..3
      BY DEF Rrt, Failures
    <2>2. Len(g) <= 3
      <3>1. Len(g) \in Nat
        BY GarbageIs
      <3> QED
        BY <1>6, <2>1, <3>1
    <2>3. \A i \in 1..Len(rest) : rest[i] \notin {SP, CR}
      BY <1>2, <1>3, BeginsWithMethod
    <2>4. Garbled'
      BY <1>2, <1>6, <2>2, <2>3, GarbledIs
    <2> QED
      BY <1>1, <1>2, <1>6, <2>4 DEF UrlAhead, FirstPCs, FieldPCs
  <1>7. \/ ReadEnd("malformed")
        \/ \E j \in DOMAIN input : /\ Arrive(buflen0 - Len(rest), j) /\ rest' = rest \o Segment(j)
                                   /\ rpc' = "line"
        \/ \E kind \in Failures : \E g \in Garbage : Len(g) <= Rrt[kind] /\ rest' = rest \o g /\ rpc' = "line"
                                                     /\ fault' = "more"
    BY DEF MoreRecv, Goes, RecvFails
  <1> QED
    BY <1>4, <1>5, <1>6, <1>7

LEMMA LineKeepsUrl ==
    ASSUME Typed, sent \in Requests, Readable(sent), UrlReadable(sent), UrlAhead, RequestLine
    PROVE  UrlAhead'
  <1>1. UNCHANGED <<sent, fault, lines>> /\ rpc = "line"
    BY DEF RequestLine, connVars
  <1>2. /\ input \in Seq(Alphabet) /\ rest \in Seq(Alphabet) /\ lines = <<>>
        /\ \/ rest \o input = Encoded(sent)
           \/ fault = "more" /\ Garbled
    BY <1>1 DEF Typed, UrlAhead, FirstPCs
  <1>3. CASE rpc' = "read_end"
    BY <1>3, LineFails, FailedKept
  <1>4. CASE rest \o input = Encoded(sent)
    <2>1. rpc' = "read_end" \/ (rpc' = "header" /\ UrlRead(get_vars', sent))
      BY <1>2, <1>4, UrlIsRead
    <2>2. ASSUME rpc' = "header", UrlRead(get_vars', sent) PROVE UrlAhead'
      <3>1. UrlRead(get_vars, sent)'
        BY <1>1, <2>2, UrlStays
      <3> QED
        BY <2>2, <3>1 DEF UrlAhead, FirstPCs, FieldPCs
    <2> QED
      BY <1>3, <2>1, <2>2
  <1>5. CASE fault = "more" /\ Garbled
    <2>1. rpc' = "read_end" \/ (rpc' = "header" /\ rest' = <<>>)
      BY <1>2, <1>5, RequestLineGarbled DEF Garbled
    <2>2. ASSUME rpc' = "header", rest' = <<>> PROVE UrlAhead'
      BY <1>1, <1>2, <1>5, <2>2 DEF UrlAhead, FirstPCs, FieldPCs
    <2> QED
      BY <1>3, <2>1, <2>2
  <1> QED
    BY <1>2, <1>4, <1>5

\* The header lines: with no text none is looked for.
LEMMA HeaderKeepsUrl ==
    ASSUME Typed, UrlAhead, NextLine \/ LineRecv
    PROVE  UrlAhead'
  <1>1. UNCHANGED <<sent, get_vars>> /\ rpc \in {"header", "header_recv"}
    BY DEF NextLine, LineRecv, connVars, lineFrame, Arrive, Nothing, RecvFails
  <1>2. rpc' \in {"header", "header_recv", "post", "read_end"}
    BY DEF NextLine, LineRecv, TakeLine, Goes, ReadEnd
  <1>3. CASE UrlRead(get_vars, sent)
    BY <1>1, <1>2, <1>3, UrlKept DEF FirstPCs
  <1>4. CASE ~UrlRead(get_vars, sent)
    <2>1. rpc = "header" /\ fault = "more" /\ lines = <<>> /\ rest = <<>>
      BY <1>1, <1>4 DEF UrlAhead
    <2>2. NextLine
      BY <2>1 DEF LineRecv
    <2>3. CrLfAt(rest, 1) = 0
      <3>1. rest \in Seq(Alphabet) /\ 1 \in Nat \ {0} /\ Len(rest) = 0
        BY <2>1 DEF Typed
      <3>2. Ends(rest, 1) = {}
        BY <3>1 DEF Ends
      <3> QED
        BY <3>1, <3>2, CrLfFirst
    <2>4. rpc' = "post" /\ UNCHANGED <<fault, lines, rest>>
      BY <2>1, <2>2, <2>3 DEF NextLine, NoText, Goes, connVars
    <2> QED
      BY <2>1, <2>4 DEF UrlAhead, FirstPCs, FieldPCs
  <1> QED
    BY <1>3, <1>4

\* What the header says of the body: nothing when there are no lines.
LEMMA PostKeepsUrl ==
    ASSUME UrlAhead, PostNoMemory \/ PostInfo \/ NoPost
    PROVE  UrlAhead'
  <1>1. UNCHANGED <<sent, get_vars, fault>> /\ rpc = "post"
    BY DEF PostNoMemory, PostInfo, NoPost, connVars, lineVars
  <1>2. rpc' \in {"form", "read_end"}
    BY DEF PostNoMemory, PostInfo, NoPost, Goes, ReadEnd
  <1>3. CASE UrlRead(get_vars, sent)
    BY <1>1, <1>2, <1>3, UrlKept DEF FirstPCs
  <1>4. CASE ~UrlRead(get_vars, sent)
    <2>1. fault = "more" /\ lines = <<>>
      BY <1>1, <1>4 DEF UrlAhead
    <2>2. rpc' = "read_end"
      <3>1. LengthError = "missing_content_length"
        BY <2>1 DEF LengthError, Sends
      <3> QED
        BY <3>1 DEF PostNoMemory, PostInfo, NoPost, ReadEnd
    <2> QED
      BY <1>1, <2>1, <2>2 DEF UrlAhead, FirstPCs, FieldPCs
  <1> QED
    BY <1>3, <1>4

\* The body, and what follows: only an error makes it read what is left.
LEMMA FormKeepsUrl ==
    ASSUME UrlAhead, FormStep, UNCHANGED lineVars, UNCHANGED sent
    PROVE  UrlAhead'
  <1>1. UNCHANGED get_vars
    BY DEF lineVars
  <1>2. rpc \in FieldPCs \cup {"form_rest"}
    BY DEF FormStep, FormStart, FormFirst, FormKey, FormValue, FormNoMemory, FormLoop, FormRest, FormEnd, FieldPCs
  <1>3. rpc' \notin FirstPCs \cup {"throw_away", "drain"}
    <2> USE DEF Goes, ReadEnd, FirstPCs
    <2>1. ASSUME FormMore, rpc \in {"form_key", "form_value"} PROVE rpc' \notin FirstPCs \cup {"throw_away", "drain"}
      BY <2>1 DEF FormMore
    <2> QED
      BY <2>1 DEF FormStep, FormStart, FormFirst, FormKey, FormValue, FormNoMemory, FormLoop, FormRest, FormEnd
  <1> QED
    BY <1>1, <1>2, <1>3, UrlKept DEF UrlAhead

LEMMA EndKeepsUrl ==
    ASSUME UrlAhead, ReadReturns \/ NullRequest \/ Drain \/ (ThrowAway(LineBuf) /\ UNCHANGED lineVars), UNCHANGED sent
    PROVE  UrlAhead'
  <1>1. UNCHANGED get_vars
    BY DEF ReadReturns, NullRequest, Drain, lineVars
  <1>2. UrlRead(get_vars, sent)' <=> UrlRead(get_vars, sent)
    BY <1>1, UrlStays
  <1>3. CASE ReadReturns
    <2>1. /\ rpc = "read_end" /\ UNCHANGED <<fault, err>>
          /\ rpc' = "read" \/ (rpc' \in {"throw_away", "drain"} /\ err # "okay")
      BY <1>3 DEF ReadReturns, connVars
    <2> QED
      BY <1>2, <2>1 DEF UrlAhead, FirstPCs, FieldPCs
  <1>4. CASE NullRequest
    BY <1>4 DEF NullRequest, Goes, UrlAhead, FirstPCs, FieldPCs
  <1>5. CASE Drain \/ ThrowAway(LineBuf)
    <2>1. rpc \in {"throw_away", "drain"} /\ rpc' \in {"throw_away", "drain", "read"} /\ UNCHANGED err
      BY <1>5 DEF Drain, ThrowAway
    <2> QED
      BY <2>1 DEF UrlAhead, FirstPCs, FieldPCs
  <1> QED
    BY <1>3, <1>4, <1>5

\* Every step of the reading keeps the invariant.
LEMMA UrlKeeps ==
    ASSUME RequestTypes, UrlInv, ReadStep
    PROVE  UrlInv'
  <1>1. Typed /\ sent \in Requests
    BY DEF RequestTypes, ReadInv, Coming
  <1>2. sent' = sent
    BY StepReceives DEF Receives, connVars, Arrive, Nothing, RecvFails
  <1>3. (Readable(sent)' <=> Readable(sent)) /\ (UrlReadable(sent)' <=> UrlReadable(sent))
    BY <1>2, UrlStays
  <1>4. ASSUME Readable(sent), UrlReadable(sent) PROVE UrlAhead'
    <2>1. UrlAhead
      BY <1>4 DEF UrlInv
    <2>2. CASE AllocRequest
      BY <2>1, <2>2, AllocKeepsUrl
    <2>3. CASE FirstRecv
      BY <1>1, <2>1, <2>3, FirstKeepsUrl
    <2>4. CASE MoreRecv
      BY <1>1, <1>4, <2>1, <2>4, MoreKeepsUrl
    <2>5. CASE RequestLine
      BY <1>1, <1>4, <2>1, <2>5, LineKeepsUrl
    <2>6. CASE NextLine \/ LineRecv
      BY <1>1, <2>1, <2>6, HeaderKeepsUrl
    <2>7. CASE PostNoMemory \/ PostInfo \/ NoPost
      BY <2>1, <2>7, PostKeepsUrl
    <2>8. CASE FormStep /\ UNCHANGED lineVars
      BY <1>2, <2>1, <2>8, FormKeepsUrl
    <2>9. CASE ReadReturns \/ NullRequest \/ Drain \/ (ThrowAway(LineBuf) /\ UNCHANGED lineVars)
      BY <1>2, <2>1, <2>9, EndKeepsUrl
    <2> QED
      BY <2>2, <2>3, <2>4, <2>5, <2>6, <2>7, <2>8, <2>9 DEF ReadStep
  <1> QED
    BY <1>3, <1>4 DEF UrlInv

\* The invariant of the URL holds at the start, and in steps of others.
LEMMA UrlStarts ==
    ASSUME RequestInit
    PROVE  UrlInv
  <1>1. rpc = "alloc" /\ lines = <<>> /\ fault = "none" /\ input = Encoded(sent)
    BY DEF RequestInit, ConnInit, LinesInit
  <1> QED
    BY <1>1 DEF UrlInv, UrlAhead, FieldPCs

\* A request that was dropped.
LEMMA UrlDropped ==
    ASSUME rpc' = "answered"
    PROVE  UrlInv'
  BY DEF UrlInv, UrlAhead, FirstPCs, FieldPCs

LEMMA UrlRests ==
    ASSUME UrlInv, UNCHANGED <<sent, input, fault, rest, err, lines, get_vars>>,
           rpc' = rpc \/ (rpc = "read" /\ rpc' = "done")
    PROVE  UrlInv'
  <1>1. /\ (Readable(sent)' <=> Readable(sent)) /\ (UrlReadable(sent)' <=> UrlReadable(sent))
        /\ (UrlRead(get_vars, sent)' <=> UrlRead(get_vars, sent))
        /\ Encoded(sent)' = Encoded(sent)
    BY UrlStays
  <1>2. Garbled => Garbled'
    BY DEF Garbled
  <1>3. UrlAhead => UrlAhead'
    BY <1>1, <1>2 DEF UrlAhead, FirstPCs, FieldPCs
  <1> QED
    BY <1>1, <1>3 DEF UrlInv

\* The invariant says what the variables of the URL are once the request is read.
LEMMA UrlVarsFromInv ==
    ASSUME UrlInv, Readable(sent), UrlReadable(sent)
    PROVE  UrlVarsIntact
  <1>1. rpc \in {"read", "done"} /\ err = "okay" /\ fault # "more" => UrlRead(get_vars, sent)
    BY DEF UrlInv, UrlAhead
  <1> QED
    BY <1>1 DEF UrlVarsIntact, UrlRead, VarsAre
=============================================================================
