------------------------- MODULE LuaspReaderProofs --------------------------
(***************************************************************************)
(* Proofs about the reader of pages, for every page and every size of a    *)
(* block: what the chunk is made of, in which order, and what is left out. *)
(***************************************************************************)
EXTENDS LuaspReader, SequenceTheorems, TLAPS

\* Bytes and marks.
Chars == PageBytes \cup {"echo('", "')", "echo(", ")", "\\", " ", "<", "?"}
                   \cup {"r", "t", "f", "a", "b", "v", "."}
Tokens == [ch : Chars, n : Nat]

NoEcho == Mark("none")

\* Echoes are begun and ended in turn, and o is the one that is open.
EchoAt(s, k) ==
    /\ s[k] \in Begins => \A b \in Begins : ~Within(s, b, k)
    /\ s[k] \in Marks \ Begins => Within(s, BeginOf(s[k]), k)
Echoes(s, o) ==
    /\ \A k \in 1..Len(s) : EchoAt(s, k)
    /\ \A b \in Begins : Within(s, b, Len(s) + 1) <=> b = o

\* What is said of a byte in TextIsQuoted.
QuotedAt(s, k) ==
    s[k].n > 0 =>
        /\ Within(s, EchoBegin, k) \/ InTag(s[k].n) \/ page[s[k].n].ch = "\n"
        /\ Within(s, EchoBegin, k) /\ page[s[k].n].ch \in Escapes => s[k - 1] = Backslash
        /\ s[k].ch = IF Within(s, EchoBegin, k) THEN Shown(page[s[k].n].ch) ELSE page[s[k].n].ch
Quoted(s) == \A k \in 1..Len(s) : QuotedAt(s, k)

\* The bytes of s are those before byte f of the page, in order; a line feed
\* there may be read again.
KeptOrder(s) ==
    \A j, k \in 1..Len(s) : j < k /\ s[j].n > 0 /\ s[k].n > 0 =>
        s[j].n < s[k].n \/ (s[j] = s[k] /\ s[k].ch = "\n")
Copy(e, n) == e \in Tokens /\ e.n = n /\ e.ch \in {page[n].ch, Shown(page[n].ch)}
Copied(s, f) ==
    /\ \A k \in 1..Len(s) : s[k].n > 0 =>
         /\ s[k].n \in 1..Len(page) /\ Copy(s[k], s[k].n)
         /\ s[k].n < f \/ (s[k].n = f /\ s[k].ch = "\n")
    /\ KeptOrder(s)

\* Each byte before f is in s or was dropped.
Accounted(s, f) ==
    \A n \in 1..(f - 1) : Dropped(n) \/ \E k \in 1..Len(s) : s[k].n = n

Chunk(s, o, f) ==
    /\ s \in Seq(Tokens)
    /\ Echoes(s, o) /\ Quoted(s) /\ Copied(s, f) /\ Accounted(s, f)

-----------------------------------------------------------------------------
(***************************************************************************)
(* One more item of a chunk.                                               *)
(***************************************************************************)
LEMMA MarksDiffer ==
    /\ EchoBegin # EchoEnd /\ EchoBegin # VarBegin /\ EchoBegin # VarEnd
    /\ EchoEnd # VarBegin /\ EchoEnd # VarEnd /\ VarBegin # VarEnd
    /\ Backslash \notin Marks /\ Blank \notin Marks /\ NoEcho \notin Marks
  <1>1. /\ "echo('" # "')" /\ "echo('" # "echo(" /\ "echo('" # ")" /\ "')" # "echo("
        /\ "')" # ")" /\ "echo(" # ")"
    OBVIOUS
  <1>2. ASSUME NEW m \in Marks PROVE m.ch \in {"echo('", "')", "echo(", ")"}
    BY DEF EchoBegin, EchoEnd, VarBegin, VarEnd, Mark, Marks, Begins
  <1>3. Backslash.ch = "\\" /\ Blank.ch = " " /\ NoEcho.ch = "none"
    BY DEF Backslash, Blank, NoEcho, Mark
  <1>4. Backslash \notin Marks /\ Blank \notin Marks /\ NoEcho \notin Marks
    BY <1>2, <1>3
  <1>5. EchoBegin.ch = "echo('" /\ EchoEnd.ch = "')" /\ VarBegin.ch = "echo(" /\ VarEnd.ch = ")"
    BY DEF EchoBegin, EchoEnd, VarBegin, VarEnd, Mark
  <1> QED
    BY <1>1, <1>4, <1>5

LEMMA MarksAreTokens ==
    ASSUME NEW m \in Marks \cup {Backslash, Blank}
    PROVE  m \in Tokens /\ m.n = 0
  <1>1. PICK c \in {"echo('", "')", "echo(", ")", "\\", " "} : m = [ch |-> c, n |-> 0]
    BY DEF EchoBegin, EchoEnd, VarBegin, VarEnd, Backslash, Blank, Mark, Marks, Begins
  <1>2. c \in Chars
    BY <1>1 DEF Chars
  <1> QED
    BY <1>1, <1>2 DEF Tokens

LEMMA WithinBefore ==
    ASSUME NEW s \in Seq(Tokens), NEW e \in Tokens, NEW b, NEW k \in 1..(Len(s) + 1)
    PROVE  Within(Append(s, e), b, k) <=> Within(s, b, k)
  <1>1. Len(s) \in Nat /\ \A i \in 1..Len(s) : Append(s, e)[i] = s[i]
    BY AppendProperties, LenProperties
  <1>2. k - 1 <= Len(s) /\ \A i \in 1..(k - 1) : Append(s, e)[i] = s[i]
    BY <1>1
  <1> HIDE DEF Marks
  <1> QED
    BY <1>1, <1>2 DEF Within

LEMMA WithinBehind ==
    ASSUME NEW s \in Seq(Tokens), NEW e \in Tokens, NEW b \in Marks
    PROVE  Within(Append(s, e), b, Len(s) + 2)
           <=> IF e \in Marks THEN b = e ELSE Within(s, b, Len(s) + 1)
  <1> DEFINE t == Append(s, e)
  <1>1. /\ Len(s) \in Nat /\ \A i \in 1..Len(s) : t[i] = s[i]
        /\ t[Len(s) + 1] = e
    BY AppendProperties, LenProperties
  <1> HIDE DEF t
  <1>2. CASE e \in Marks
    <2>1. ASSUME Within(t, b, Len(s) + 2) PROVE b = e
      <3>1. PICK j \in 1..(Len(s) + 1) : t[j] = b /\ \A m \in (j + 1)..(Len(s) + 1) : t[m] \notin Marks
        BY <1>1, <2>1 DEF Within
      <3>2. j = Len(s) + 1
        BY <1>1, <1>2, <3>1
      <3> QED
        BY <1>1, <3>1, <3>2
    <2>2. ASSUME b = e PROVE Within(t, b, Len(s) + 2)
      BY <1>1, <2>2 DEF Within
    <2> QED
      BY <1>2, <2>1, <2>2 DEF t
  <1>3. CASE e \notin Marks
    <2>1. ASSUME Within(t, b, Len(s) + 2) PROVE Within(s, b, Len(s) + 1)
      <3>1. PICK j \in 1..(Len(s) + 1) : t[j] = b /\ \A m \in (j + 1)..(Len(s) + 1) : t[m] \notin Marks
        BY <1>1, <2>1 DEF Within
      <3>2. j \in 1..Len(s)
        BY <1>1, <1>3, <3>1
      <3>3. s[j] = b /\ \A m \in (j + 1)..Len(s) : s[m] \notin Marks
        BY <1>1, <3>1, <3>2
      <3> QED
        BY <1>1, <3>2, <3>3 DEF Within
    <2>2. ASSUME Within(s, b, Len(s) + 1) PROVE Within(t, b, Len(s) + 2)
      <3>1. PICK j \in 1..Len(s) : s[j] = b /\ \A m \in (j + 1)..Len(s) : s[m] \notin Marks
        BY <1>1, <2>2 DEF Within
      <3>2. t[j] = b /\ \A m \in (j + 1)..(Len(s) + 1) : t[m] \notin Marks
        BY <1>1, <1>3, <3>1
      <3> QED
        BY <1>1, <3>1, <3>2 DEF Within
    <2> QED
      BY <1>3, <2>1, <2>2 DEF t
  <1> QED
    BY <1>2, <1>3

\* What may be put behind s when echo o is open, and what is open then.
Fits(e, o) ==
    /\ e \in Begins => o = NoEcho
    /\ e \in Marks \ Begins => o = BeginOf(e)
Then(e, o) == IF e \in Begins THEN e ELSE IF e \in Marks THEN NoEcho ELSE o

LEMMA EchoesAppend ==
    ASSUME NEW s \in Seq(Tokens), NEW e \in Tokens, NEW o \in Begins \cup {NoEcho},
           Echoes(s, o), Fits(e, o)
    PROVE  Echoes(Append(s, e), Then(e, o)) /\ Then(e, o) \in Begins \cup {NoEcho}
  <1> DEFINE t == Append(s, e)
  <1>1. /\ Len(s) \in Nat /\ Len(t) = Len(s) + 1 /\ \A i \in 1..Len(s) : t[i] = s[i]
        /\ t[Len(s) + 1] = e
    BY AppendProperties, LenProperties
  <1>2. \A k \in 1..(Len(s) + 1) : \A b : Within(t, b, k) <=> Within(s, b, k)
    BY WithinBefore
  <1> HIDE DEF t
  <1>3. ASSUME NEW k \in 1..Len(t) PROVE EchoAt(t, k)
    <2>1. CASE k \in 1..Len(s)
      <3>1. EchoAt(s, k) /\ t[k] = s[k]
        BY <1>1, <2>1 DEF Echoes
      <3> QED
        BY <1>1, <1>2, <2>1, <3>1 DEF EchoAt
    <2>2. CASE k = Len(s) + 1
      <3>1. t[k] = e /\ \A b : Within(t, b, k) <=> Within(s, b, Len(s) + 1)
        BY <1>1, <1>2, <2>2
      <3>2. e \in Begins => \A b \in Begins : ~Within(t, b, k)
        BY <3>1, MarksDiffer DEF Echoes, Fits, Marks
      <3>3. e \in Marks \ Begins => Within(t, BeginOf(e), k)
        BY <3>1 DEF Echoes, Fits, BeginOf, Begins
      <3> QED
        BY <3>1, <3>2, <3>3 DEF EchoAt
    <2> QED
      BY <1>1, <2>1, <2>2
  <1>4. ASSUME NEW b \in Begins PROVE Within(t, b, Len(t) + 1) <=> b = Then(e, o)
    <2>1. b \in Marks
      BY DEF Marks
    <2>2. Within(t, b, Len(s) + 2) <=> IF e \in Marks THEN b = e ELSE Within(s, b, Len(s) + 1)
      BY <2>1, WithinBehind DEF t
    <2>3. Within(s, b, Len(s) + 1) <=> b = o
      BY DEF Echoes
    <2>4. Len(t) + 1 = Len(s) + 2
      BY <1>1
    <2>5. CASE e \in Marks
      <3>1. b = e <=> b = Then(e, o)
        BY <2>1, <2>5, MarksDiffer DEF Then, Marks
      <3> QED
        BY <2>2, <2>4, <2>5, <3>1
    <2>6. CASE e \notin Marks
      BY <2>2, <2>3, <2>4, <2>6 DEF Then, Marks
    <2> QED
      BY <2>5, <2>6
  <1>5. Then(e, o) \in Begins \cup {NoEcho}
    BY DEF Then
  <1> QED
    BY <1>3, <1>4, <1>5 DEF Echoes, t

\* A byte is in the string of an echo or in a tag; one that breaks a string
\* has a backslash before it.
Quotes(s, e, o) ==
    e.n > 0 =>
        /\ o = EchoBegin \/ InTag(e.n) \/ page[e.n].ch = "\n"
        /\ o = EchoBegin /\ page[e.n].ch \in Escapes => s[Len(s)] = Backslash
        /\ e.ch = IF o = EchoBegin THEN Shown(page[e.n].ch) ELSE page[e.n].ch

LEMMA QuotedAppend ==
    ASSUME NEW s \in Seq(Tokens), NEW e \in Tokens, NEW o \in Begins \cup {NoEcho},
           Echoes(s, o), Quoted(s), Quotes(s, e, o)
    PROVE  Quoted(Append(s, e))
  <1> DEFINE t == Append(s, e)
  <1>1. /\ Len(s) \in Nat /\ Len(t) = Len(s) + 1 /\ \A i \in 1..Len(s) : t[i] = s[i]
        /\ t[Len(s) + 1] = e
    BY AppendProperties, LenProperties
  <1>2. \A k \in 1..(Len(s) + 1) : \A b : Within(t, b, k) <=> Within(s, b, k)
    BY WithinBefore
  <1>3. \A i \in 1..Len(s) : s[i] \in Tokens
    BY ElementOfSeq
  <1> HIDE DEF t
  <1>4. ASSUME NEW k \in 1..Len(t) PROVE QuotedAt(t, k)
    <2>1. CASE k \in 1..Len(s)
      <3>1. QuotedAt(s, k) /\ t[k] = s[k]
        BY <1>1, <2>1 DEF Quoted
      <3>2. CASE k = 1
        <4>1. ~Within(s, EchoBegin, 1) /\ (Within(t, EchoBegin, 1) <=> Within(s, EchoBegin, 1))
          BY <1>1, <1>2 DEF Within
        <4> QED
          BY <3>1, <3>2, <4>1 DEF QuotedAt
      <3>3. CASE k > 1
        <4>1. t[k - 1] = s[k - 1] /\ (Within(t, EchoBegin, k) <=> Within(s, EchoBegin, k))
          BY <1>1, <1>2, <2>1, <3>3
        <4> QED
          BY <3>1, <4>1 DEF QuotedAt
      <3> QED
        BY <2>1, <3>2, <3>3
    <2>2. CASE k = Len(s) + 1
      <3>1. t[k] = e /\ (Within(t, EchoBegin, k) <=> Within(s, EchoBegin, Len(s) + 1))
        BY <1>1, <1>2, <2>2
      <3>2. Within(t, EchoBegin, k) <=> o = EchoBegin
        BY <3>1 DEF Echoes, Begins
      <3>3. CASE Len(s) = 0
        <4>1. ~Within(s, EchoBegin, 1)
          BY DEF Within
        <4>2. o # EchoBegin
          BY <2>2, <3>1, <3>2, <3>3, <4>1
        <4> QED
          BY <3>1, <3>2, <4>2 DEF QuotedAt, Quotes
      <3>4. CASE Len(s) > 0
        <4>1. t[k - 1] = s[Len(s)]
          BY <1>1, <2>2, <3>4
        <4> QED
          BY <3>1, <3>2, <4>1 DEF QuotedAt, Quotes
      <3> QED
        BY <1>1, <3>3, <3>4
    <2> QED
      BY <1>1, <2>1, <2>2
  <1> QED
    BY <1>4 DEF Quoted, t

\* The pages that are read, and what is put behind s when byte f is the next
\* of the page: a mark, or that byte.
PageTyped == page \in Seq(Tokens) /\ \A n \in 1..Len(page) : page[n].n = n

LEMMA CopiedMark ==
    ASSUME NEW s \in Seq(Tokens), NEW e \in Tokens, NEW f \in Int, Copied(s, f), e.n = 0
    PROVE  Copied(Append(s, e), f)
  <1>1. /\ Len(s) \in Nat /\ Len(Append(s, e)) = Len(s) + 1
        /\ \A i \in 1..Len(s) : Append(s, e)[i] = s[i]
        /\ Append(s, e)[Len(s) + 1] = e
    BY AppendProperties, LenProperties
  <1> DEFINE t == Append(s, e)
  <1> HIDE DEF t
  <1>2. \A k \in 1..Len(t) : t[k].n > 0 => k \in 1..Len(s) /\ t[k] = s[k]
    BY <1>1 DEF t
  <1>3. KeptOrder(t)
    BY <1>2 DEF Copied, KeptOrder
  <1> QED
    BY <1>2, <1>3 DEF Copied, t

LEMMA ShownLineFeed == \A c : Shown(c) = "\n" <=> c = "\n"
  BY DEF Shown, Control

LEMMA CopyLineFeed ==
    ASSUME NEW n, NEW e, Copy(e, n)
    PROVE  e.ch = "\n" <=> page[n].ch = "\n"
  BY ShownLineFeed DEF Copy

LEMMA SameCopy ==
    ASSUME NEW n, NEW e, NEW e2, Copy(e, n), Copy(e2, n), e.ch = "\n"
    PROVE  e = e2
  <1>1. e.n = n /\ e2.n = n /\ e.ch = "\n" /\ e2.ch = "\n" /\ e \in Tokens /\ e2 \in Tokens
    BY CopyLineFeed DEF Copy
  <1> QED
    BY <1>1 DEF Tokens

LEMMA PageCopy ==
    ASSUME PageTyped, NEW f \in 1..Len(page)
    PROVE  Copy(page[f], f)
  BY ElementOfSeq DEF PageTyped, Copy

LEMMA CopiedByte ==
    ASSUME PageTyped, NEW s \in Seq(Tokens), NEW f \in 1..Len(page), Copied(s, f),
           NEW e, Copy(e, f)
    PROVE  /\ Copied(Append(s, e), f + 1)
           /\ e.ch = "\n" => Copied(Append(s, e), f)
  <1> DEFINE t == Append(s, e)
  <1>1. e \in Tokens /\ e.n = f /\ Len(page) \in Nat
    BY LenProperties DEF PageTyped, Copy
  <1>2. /\ Len(s) \in Nat /\ Len(t) = Len(s) + 1 /\ \A i \in 1..Len(s) : t[i] = s[i]
        /\ t[Len(s) + 1] = e
    BY <1>1, AppendProperties, LenProperties
  <1>3. \A k \in 1..Len(s) : s[k].n \in Nat
    <2>1. \A k \in 1..Len(s) : s[k] \in Tokens
      BY ElementOfSeq
    <2> QED
      BY <2>1 DEF Tokens
  <1> HIDE DEF t
  <1>4. KeptOrder(t)
    <2> SUFFICES ASSUME NEW j \in 1..Len(t), NEW k \in 1..Len(t), j < k, t[j].n > 0, t[k].n > 0
                 PROVE  t[j].n < t[k].n \/ (t[j] = t[k] /\ t[k].ch = "\n")
      BY DEF KeptOrder
    <2>1. j \in 1..Len(s) /\ t[j] = s[j]
      BY <1>2
    <2>2. CASE k \in 1..Len(s)
      BY <1>2, <2>1, <2>2 DEF Copied, KeptOrder
    <2>3. CASE k = Len(s) + 1
      <3>1. t[k] = e /\ s[j].n > 0
        BY <1>2, <2>1, <2>3
      <3>2. Copy(s[j], s[j].n) /\ (s[j].n < f \/ (s[j].n = f /\ s[j].ch = "\n"))
        BY <2>1, <3>1 DEF Copied
      <3>3. s[j].n = f /\ s[j].ch = "\n" => s[j] = e
        BY <3>2, SameCopy
      <3> QED
        BY <1>1, <2>1, <3>1, <3>2, <3>3
    <2> QED
      BY <1>2, <2>2, <2>3
  <1>5. ASSUME NEW k \in 1..Len(t), t[k].n > 0
        PROVE  /\ t[k].n \in 1..Len(page) /\ Copy(t[k], t[k].n)
               /\ t[k].n < f + 1
               /\ t[k].n < f \/ (t[k].n = f /\ t[k].ch = "\n") \/ t[k] = e
    <2>1. CASE k \in 1..Len(s)
      <3>1. t[k] = s[k] /\ s[k].n > 0 /\ s[k].n \in Nat
        BY <1>2, <1>3, <1>5, <2>1
      <3>2. /\ s[k].n \in 1..Len(page) /\ Copy(s[k], s[k].n)
            /\ s[k].n < f \/ (s[k].n = f /\ s[k].ch = "\n")
        BY <2>1, <3>1 DEF Copied
      <3> QED
        BY <3>1, <3>2
    <2>2. CASE k = Len(s) + 1
      BY <1>1, <1>2, <2>2
    <2> QED
      BY <1>2, <2>1, <2>2
  <1>6. Copied(t, f + 1)
    BY <1>4, <1>5 DEF Copied
  <1>7. ASSUME e.ch = "\n" PROVE Copied(t, f)
    BY <1>1, <1>4, <1>5, <1>7 DEF Copied
  <1> QED
    BY <1>6, <1>7 DEF t

LEMMA AccountedAppend ==
    ASSUME NEW s \in Seq(Tokens), NEW e \in Tokens, NEW f \in Int, Accounted(s, f)
    PROVE  /\ Accounted(Append(s, e), f)
           /\ e.n = f => Accounted(Append(s, e), f + 1)
  <1> DEFINE t == Append(s, e)
  <1>1. /\ Len(s) \in Nat /\ Len(t) = Len(s) + 1 /\ \A i \in 1..Len(s) : t[i] = s[i]
        /\ t[Len(s) + 1] = e
    BY AppendProperties, LenProperties
  <1> HIDE DEF t
  <1>2. ASSUME NEW n \in 1..(f - 1) PROVE Dropped(n) \/ \E k \in 1..Len(t) : t[k].n = n
    <2>1. CASE Dropped(n)
      BY <2>1
    <2>2. CASE \E k \in 1..Len(s) : s[k].n = n
      BY <1>1, <2>2
    <2> QED
      BY <2>1, <2>2 DEF Accounted
  <1>3. e.n = f => \E k \in 1..Len(t) : t[k].n = f
    BY <1>1
  <1> QED
    BY <1>2, <1>3 DEF Accounted, t

\* A mark, or a backslash or blank of the chunk's own.
LEMMA PutMark ==
    ASSUME NEW s, NEW e \in Marks \cup {Backslash, Blank}, NEW o \in Begins \cup {NoEcho}, NEW f \in Int,
           Chunk(s, o, f), Fits(e, o)
    PROVE  Chunk(Append(s, e), Then(e, o), f) /\ Then(e, o) \in Begins \cup {NoEcho}
  <1>1. e \in Tokens /\ e.n = 0
    BY MarksAreTokens
  <1>2. s \in Seq(Tokens) /\ Echoes(s, o) /\ Quoted(s) /\ Copied(s, f) /\ Accounted(s, f)
    BY DEF Chunk
  <1>3. Append(s, e) \in Seq(Tokens)
    BY <1>1, <1>2, AppendProperties
  <1>4. Echoes(Append(s, e), Then(e, o)) /\ Then(e, o) \in Begins \cup {NoEcho}
    BY <1>1, <1>2, EchoesAppend
  <1>5. Quoted(Append(s, e))
    BY <1>1, <1>2, QuotedAppend DEF Quotes
  <1>6. Copied(Append(s, e), f) /\ Accounted(Append(s, e), f)
    BY <1>1, <1>2, CopiedMark, AccountedAppend
  <1> QED
    BY <1>3, <1>4, <1>5, <1>6 DEF Chunk

\* The next byte of the page.
LEMMA PutByte ==
    ASSUME PageTyped, NEW s, NEW o \in Begins \cup {NoEcho}, NEW f \in 1..Len(page),
           Chunk(s, o, f), NEW e, Copy(e, f), Quotes(s, e, o)
    PROVE  /\ Chunk(Append(s, e), o, f + 1)
           /\ e.ch = "\n" => Chunk(Append(s, e), o, f)
  <1>1. e \in Tokens /\ e.n = f /\ f \in Int /\ f > 0
    BY LenProperties DEF PageTyped, Copy
  <1>2. s \in Seq(Tokens) /\ Echoes(s, o) /\ Quoted(s) /\ Copied(s, f) /\ Accounted(s, f)
    BY DEF Chunk
  <1>3. Append(s, e) \in Seq(Tokens)
    BY <1>1, <1>2, AppendProperties
  <1>4. e \notin Marks
    BY <1>1, MarksAreTokens
  <1>5. Echoes(Append(s, e), o)
    <2>1. Fits(e, o) /\ Then(e, o) = o
      BY <1>4 DEF Fits, Then, Marks
    <2> QED
      BY <1>1, <1>2, <2>1, EchoesAppend
  <1>6. Quoted(Append(s, e))
    BY <1>1, <1>2, QuotedAppend
  <1>7. /\ Copied(Append(s, e), f + 1) /\ (e.ch = "\n" => Copied(Append(s, e), f))
        /\ Accounted(Append(s, e), f + 1) /\ Accounted(Append(s, e), f)
    BY <1>1, <1>2, CopiedByte, AccountedAppend
  <1> QED
    BY <1>3, <1>5, <1>6, <1>7 DEF Chunk

\* Bytes that are left out.
LEMMA DropBytes ==
    ASSUME NEW s, NEW o, NEW f \in Int, NEW f2 \in Int, Chunk(s, o, f), f <= f2,
           \A n \in f..(f2 - 1) : Dropped(n)
    PROVE  Chunk(s, o, f2)
  <1>1. \A k \in 1..Len(s) : s[k].n \in Nat
    <2>1. \A k \in 1..Len(s) : s[k] \in Tokens
      BY ElementOfSeq DEF Chunk
    <2> QED
      BY <2>1 DEF Tokens
  <1>2. Copied(s, f2)
    BY <1>1 DEF Chunk, Copied
  <1>3. Accounted(s, f2)
    BY DEF Chunk, Accounted
  <1> QED
    BY <1>2, <1>3 DEF Chunk

-----------------------------------------------------------------------------
(***************************************************************************)
(* What a step puts into the chunk.                                        *)
(***************************************************************************)
LEMMA PutNothing ==
    ASSUME NEW s \in Seq(Tokens)
    PROVE  s \o <<>> = s
  BY ConcatEmptySeq

LEMMA PutOne ==
    ASSUME NEW s \in Seq(Tokens), NEW e \in Tokens
    PROVE  s \o <<e>> = Append(s, e)
  BY AppendIsConcat

LEMMA PutFirst ==
    ASSUME NEW s \in Seq(Tokens), NEW e \in Tokens, NEW t \in Seq(Tokens)
    PROVE  s \o (<<e>> \o t) = Append(s, e) \o t
  <1>1. <<e>> \in Seq(Tokens)
    OBVIOUS
  <1>2. (s \o <<e>>) \o t = s \o (<<e>> \o t)
    BY <1>1, ConcatAssociative
  <1> QED
    BY <1>2, PutOne

LEMMA Pairing ==
    ASSUME NEW a \in Tokens, NEW b \in Tokens
    PROVE  <<a, b>> = <<a>> \o <<b>>
  <1>1. <<a>> \in Seq(Tokens) /\ <<b>> \in Seq(Tokens) /\ <<a, b>> \in Seq(Tokens)
    OBVIOUS
  <1>2. Len(<<a>>) = 1 /\ Len(<<b>>) = 1 /\ Len(<<a, b>>) = 2
    OBVIOUS
  <1>3. /\ <<a>> \o <<b>> \in Seq(Tokens) /\ Len(<<a>> \o <<b>>) = 2
        /\ \A i \in 1..2 : (<<a>> \o <<b>>)[i] = IF i <= 1 THEN <<a>>[i] ELSE <<b>>[i - 1]
    BY <1>1, <1>2, ConcatProperties
  <1>4. ASSUME NEW i \in 1..2 PROVE <<a, b>>[i] = (<<a>> \o <<b>>)[i]
    <2>1. CASE i = 1
      BY <1>3, <2>1
    <2>2. CASE i = 2
      BY <1>3, <2>2
    <2> QED
      BY <2>1, <2>2
  <1> QED
    BY <1>1, <1>2, <1>3, <1>4, SeqEqual

LEMMA PutTwo ==
    ASSUME NEW s \in Seq(Tokens), NEW a \in Tokens, NEW b \in Tokens
    PROVE  s \o <<a, b>> = Append(Append(s, a), b)
  <1>1. <<a, b>> = <<a>> \o <<b>>
    BY Pairing
  <1>2. Append(s, a) \in Seq(Tokens) /\ <<b>> \in Seq(Tokens)
    BY AppendProperties
  <1> QED
    BY <1>1, <1>2, PutFirst, PutOne

\* The next byte as it is shown, with a backslash if need be.
AsShown(e) == [e EXCEPT !.ch = Shown(@)]
Quoting(e) == (IF e.ch \in Escapes THEN <<Backslash>> ELSE <<>>) \o <<AsShown(e)>>

LEMMA ShownIs ==
    ASSUME NEW e \in Tokens
    PROVE  AsShown(e) \in Tokens /\ AsShown(e).n = e.n /\ AsShown(e).ch = Shown(e.ch)
  <1>1. e.ch \in Chars /\ AsShown(e) = [ch |-> Shown(e.ch), n |-> e.n] /\ e.n \in Nat
    BY DEF Tokens, AsShown
  <1>2. Shown(e.ch) \in Chars
    <2>1. Shown(e.ch) \in {"r", "t", "f", "a", "b", "v", ".", e.ch}
      BY DEF Shown
    <2> QED
      BY <1>1, <2>1 DEF Chars
  <1> QED
    BY <1>1, <1>2 DEF Tokens

LEMMA QuotingIs ==
    ASSUME NEW e \in Tokens
    PROVE  /\ e.ch \in Escapes => Quoting(e) = <<Backslash, AsShown(e)>>
           /\ e.ch \notin Escapes => Quoting(e) = <<AsShown(e)>>
  <1>1. AsShown(e) \in Tokens /\ Backslash \in Tokens
    BY ShownIs, MarksAreTokens
  <1>2. <<Backslash, AsShown(e)>> = <<Backslash>> \o <<AsShown(e)>>
    BY <1>1, Pairing
  <1>3. <<>> \o <<AsShown(e)>> = <<AsShown(e)>>
    BY <1>1, ConcatEmptySeq
  <1> QED
    BY <1>2, <1>3 DEF Quoting

LEMMA PutText ==
    ASSUME PageTyped, NEW s, NEW f \in 1..Len(page), Chunk(s, EchoBegin, f)
    PROVE  Chunk(s \o Quoting(page[f]), EchoBegin, f + 1)
  <1> DEFINE e == AsShown(page[f])
  <1>1. page[f] \in Tokens /\ page[f].n = f /\ f \in Int /\ s \in Seq(Tokens)
    BY ElementOfSeq, LenProperties DEF PageTyped, Chunk
  <1>2. EchoBegin \in Begins \cup {NoEcho}
    BY DEF Begins
  <1>3. e \in Tokens /\ e.n = f /\ e.ch = Shown(page[f].ch) /\ Copy(e, f)
    BY <1>1, ShownIs DEF Copy
  <1> HIDE DEF e
  <1>4. CASE page[f].ch \in Escapes
    <2> DEFINE t == Append(s, Backslash)
    <2>1. Fits(Backslash, EchoBegin) /\ Then(Backslash, EchoBegin) = EchoBegin
      BY MarksDiffer DEF Fits, Then, Marks
    <2>2. Chunk(t, EchoBegin, f)
      BY <1>1, <1>2, <2>1, PutMark
    <2>3. Backslash \in Tokens
      BY MarksAreTokens
    <2>4. Len(t) = Len(s) + 1 /\ t[Len(s) + 1] = Backslash
      BY <1>1, <2>3, AppendProperties
    <2>5. Quotes(t, e, EchoBegin)
      BY <1>3, <2>4 DEF Quotes
    <2>6. Chunk(Append(t, e), EchoBegin, f + 1)
      BY <1>2, <1>3, <2>2, <2>5, PutByte
    <2>7. s \o Quoting(page[f]) = Append(t, e)
      BY <1>1, <1>3, <1>4, <2>3, PutTwo, QuotingIs DEF e
    <2> QED
      BY <2>6, <2>7
  <1>5. CASE page[f].ch \notin Escapes
    <2>1. Quotes(s, e, EchoBegin)
      BY <1>3, <1>5 DEF Quotes
    <2>2. Chunk(Append(s, e), EchoBegin, f + 1)
      BY <1>2, <1>3, <2>1, PutByte
    <2>3. s \o Quoting(page[f]) = Append(s, e)
      BY <1>1, <1>3, <1>5, PutOne, QuotingIs DEF e
    <2> QED
      BY <2>2, <2>3
  <1> QED
    BY <1>4, <1>5

\* An echo is begun, if none is.
Beginning(o) == IF o = NoEcho THEN <<EchoBegin>> ELSE <<>>

LEMMA PutBegin ==
    ASSUME NEW s, NEW o \in {NoEcho, EchoBegin}, NEW f \in Int, Chunk(s, o, f)
    PROVE  Chunk(s \o Beginning(o), EchoBegin, f)
  <1>1. s \in Seq(Tokens) /\ EchoBegin \in Tokens /\ EchoBegin \in Begins
    BY MarksAreTokens DEF Chunk, Marks, Begins
  <1>2. CASE o = NoEcho
    <2>1. Fits(EchoBegin, o) /\ Then(EchoBegin, o) = EchoBegin
      BY <1>1, <1>2 DEF Fits, Then
    <2>2. Chunk(Append(s, EchoBegin), EchoBegin, f)
      BY <1>1, <1>2, <2>1, PutMark DEF Marks
    <2> QED
      BY <1>1, <1>2, <2>2, PutOne DEF Beginning
  <1>3. CASE o # NoEcho
    <2>1. s \o Beginning(o) = s
      BY <1>1, <1>3, PutNothing DEF Beginning
    <2> QED
      BY <1>3, <2>1
  <1> QED
    BY <1>2, <1>3

-----------------------------------------------------------------------------
(***************************************************************************)
(* Where the reader is: byte p of the page is the next, and if g is not 0, *)
(* byte g was skipped by a step back.                                      *)
(***************************************************************************)
Unread(u, p, g) ==
    /\ Len(u) = Len(page) + 1 - p - (IF g = 0 THEN 0 ELSE 1)
    /\ \A i \in 1..Len(u) :
         IF g = 0 \/ p + i <= g THEN u[i] = page[p + i - 1] ELSE u[i] = page[p + i]

\* Only a carriage return behind blanks is skipped, and the blanks are read
\* as text.
Skips(state, p, g) ==
    /\ state \in {"CHAR1", "CHAR2"} /\ p < g
    /\ Has(g, "\r") /\ BehindTag(g) /\ \A k \in p..(g - 1) : Has(k, " ")

\* Tag i is open before byte p; the code (a comment) in it, and a '?' there.
TagOpen(i, p) == TagBegins(i) /\ \A j \in (i + 3)..(p - 2) : ~TagEnds(j)
NoMark(i, p) == i + 3 < p => ~Has(p - 1, "?")
CodeAt(p) == \E i \in 1..(p - 3) : TagOpen(i, p) /\ NoMark(i, p)
CommentAt(p) == \E i \in 1..(p - 3) : TagOpen(i, p) /\ NoMark(i, p) /\ Has(i + 2, "#")
CodeMarkAt(p) == Has(p - 1, "?") /\ \E i \in 1..(p - 4) : TagOpen(i, p)
CommentMarkAt(p) == Has(p - 1, "?") /\ \E i \in 1..(p - 4) : TagOpen(i, p) /\ Has(i + 2, "#")

\* What each state of the reader knows of the bytes before the next one.
Behind(state, p) ==
    /\ state \in {"CHAR3", "CHAR4"} => Has(p - 1, "<")
    /\ state = "STMT1" => TagBegins(p - 2)
    /\ state \in {"STMT2", "STMT12"} => CodeAt(p)
    /\ state \in {"STMT3", "STMT13"} => CodeMarkAt(p)
    /\ state = "COMMENT1" => CommentAt(p)
    /\ state = "COMMENT2" => CommentMarkAt(p)
    /\ state = "LF1" => BehindTag(p)
    /\ state = "LF2" => Has(p - 1, "\r") /\ BehindTag(p - 1)
    /\ state = "UNDEFINED" => p = Len(page) + 1

\* The bytes before this one are in the chunk or were dropped ...
Marked == {"CHAR3", "CHAR4", "STMT3", "STMT13"}
StartOf(state, p, h) ==
    IF state \in Marked THEN p - 1
    ELSE IF state = "LF1" THEN p - Len(h)
    ELSE IF state = "LF2" THEN p - 1 - Len(h)
    ELSE p

\* ... from it on, white space may be held, and not across blocks ...
LineEnds == {"LF1", "LF2"}
Holds(h, a) == a > 0 /\ \A i \in 1..Len(h) : h[i] = page[a + i - 1] /\ Has(a + i - 1, " ")
HeldAt(state, p, h, used) ==
    /\ state \notin LineEnds \cup {"UNDEFINED"} => h = <<>>
    /\ state \in LineEnds => Holds(h, StartOf(state, p, h)) /\ (h # <<>> => used < LuaBuf)

\* ... and this echo is open.
EchoOf(state) ==
    IF state \in {"CHAR2", "CHAR3"} THEN EchoBegin
    ELSE IF state \in {"STMT2", "STMT3"} THEN VarBegin
    ELSE NoEcho
Opened(state, o) ==
    IF state = "UNDEFINED" THEN o = EchoBegin => Has(Len(page), "<") ELSE o = EchoOf(state)

\* All of it, of a state, what is not read, held and written, and the place in
\* a block.
Reading(state, u, h, s, used, p, g) ==
    /\ Unread(u, p, g)
    /\ g # 0 => Skips(state, p, g)
    /\ Behind(state, p)
    /\ HeldAt(state, p, h, used)
    /\ \E o \in Begins \cup {NoEcho} : Chunk(s, o, StartOf(state, p, h)) /\ Opened(state, o)

ReaderTyped == PageTyped /\ unread \in Seq(Tokens) /\ held \in Seq(Tokens) /\ ReaderTypeOK

ReaderInv ==
    /\ ReaderTyped
    /\ \E p \in 1..(Len(page) + 1), g \in 0..Len(page) :
         Reading(st, unread, held, lua, buf_offset, p, g)

-----------------------------------------------------------------------------
(***************************************************************************)
(* The next byte, and what is left behind it.                              *)
(***************************************************************************)
LEMMA NextIs ==
    ASSUME PageTyped, unread \in Seq(Tokens), NEW p \in 1..(Len(page) + 1), NEW g \in 0..Len(page),
           Unread(unread, p, g), g # 0 => p < g, unread # <<>>
    PROVE  /\ p \in 1..Len(page) /\ byte = page[p] /\ byte \in Tokens /\ byte.n = p
           /\ Tail(unread) \in Seq(Tokens)
           /\ g = 0 => Unread(Tail(unread), p + 1, 0)
           /\ g # 0 /\ p + 1 # g => Unread(Tail(unread), p + 1, g)
           /\ g # 0 /\ p + 1 = g => Unread(Tail(unread), g + 1, 0)
  <1>1. /\ Len(page) \in Nat /\ Len(unread) \in Nat /\ Len(unread) > 0
        /\ \A i \in 1..Len(page) : page[i] \in Tokens /\ page[i].n = i
    BY EmptySeq, LenProperties, ElementOfSeq DEF PageTyped
  <1>2. /\ Tail(unread) \in Seq(Tokens) /\ Len(Tail(unread)) = Len(unread) - 1
        /\ \A i \in 1..Len(Tail(unread)) : Tail(unread)[i] = unread[i + 1]
    BY HeadTailProperties
  <1>3. p \in 1..Len(page)
    BY <1>1 DEF Unread
  <1>4. byte = unread[1] /\ unread[1] = page[p]
    <2>1. byte = unread[1]
      BY DEF byte
    <2>2. 1 \in 1..Len(unread) /\ (g = 0 \/ p + 1 <= g) /\ p + 1 - 1 = p
      BY <1>1
    <2> QED
      BY <2>1, <2>2 DEF Unread
  <1> DEFINE u == Tail(unread)
  <1>5. Len(u) = Len(unread) - 1 /\ \A i \in 1..Len(u) : u[i] = unread[i + 1]
    BY <1>2
  <1> HIDE DEF u
  <1>9. ASSUME NEW i \in 1..Len(u)
        PROVE  IF g = 0 \/ p + 1 + i <= g THEN u[i] = page[p + 1 + i - 1] ELSE u[i] = page[p + 1 + i]
    <2>1. i + 1 \in 1..Len(unread) /\ u[i] = unread[i + 1] /\ p + (i + 1) - 1 = p + i
          /\ p + (i + 1) = p + 1 + i /\ p + 1 + i - 1 = p + i
      BY <1>1, <1>5
    <2> QED
      BY <2>1 DEF Unread
  <1>6. ASSUME g = 0 PROVE Unread(u, p + 1, 0)
    BY <1>1, <1>5, <1>6, <1>9 DEF Unread
  <1>7. ASSUME g # 0, p + 1 # g PROVE Unread(u, p + 1, g)
    BY <1>1, <1>5, <1>7, <1>9 DEF Unread
  <1>8. ASSUME g # 0, p + 1 = g PROVE Unread(u, g + 1, 0)
    <2>1. ASSUME NEW i \in 1..Len(u) PROVE u[i] = page[g + 1 + i - 1]
      <3>1. ~(p + 1 + i <= g) /\ g + 1 + i - 1 = p + 1 + i
        BY <1>1, <1>5, <1>8
      <3> QED
        BY <1>8, <1>9, <3>1
    <2>2. Len(u) = Len(page) + 1 - (g + 1) - 0
      <3>1. Len(unread) = Len(page) + 1 - p - 1
        BY <1>8 DEF Unread
      <3>2. Len(u) = Len(unread) - 1
        BY <1>5
      <3> QED
        BY <1>1, <1>8, <3>1, <3>2
    <2> DEFINE q == g + 1
    <2>3. Len(u) = Len(page) + 1 - q - 0 /\ \A i \in 1..Len(u) : u[i] = page[q + i - 1]
      BY <2>1, <2>2
    <2> HIDE DEF q
    <2>4. Unread(u, q, 0)
      BY <2>3 DEF Unread
    <2> QED
      BY <2>4 DEF q
  <1> QED
    BY <1>1, <1>2, <1>3, <1>4, <1>6, <1>7, <1>8 DEF u

LEMMA NothingIs ==
    ASSUME PageTyped, NEW p \in 1..(Len(page) + 1), NEW g \in 0..Len(page),
           Unread(unread, p, g), g # 0 => p < g, unread = <<>>
    PROVE  p = Len(page) + 1 /\ g = 0
  <1>1. Len(page) \in Nat /\ Len(unread) = 0
    BY LenProperties DEF PageTyped
  <1> QED
    BY <1>1 DEF Unread

\* The byte that was kept back.
LEMMA BeforeIs ==
    ASSUME PageTyped, NEW p \in 1..Len(page), byte = page[p], NEW c, Has(p - 1, c)
    PROVE  p - 1 \in 1..Len(page) /\ Before(c) = page[p - 1]
  <1>1. Len(page) \in Nat /\ DOMAIN page = 1..Len(page)
    BY LenProperties DEF PageTyped
  <1>2. p - 1 \in 1..Len(page) /\ page[p - 1].ch = c
    BY <1>1 DEF Has
  <1>3. page[p - 1] \in Tokens /\ page[p - 1].n = p - 1 /\ byte.n = p
    BY <1>2, ElementOfSeq DEF PageTyped
  <1>4. page[p - 1] = [ch |-> page[p - 1].ch, n |-> page[p - 1].n]
    BY <1>3 DEF Tokens
  <1> QED
    BY <1>2, <1>3, <1>4 DEF Before

-----------------------------------------------------------------------------
(***************************************************************************)
(* The page stays, and so does what is said of it.                         *)
(***************************************************************************)
LEMMA SamePage ==
    ASSUME page' = page
    PROVE  /\ PageTyped => PageTyped'
           /\ \A n, c : Has(n, c)' <=> Has(n, c)
           /\ \A n : TagBegins(n)' <=> TagBegins(n)
           /\ \A n : BehindTag(n)' <=> BehindTag(n)
           /\ \A state, u, h, s, used, p, g :
                Reading(state, u, h, s, used, p, g)' <=> Reading(state, u, h, s, used, p, g)
  <1>1. \A n, c : Has(n, c)' <=> Has(n, c)
    BY DEF Has
  <1>2. \A n : (TagBegins(n)' <=> TagBegins(n)) /\ (TagEnds(n)' <=> TagEnds(n))
    BY <1>1 DEF TagBegins, TagEnds
  <1>3. \A n : BehindTag(n)' <=> BehindTag(n)
    BY <1>1, <1>2 DEF BehindTag
  <1>4. \A i, p : TagOpen(i, p)' <=> TagOpen(i, p)
    BY <1>2 DEF TagOpen
  <1>5. \A n : CodeAt(n)' <=> CodeAt(n)
    BY <1>1, <1>4 DEF CodeAt, NoMark
  <1>6. \A n : CommentAt(n)' <=> CommentAt(n)
    BY <1>1, <1>4 DEF CommentAt, NoMark
  <1>7. \A n : CodeMarkAt(n)' <=> CodeMarkAt(n)
    BY <1>1, <1>4 DEF CodeMarkAt
  <1>8. \A n : CommentMarkAt(n)' <=> CommentMarkAt(n)
    BY <1>1, <1>4 DEF CommentMarkAt
  <1>9. \A u, p, g : Unread(u, p, g)' <=> Unread(u, p, g)
    BY DEF Unread
  <1>10. \A n : InTag(n)' <=> InTag(n)
    BY <1>2 DEF InTag
  <1>11. \A n : Dropped(n)' <=> Dropped(n)
    <2>1. \A n : InComment(n)' <=> InComment(n)
      BY <1>1, <1>2 DEF InComment
    <2>2. \A n : LineEndsBehind(n)' <=> LineEndsBehind(n)
      BY <1>1 DEF LineEndsBehind
    <2> QED
      BY <1>1, <1>2, <1>3, <2>1, <2>2 DEF Dropped
  <1>12. \A s, o, f : Chunk(s, o, f)' <=> Chunk(s, o, f)
    <2>1. \A s, o : Echoes(s, o)' <=> Echoes(s, o)
      BY DEF Echoes, EchoAt
    <2>2. \A s : Quoted(s)' <=> Quoted(s)
      BY <1>10 DEF Quoted, QuotedAt
    <2>3. \A s, f : Copied(s, f)' <=> Copied(s, f)
      BY DEF Copied, KeptOrder, Copy
    <2>4. \A s, f : Accounted(s, f)' <=> Accounted(s, f)
      BY <1>11 DEF Accounted
    <2> QED
      BY <2>1, <2>2, <2>3, <2>4 DEF Chunk
  <1>13. \A state, p, g : Skips(state, p, g)' <=> Skips(state, p, g)
    BY <1>1, <1>3 DEF Skips
  <1>14. \A state, p : Behind(state, p)' <=> Behind(state, p)
    BY <1>1, <1>2, <1>3, <1>5, <1>6, <1>7, <1>8 DEF Behind
  <1>15. \A state, p, h, used : HeldAt(state, p, h, used)' <=> HeldAt(state, p, h, used)
    <2>1. \A h, a : Holds(h, a)' <=> Holds(h, a)
      BY <1>1 DEF Holds
    <2> QED
      BY <2>1 DEF HeldAt, StartOf
  <1>16. \A state, o : Opened(state, o)' <=> Opened(state, o)
    BY <1>1 DEF Opened, EchoOf
  <1>17. \A state, u, h, s, used, p, g :
           Reading(state, u, h, s, used, p, g)' <=> Reading(state, u, h, s, used, p, g)
    BY <1>9, <1>12, <1>13, <1>14, <1>15, <1>16 DEF Reading, StartOf
  <1> QED
    BY <1>1, <1>2, <1>3, <1>17 DEF PageTyped

-----------------------------------------------------------------------------
(***************************************************************************)
(* The steps.                                                              *)
(***************************************************************************)
States == { "UNDEFINED", "CHAR1", "CHAR2", "CHAR3", "CHAR4", "STMT1", "STMT2", "STMT3", "STMT12",
            "STMT13", "COMMENT1", "COMMENT2", "LF1", "LF2" }

LEMMA Small ==
    /\ \A n \in Nat : n <= 4 => n \in 0..9
    /\ \A m \in 0..1, n \in 1..2 : m + n <= 4 /\ m + 1 + n <= 4
  OBVIOUS

LEMMA WidthIs ==
    ASSUME NEW text \in Seq(Tokens), Len(text) <= 4
    PROVE  Width(text) \in 0..9 /\ (text = <<>> => Width(text) = 0)
  <1>1. Len(text) \in Nat /\ (text = <<>> => Len(text) = 0)
    BY EmptySeq, LenProperties
  <1>2. CASE text = <<>>
    BY <1>1, <1>2 DEF Width
  <1>3. CASE text # <<>> /\ text[1] = EchoBegin
    BY <1>1, <1>3 DEF Width
  <1>4. CASE text # <<>> /\ text[1] = VarBegin
    BY <1>1, <1>4, MarksDiffer DEF Width
  <1>5. CASE text # <<>> /\ text[1] = EchoEnd
    BY <1>1, <1>5, MarksDiffer DEF Width
  <1>6. CASE text # <<>> /\ text[1] \notin {EchoBegin, VarBegin, EchoEnd}
    <2>1. Width(text) = Len(text)
      BY <1>6 DEF Width
    <2>2. text # <<>>
      BY <1>6
    <2>3. Len(text) \in 0..9
      BY <1>1, Small
    <2> QED
      BY <2>1, <2>2, <2>3
  <1> QED
    BY <1>2, <1>3, <1>4, <1>5, <1>6

\* A block has room for a few more items.
LEMMA BufferRoom ==
    ASSUME NEW n \in 0..(LuaBuf + 32), NEW m,
           m = 0 \/ m = n \/ (n < LuaBuf /\ \E k \in 0..9 : m = n + k)
    PROVE  m \in 0..(LuaBuf + 32)
  BY ReaderAssumption

\* The types after a step that puts a few items into the block.
LEMMA TypesKept ==
    ASSUME ReaderTyped, page' = page, embedded' = embedded,
           unread' \in Seq(Tokens), held' \in Seq(Tokens), \A k \in 1..Len(held') : held'[k].ch = " ",
           st' \in States, cur_line_echo' \in BOOLEAN,
           \/ buf_offset' = 0
           \/ buf_offset' = buf_offset
           \/ buf_offset < LuaBuf /\ \E k \in 0..9 : buf_offset' = buf_offset + k
    PROVE  ReaderTyped'
  <1>1. PageTyped'
    BY SamePage DEF ReaderTyped
  <1>2. buf_offset \in 0..(LuaBuf + 32)
    BY DEF ReaderTyped, ReaderTypeOK
  <1>3. buf_offset' \in 0..(LuaBuf + 32)
    BY <1>2, BufferRoom
  <1>4. {embedded, cur_line_echo}' \subseteq BOOLEAN
    BY DEF ReaderTyped, ReaderTypeOK
  <1>5. \A k \in DOMAIN held' : held'[k].ch = " "
    BY LenProperties
  <1>6. ReaderTypeOK'
    BY <1>3, <1>4, <1>5 DEF ReaderTypeOK, States
  <1> QED
    BY <1>1, <1>6 DEF ReaderTyped

\* The invariant after a step on the same page.
LEMMA Continues ==
    ASSUME page' = page, ReaderTyped',
           NEW p \in 1..(Len(page) + 1), NEW g \in 0..Len(page),
           Reading(st', unread', held', lua', buf_offset', p, g)
    PROVE  ReaderInv'
  <1>1. Reading(st, unread, held, lua, buf_offset, p, g)'
    BY SamePage
  <1>2. /\ p \in 1..(Len(page') + 1) /\ g \in 0..Len(page')
    OBVIOUS
  <1> QED
    BY <1>1, <1>2 DEF ReaderInv

\* A byte is taken and a few items are put into the block.
LEMMA Taken ==
    ASSUME ReaderTyped, NEW states, Reads(states), NEW text \in Seq(Tokens), Len(text) <= 4,
           NEW next \in States, To(next, text, TRUE) \/ Markup(next, text)
    PROVE  /\ page' = page /\ ReaderTyped'
           /\ st' = next /\ held' = held /\ unread' = Tail(unread) /\ lua' = lua \o text
  <1>1. /\ buf_offset < LuaBuf /\ unread # <<>>
        /\ page' = page /\ embedded' = embedded /\ held' = held
        /\ st' = next /\ unread' = Tail(unread) /\ lua' = lua \o text
        /\ buf_offset' = buf_offset + Width(text) 
    BY DEF To, Markup, Reads, Emit
  <1>2. unread' \in Seq(Tokens) /\ held' \in Seq(Tokens)
    BY <1>1, HeadTailProperties DEF ReaderTyped
  <1>3. \A k \in 1..Len(held') : held'[k].ch = " "
    BY <1>1, LenProperties DEF ReaderTyped, ReaderTypeOK
  <1>4. Width(text) \in 0..9
    BY WidthIs
  <1>5. cur_line_echo' \in BOOLEAN
    BY DEF To, Markup, Line, ReaderTyped, ReaderTypeOK
  <1>6. ReaderTyped'
    BY <1>1, <1>2, <1>3, <1>4, <1>5, TypesKept
  <1> QED
    BY <1>1, <1>6

\* ... in an echo or in none, in code or a comment: no white space is held.
Reached(state, p) == IF state \in Marked THEN p - 1 ELSE p
Midway == States \ {"UNDEFINED", "LF1", "LF2"}

LEMMA Passes ==
    ASSUME ReaderInv, NEW states, Reads(states), states \subseteq Midway,
           NEW text \in Seq(Tokens), Len(text) <= 4, NEW next \in States \ {"UNDEFINED", "LF2"},
           To(next, text, TRUE) \/ Markup(next, text),
           NEW p \in 1..(Len(page) + 1), NEW g \in 0..Len(page),
           Unread(Tail(unread), p, g), g # 0 => Skips(next, p, g),
           held = <<>>, Behind(next, p),
           Chunk(lua \o text, EchoOf(next), Reached(next, p))
    PROVE  ReaderInv'
  <1>1. /\ page' = page /\ ReaderTyped'
        /\ st' = next /\ held' = <<>> /\ unread' = Tail(unread) /\ lua' = lua \o text
    BY Taken DEF ReaderInv
  <1>2. Len(<<>>) = 0 /\ Len(page) \in Nat
    BY LenProperties DEF ReaderInv, ReaderTyped, PageTyped
  <1>3. StartOf(next, p, <<>>) = Reached(next, p)
    BY <1>2 DEF StartOf, Reached, Marked
  <1>4. HeldAt(next, p, <<>>, buf_offset')
    <2>1. CASE next = "LF1"
      BY <1>2, <1>3, <2>1 DEF HeldAt, Holds, LineEnds, Reached, Marked
    <2>2. CASE next # "LF1"
      BY <2>2 DEF HeldAt, LineEnds
    <2> QED
      BY <2>1, <2>2
  <1>5. EchoOf(next) \in Begins \cup {NoEcho} /\ Opened(next, EchoOf(next))
    BY DEF EchoOf, Opened, Begins
  <1>6. Reading(st', unread', held', lua', buf_offset', p, g)
    BY <1>1, <1>3, <1>4, <1>5 DEF Reading
  <1> QED
    BY <1>1, <1>6, Continues

\* ... and the next byte is read, whatever comes.
LEMMA PassesOn ==
    ASSUME ReaderInv, NEW states, Reads(states), states \subseteq Midway,
           NEW text \in Seq(Tokens), Len(text) <= 4, NEW next \in States \ {"UNDEFINED", "LF2"},
           To(next, text, TRUE) \/ Markup(next, text),
           NEW p \in 1..Len(page), Unread(Tail(unread), p + 1, 0),
           held = <<>>, Behind(next, p + 1),
           Chunk(lua \o text, EchoOf(next), Reached(next, p + 1))
    PROVE  ReaderInv'
  <1> DEFINE q == p + 1
             none == 0
  <1>1. Len(page) \in Nat
    BY LenProperties DEF ReaderInv, ReaderTyped, PageTyped
  <1>2. /\ none \in 0..Len(page) /\ q \in 1..(Len(page) + 1)
        /\ Unread(Tail(unread), q, none) /\ Behind(next, q)
        /\ Chunk(lua \o text, EchoOf(next), Reached(next, q))
    BY <1>1
  <1>3. none # 0 => Skips(next, q, none)
    OBVIOUS
  <1> HIDE DEF q, none
  <1> QED
    BY <1>2, <1>3, Passes

LEMMA ReaderAt ==
    ASSUME ReaderInv, NEW states, Reads(states), states \subseteq Midway
    PROVE  \E p \in 1..Len(page), g \in 0..Len(page) :
             /\ Behind(st, p) /\ held = <<>>
             /\ byte = page[p] /\ byte \in Tokens /\ \A c : Is(c) <=> Has(p, c)
             /\ Chunk(lua, EchoOf(st), Reached(st, p))
             /\ g # 0 => Skips(st, p, g)
             /\ g = 0 => Unread(Tail(unread), p + 1, 0)
             /\ g # 0 /\ p + 1 # g => Unread(Tail(unread), p + 1, g)
             /\ g # 0 /\ p + 1 = g => Unread(Tail(unread), g + 1, 0)
  <1>1. PICK p \in 1..(Len(page) + 1), g \in 0..Len(page) :
          Reading(st, unread, held, lua, buf_offset, p, g)
    BY DEF ReaderInv
  <1>2. st \in Midway /\ unread # <<>> /\ PageTyped /\ unread \in Seq(Tokens)
    BY DEF Reads, ReaderInv, ReaderTyped
  <1>3. /\ Unread(unread, p, g) /\ (g # 0 => Skips(st, p, g) /\ p < g)
        /\ Behind(st, p) /\ HeldAt(st, p, held, buf_offset)
    BY <1>1 DEF Reading, Skips
  <1>4. /\ p \in 1..Len(page) /\ byte = page[p] /\ byte \in Tokens
        /\ g = 0 => Unread(Tail(unread), p + 1, 0)
        /\ g # 0 /\ p + 1 # g => Unread(Tail(unread), p + 1, g)
        /\ g # 0 /\ p + 1 = g => Unread(Tail(unread), g + 1, 0)
    BY <1>2, <1>3, NextIs
  <1>5. st \notin LineEnds /\ st # "UNDEFINED" /\ st # "LF1" /\ st # "LF2"
    BY <1>2 DEF Midway, LineEnds
  <1>6. held = <<>>
    BY <1>3, <1>5 DEF HeldAt
  <1>7. Chunk(lua, EchoOf(st), Reached(st, p))
    <2>1. PICK o \in Begins \cup {NoEcho} : Chunk(lua, o, StartOf(st, p, held)) /\ Opened(st, o)
      BY <1>1 DEF Reading
    <2>2. o = EchoOf(st)
      BY <1>5, <2>1 DEF Opened
    <2>3. StartOf(st, p, held) = Reached(st, p)
      BY <1>5 DEF StartOf, Reached
    <2> QED
      BY <2>1, <2>2, <2>3
  <1>8. \A c : Is(c) <=> Has(p, c)
    <2>1. DOMAIN page = 1..Len(page)
      BY <1>2, LenProperties DEF PageTyped
    <2> QED
      BY <1>4, <2>1 DEF Is, Has
  <1> QED
    BY <1>3, <1>4, <1>6, <1>7, <1>8

\* Only text is read behind what was skipped.
LEMMA AtTag ==
    ASSUME ReaderInv, NEW states, Reads(states), states \subseteq Midway \ {"CHAR1", "CHAR2"}
    PROVE  \E p \in 1..Len(page) :
             /\ Behind(st, p) /\ held = <<>>
             /\ byte = page[p] /\ byte \in Tokens /\ \A c : Is(c) <=> Has(p, c)
             /\ Chunk(lua, EchoOf(st), Reached(st, p))
             /\ Unread(Tail(unread), p + 1, 0)
  <1>1. states \subseteq Midway /\ st \notin {"CHAR1", "CHAR2"}
    BY DEF Reads
  <1>2. PICK p \in 1..Len(page), g \in 0..Len(page) :
             /\ Behind(st, p) /\ held = <<>>
             /\ byte = page[p] /\ byte \in Tokens /\ \A c : Is(c) <=> Has(p, c)
             /\ Chunk(lua, EchoOf(st), Reached(st, p))
             /\ g # 0 => Skips(st, p, g)
             /\ g = 0 => Unread(Tail(unread), p + 1, 0)
    BY <1>1, ReaderAt
  <1>3. g = 0
    BY <1>1, <1>2 DEF Skips
  <1> QED
    BY <1>2, <1>3

-----------------------------------------------------------------------------
(***************************************************************************)
(* Text, and where a tag begins.                                           *)
(***************************************************************************)
\* The items of one step.
LEMMA ItemsOf ==
    ASSUME NEW a \in Tokens
    PROVE  /\ <<>> \in Seq(Tokens) /\ Len(<<>>) = 0
           /\ <<a>> \in Seq(Tokens) /\ Len(<<a>>) = 1
           /\ \A b \in Tokens : <<a, b>> \in Seq(Tokens) /\ Len(<<a, b>>) = 2
  OBVIOUS

LEMMA Regrouped ==
    ASSUME NEW a \in Seq(Tokens), NEW b \in Seq(Tokens), NEW c \in Seq(Tokens)
    PROVE  (a \o b) \o c = a \o (b \o c)
  BY ConcatAssociative

LEMMA TextItems ==
    ASSUME NEW e \in Tokens, NEW o
    PROVE  /\ Beginning(o) \in Seq(Tokens) /\ Len(Beginning(o)) \in 0..1
           /\ Quoting(e) \in Seq(Tokens) /\ Len(Quoting(e)) \in 1..2
  <1>1. EchoBegin \in Tokens /\ Backslash \in Tokens
    BY MarksAreTokens DEF Marks, Begins
  <1>2. Beginning(o) \in Seq(Tokens) /\ Len(Beginning(o)) \in 0..1
    BY <1>1, ItemsOf DEF Beginning
  <1>3. Quoting(e) \in Seq(Tokens) /\ Len(Quoting(e)) \in 1..2
    <2>1. AsShown(e) \in Tokens
      BY ShownIs
    <2>2. CASE e.ch \in Escapes
      <3>1. Quoting(e) = <<Backslash, AsShown(e)>>
        BY <2>2, QuotingIs
      <3>2. <<Backslash, AsShown(e)>> \in Seq(Tokens) /\ Len(<<Backslash, AsShown(e)>>) = 2
        BY <1>1, <2>1
      <3> QED
        BY <3>1, <3>2
    <2>3. CASE e.ch \notin Escapes
      <3>1. Quoting(e) = <<AsShown(e)>>
        BY <2>3, QuotingIs
      <3>2. <<AsShown(e)>> \in Seq(Tokens) /\ Len(<<AsShown(e)>>) = 1
        BY <2>1
      <3> QED
        BY <3>1, <3>2
    <2> QED
      BY <2>2, <2>3
  <1> QED
    BY <1>2, <1>3

LEMMA EscapedIs == Escaped = Quoting(byte)
  BY DEF Escaped, Quoting, AsShown

LEMMA BeginningIs ==
    /\ Beginning(NoEcho) = <<EchoBegin>> /\ Beginning(EchoBegin) = <<>>
    /\ EchoBegin \in Begins /\ NoEcho # EchoBegin /\ NoEcho # VarBegin /\ VarBegin # EchoBegin
  <1>1. EchoBegin \in Begins /\ VarBegin \in Begins /\ NoEcho # EchoBegin /\ NoEcho # VarBegin
    BY MarksDiffer DEF Marks, Begins
  <1> QED
    BY <1>1, MarksDiffer DEF Beginning

LEMMA TextStep ==
    ASSUME ReaderInv, Text
    PROVE  ReaderInv'
  <1> DEFINE states == {"CHAR1", "CHAR2"}
  <1>1. Reads(states) /\ states \subseteq Midway /\ st \in states
    BY DEF Text, Reads, Midway, States
  <1>2. PICK p \in 1..Len(page), g \in 0..Len(page) :
             /\ Behind(st, p) /\ held = <<>>
             /\ byte = page[p] /\ byte \in Tokens /\ \A c : Is(c) <=> Has(p, c)
             /\ Chunk(lua, EchoOf(st), Reached(st, p))
             /\ g # 0 => Skips(st, p, g)
             /\ g = 0 => Unread(Tail(unread), p + 1, 0)
             /\ g # 0 /\ p + 1 # g => Unread(Tail(unread), p + 1, g)
             /\ g # 0 /\ p + 1 = g => Unread(Tail(unread), g + 1, 0)
    BY <1>1, ReaderAt
  <1>3. /\ PageTyped /\ lua \in Seq(Tokens) /\ Chunk(lua, EchoOf(st), p)
    BY <1>1, <1>2 DEF ReaderInv, ReaderTyped, Reached, Marked, Chunk
  <1>4. Len(page) \in Nat
    BY <1>3, LenProperties DEF PageTyped
  <1>5. p + 1 \in 1..(Len(page) + 1) /\ p \in Int /\ p + 1 - 1 = p
    BY <1>4
  <1> HIDE DEF states
  <1>6. CASE Is("<")
    <2> DEFINE next == IF st = "CHAR1" THEN "CHAR4" ELSE "CHAR3"
    <2>1. Markup(next, <<>>) /\ next \in States \ {"UNDEFINED", "LF2"}
      BY <1>6 DEF Text, States
    <2>2. g = 0
      <3>1. Has(p, "<") /\ "<" # " "
        BY <1>2, <1>6
      <3>2. ASSUME g # 0 PROVE FALSE
        <4>1. Skips(st, p, g)
          BY <1>2, <3>2
        <4>4. p < g
          BY <4>1 DEF Skips
        <4>2. p \in p..(g - 1)
          BY <1>4, <4>4
        <4>3. Has(p, " ")
          BY <4>1, <4>2 DEF Skips
        <4> QED
          BY <3>1, <4>3 DEF Has
      <3> QED
        BY <3>2
    <2>3. Unread(Tail(unread), p + 1, 0)
      BY <1>2, <1>4, <2>2
    <2>4. Has(p + 1 - 1, "<")
      BY <1>2, <1>5, <1>6
    <2>5. Reached(next, p + 1) = p /\ EchoOf(next) = EchoOf(st)
      BY <1>1, <1>5 DEF Reached, Marked, EchoOf, states
    <2>6. Behind(next, p + 1)
      BY <2>4 DEF Behind
    <2>7. <<>> \in Seq(Tokens) /\ Len(<<>>) <= 4 /\ lua \o <<>> = lua
      BY <1>2, <1>3, ItemsOf, PutNothing
    <2>8. Chunk(lua \o <<>>, EchoOf(next), Reached(next, p + 1))
      BY <1>3, <1>5, <2>5, <2>7
    <2> HIDE DEF next
    <2> QED
      <3>1. <<>> \in Seq(Tokens) /\ Len(<<>>) <= 4
        BY <2>7
      <3> QED
        BY <1>1, <1>2, <2>1, <2>3, <2>6, <2>8, <3>1, PassesOn
  <1>7. CASE ~Is("<")
    <2> DEFINE o == EchoOf(st)
               text == Beginning(o) \o Quoting(byte)
    <2>1. o \in {NoEcho, EchoBegin}
      BY <1>1 DEF EchoOf, states
    <2>2. (IF st = "CHAR1" THEN <<EchoBegin>> ELSE <<>>) = Beginning(o)
      BY <1>1, BeginningIs DEF EchoOf, states
    <2>3. To("CHAR2", text, TRUE) /\ "CHAR2" \in States \ {"UNDEFINED", "LF2"}
      BY <1>7, <2>2, EscapedIs DEF Text, States
    <2>4. /\ Beginning(o) \in Seq(Tokens) /\ Len(Beginning(o)) \in 0..1
          /\ Quoting(byte) \in Seq(Tokens) /\ Len(Quoting(byte)) \in 1..2
      BY <1>2, TextItems
    <2> HIDE DEF o
    <2>5. text \in Seq(Tokens) /\ Len(text) <= 4
      <3>1. text \in Seq(Tokens) /\ Len(text) = Len(Beginning(o)) + Len(Quoting(byte))
        BY <2>4, ConcatProperties
      <3>2. Len(Beginning(o)) \in 0..1 /\ Len(Quoting(byte)) \in 1..2
        BY <2>4
      <3>3. Len(Beginning(o)) + Len(Quoting(byte)) <= 4
        BY <3>2, Small
      <3> QED
        BY <3>1, <3>3
    <2>6. Chunk(lua \o Beginning(o), EchoBegin, p)
      BY <1>3, <1>5, <2>1, PutBegin DEF o
    <2>7. Chunk((lua \o Beginning(o)) \o Quoting(byte), EchoBegin, p + 1)
      BY <1>2, <1>3, <2>6, PutText
    <2>8. (lua \o Beginning(o)) \o Quoting(byte) = lua \o (Beginning(o) \o Quoting(byte))
      BY <1>3, <2>4, Regrouped
    <2>9. Chunk(lua \o text, EchoBegin, p + 1)
      BY <2>7, <2>8
    <2> HIDE DEF text
    <2>10. EchoOf("CHAR2") = EchoBegin /\ (\A q : Reached("CHAR2", q) = q /\ Behind("CHAR2", q))
      BY DEF EchoOf, Reached, Marked, Behind
    <2>11. CASE g = 0 \/ p + 1 # g
      <3>1. Unread(Tail(unread), p + 1, g)
        BY <1>2, <2>11
      <3>2. ASSUME g # 0 PROVE Skips("CHAR2", p + 1, g)
        <4>1. Skips(st, p, g) /\ p + 1 # g
          BY <1>2, <2>11, <3>2
        <4>2. p < g
          BY <4>1 DEF Skips
        <4>3. p + 1 < g /\ (p + 1)..(g - 1) \subseteq p..(g - 1)
          BY <1>4, <4>1, <4>2
        <4> QED
          BY <4>1, <4>3 DEF Skips
      <3>3. Chunk(lua \o text, EchoOf("CHAR2"), Reached("CHAR2", p + 1))
        BY <2>9, <2>10
      <3> QED
        BY <1>1, <1>2, <1>5, <2>3, <2>5, <2>10, <3>1, <3>2, <3>3, Passes
    <2>12. CASE g # 0 /\ p + 1 = g
      <3>1. Unread(Tail(unread), g + 1, 0) /\ Skips(st, p, g)
        BY <1>2, <2>12
      <3>2. Dropped(g)
        BY <3>1 DEF Skips, Dropped
      <3>3. p + 1 \in Int /\ g + 1 \in Int /\ p + 1 <= g + 1 /\ \A n \in (p + 1)..(g + 1 - 1) : Dropped(n)
        BY <1>4, <2>12, <3>2
      <3>4. Chunk(lua \o text, EchoBegin, g + 1)
        BY <2>9, <3>3, DropBytes
      <3>5. Chunk(lua \o text, EchoOf("CHAR2"), Reached("CHAR2", g + 1))
        BY <2>10, <3>4
      <3>6. g + 1 \in 1..(Len(page) + 1) /\ 0 \in 0..Len(page)
        BY <1>4, <2>12
      <3> QED
        BY <1>1, <1>2, <2>3, <2>5, <2>10, <3>1, <3>5, <3>6, Passes
    <2> QED
      BY <2>11, <2>12
  <1> QED
    BY <1>6, <1>7

\* Byte n is left out, and the rest goes on behind it.
LEMMA DropOne ==
    ASSUME NEW s, NEW o, NEW f \in Int, Chunk(s, o, f), Dropped(f)
    PROVE  Chunk(s, o, f + 1)
  <1>1. f + 1 \in Int /\ f <= f + 1 /\ \A n \in f..(f + 1 - 1) : n = f
    OBVIOUS
  <1> QED
    BY <1>1, DropBytes

LEMMA TagOrTextStep ==
    ASSUME ReaderInv, TagOrText
    PROVE  ReaderInv'
  <1> DEFINE states == {"CHAR3", "CHAR4"}
  <1>1. /\ Reads(states) /\ states \subseteq Midway /\ states \subseteq Midway \ {"CHAR1", "CHAR2"}
        /\ st \in states
    BY DEF TagOrText, Reads, Midway, States
  <1>2. PICK p \in 1..Len(page) :
             /\ Behind(st, p) /\ held = <<>>
             /\ byte = page[p] /\ byte \in Tokens /\ \A c : Is(c) <=> Has(p, c)
             /\ Chunk(lua, EchoOf(st), Reached(st, p))
             /\ Unread(Tail(unread), p + 1, 0)
    BY <1>1, AtTag
  <1>3. /\ PageTyped /\ lua \in Seq(Tokens) /\ Chunk(lua, EchoOf(st), p - 1)
        /\ Has(p - 1, "<")
    BY <1>1, <1>2 DEF ReaderInv, ReaderTyped, Reached, Marked, Chunk, Behind
  <1>4. Len(page) \in Nat /\ p - 1 \in Int /\ p - 1 + 1 = p /\ p \in Int
    BY <1>3, LenProperties DEF PageTyped
  <1>5. p - 1 \in 1..Len(page) /\ Before("<") = page[p - 1] /\ page[p - 1] \in Tokens
    <2>1. p - 1 \in 1..Len(page) /\ Before("<") = page[p - 1]
      BY <1>2, <1>3, BeforeIs
    <2> QED
      BY <1>3, <2>1, ElementOfSeq DEF PageTyped
  <1> DEFINE o == EchoOf(st)
  <1>6. o \in {NoEcho, EchoBegin} /\ (st = "CHAR3" <=> o = EchoBegin)
    BY <1>1, BeginningIs DEF EchoOf, states
  <1> HIDE DEF states, o
  <1>7. CASE Is("?")
    <2>1. TagBegins(p - 1) /\ Dropped(p - 1) /\ Dropped(p)
      BY <1>2, <1>3, <1>4, <1>7 DEF TagBegins, Dropped
    <2>2. Chunk(lua, o, p)
      BY <1>3, <1>4, <2>1, DropOne DEF o
    <2>3. Chunk(lua, o, p + 1)
      BY <1>4, <2>1, <2>2, DropOne
    <2>4. Behind("STMT1", p + 1)
      <3>1. TagBegins(p + 1 - 2)
        <4>1. p + 1 - 2 = p - 1
          OBVIOUS
        <4> QED
          BY <2>1, <4>1
      <3> QED
        BY <3>1 DEF Behind
    <2>5. /\ "STMT1" \in States \ {"UNDEFINED", "LF2"}
          /\ EchoOf("STMT1") = NoEcho /\ Reached("STMT1", p + 1) = p + 1
      BY DEF States, EchoOf, Reached, Marked
    <2>6. CASE st = "CHAR3"
      <3>1. Markup("STMT1", <<EchoEnd>>)
        BY <1>7, <2>6 DEF TagOrText
      <3>2. EchoEnd \in Tokens /\ EchoEnd \in Marks \cup {Backslash, Blank} /\ o = EchoBegin
        BY <1>6, <2>6, MarksAreTokens DEF Marks
      <3>3. Fits(EchoEnd, o) /\ Then(EchoEnd, o) = NoEcho
        BY <3>2, MarksDiffer DEF Fits, Then, BeginOf, Begins, Marks
      <3>4. Chunk(Append(lua, EchoEnd), NoEcho, p + 1)
        <4>1. o \in Begins \cup {NoEcho} /\ p + 1 \in Int
          BY <1>4, <3>2, BeginningIs
        <4> QED
          BY <2>3, <3>2, <3>3, <4>1, PutMark
      <3>5. Chunk(lua \o <<EchoEnd>>, EchoOf("STMT1"), Reached("STMT1", p + 1))
        BY <1>3, <2>5, <3>2, <3>4, PutOne
      <3>6. <<EchoEnd>> \in Seq(Tokens) /\ Len(<<EchoEnd>>) <= 4
        BY <3>2, ItemsOf
      <3> QED
        BY <1>1, <1>2, <2>4, <2>5, <3>1, <3>5, <3>6, PassesOn
    <2>7. CASE st # "CHAR3"
      <3>1. Markup("STMT1", <<>>)
        BY <1>7, <2>7 DEF TagOrText
      <3>2. <<>> \in Seq(Tokens) /\ Len(<<>>) <= 4 /\ lua \o <<>> = lua
        BY <1>3, <1>5, ItemsOf, PutNothing
      <3>3. Chunk(lua \o <<>>, EchoOf("STMT1"), Reached("STMT1", p + 1))
        BY <1>6, <2>3, <2>5, <2>7, <3>2
      <3>4. <<>> \in Seq(Tokens) /\ Len(<<>>) <= 4
        BY <3>2
      <3> QED
        BY <1>1, <1>2, <2>4, <2>5, <3>1, <3>3, <3>4, PassesOn
    <2> QED
      BY <2>6, <2>7
  <1>8. CASE ~Is("?")
    <2> DEFINE b == Before("<")
               s == lua \o Beginning(o)
               text == (Beginning(o) \o <<b>>) \o Quoting(byte)
    <2>1. (IF st = "CHAR4" THEN <<EchoBegin>> ELSE <<>>) = Beginning(o)
      BY <1>1, <1>6, BeginningIs DEF states
    <2>2. To("CHAR2", text, TRUE)
      BY <1>8, <2>1, EscapedIs DEF TagOrText
    <2>3. /\ Beginning(o) \in Seq(Tokens) /\ Len(Beginning(o)) \in 0..1
          /\ Quoting(byte) \in Seq(Tokens) /\ Len(Quoting(byte)) \in 1..2
      BY <1>2, TextItems
    <2>4. b \in Tokens /\ <<b>> \in Seq(Tokens) /\ Len(<<b>>) = 1
      BY <1>5, ItemsOf
    <2>5. Chunk(s, EchoBegin, p - 1)
      BY <1>3, <1>4, <1>6, PutBegin DEF o
    <2>6. Chunk(Append(s, page[p - 1]), EchoBegin, p)
      <3>1. Quotes(s, page[p - 1], EchoBegin)
        <4>1. page[p - 1].ch = "<" /\ "<" \notin Escapes /\ Shown("<") = "<"
          BY <1>3 DEF Has, Escapes, Shown, Control
        <4>2. page[p - 1].n = p - 1
          BY <1>3, <1>5 DEF PageTyped
        <4> QED
          BY <4>1, <4>2 DEF Quotes
      <3>2. EchoBegin \in Begins \cup {NoEcho}
        BY BeginningIs
      <3>3. Chunk(Append(s, page[p - 1]), EchoBegin, p - 1 + 1)
        BY <1>3, <1>5, <2>5, <3>1, <3>2, PutByte, PageCopy
      <3> QED
        BY <1>4, <3>3
    <2>7. Chunk(Append(s, b) \o Quoting(byte), EchoBegin, p + 1)
      BY <1>2, <1>3, <1>5, <2>6, PutText
    <2>8. Append(s, b) \o Quoting(byte) = lua \o text
      <3>1. s \in Seq(Tokens) /\ Append(s, b) = s \o <<b>>
        BY <1>3, <2>3, <2>4, PutOne, ConcatProperties
      <3>2. s \o <<b>> = lua \o (Beginning(o) \o <<b>>) /\ Beginning(o) \o <<b>> \in Seq(Tokens)
        <4>1. lua \in Seq(Tokens) /\ Beginning(o) \in Seq(Tokens) /\ <<b>> \in Seq(Tokens)
          BY <1>3, <2>3, <2>4
        <4>2. (lua \o Beginning(o)) \o <<b>> = lua \o (Beginning(o) \o <<b>>)
          BY <4>1, Regrouped
        <4> QED
          BY <4>1, <4>2, ConcatProperties
      <3>3. (lua \o (Beginning(o) \o <<b>>)) \o Quoting(byte)
            = lua \o ((Beginning(o) \o <<b>>) \o Quoting(byte))
        BY <1>3, <2>3, <3>2, Regrouped
      <3> QED
        BY <3>1, <3>2, <3>3
    <2>9. text \in Seq(Tokens) /\ Len(text) <= 4
      <3>1. /\ Beginning(o) \o <<b>> \in Seq(Tokens)
            /\ Len(Beginning(o) \o <<b>>) = Len(Beginning(o)) + Len(<<b>>)
        BY <2>3, <2>4, ConcatProperties
      <3>2. text \in Seq(Tokens) /\ Len(text) = Len(Beginning(o) \o <<b>>) + Len(Quoting(byte))
        BY <2>3, <3>1, ConcatProperties
      <3>3. Len(Beginning(o)) + 1 + Len(Quoting(byte)) <= 4
        BY <2>3, Small
      <3> QED
        BY <2>4, <3>1, <3>2, <3>3
    <2> HIDE DEF text
    <2>10. /\ "CHAR2" \in States \ {"UNDEFINED", "LF2"} /\ Behind("CHAR2", p + 1)
           /\ EchoOf("CHAR2") = EchoBegin /\ Reached("CHAR2", p + 1) = p + 1
      BY DEF States, EchoOf, Reached, Marked, Behind
    <2>11. Chunk(lua \o text, EchoOf("CHAR2"), Reached("CHAR2", p + 1))
      BY <2>7, <2>8, <2>10
    <2> QED
      BY <1>1, <1>2, <2>2, <2>9, <2>10, <2>11, PassesOn
  <1> QED
    BY <1>7, <1>8

-----------------------------------------------------------------------------
(***************************************************************************)
(* In a tag.                                                               *)
(***************************************************************************)
\* The tag goes on behind byte p, unless it ends there.
LEMMA TagGoesOn ==
    ASSUME NEW p \in Int, NEW i \in Int, TagOpen(i, p),
           NoMark(i, p) \/ ~Has(p, ">")
    PROVE  TagOpen(i, p + 1)
  <1>1. ASSUME NEW j \in (i + 3)..(p + 1 - 2) PROVE ~TagEnds(j)
    <2>1. CASE j \in (i + 3)..(p - 2)
      BY <2>1 DEF TagOpen
    <2>2. CASE j = p - 1
      <3>1. i + 3 < p /\ j + 1 = p /\ j = p - 1
        BY <2>2
      <3> QED
        BY <3>1 DEF NoMark, TagEnds
    <2> QED
      BY <2>1, <2>2
  <1> QED
    BY <1>1 DEF TagOpen

\* A byte of the page, and none of a tag before the first.
LEMMA HasIs ==
    ASSUME PageTyped, NEW n \in Int, NEW c, Has(n, c)
    PROVE  n \in 1..Len(page) /\ \A d : Has(n, d) => d = c
  <1>1. DOMAIN page = 1..Len(page)
    BY LenProperties DEF PageTyped
  <1> QED
    BY <1>1 DEF Has

\* The byte goes to the code of a tag, or of an echo of its value.
LEMMA PutCode ==
    ASSUME PageTyped, NEW s, NEW o \in {NoEcho, VarBegin}, NEW f \in 1..Len(page), Chunk(s, o, f),
           InTag(f)
    PROVE  Chunk(Append(s, page[f]), o, f + 1)
  <1>1. o \in Begins \cup {NoEcho} /\ o # EchoBegin
    BY BeginningIs DEF Begins
  <1>2. page[f].n = f
    BY DEF PageTyped
  <1>3. Quotes(s, page[f], o)
    BY <1>1, <1>2 DEF Quotes
  <1> QED
    BY <1>1, <1>3, PutByte, PageCopy

LEMMA TagStartStep ==
    ASSUME ReaderInv, TagStart
    PROVE  ReaderInv'
  <1> DEFINE states == {"STMT1"}
  <1>1. /\ Reads(states) /\ states \subseteq Midway /\ states \subseteq Midway \ {"CHAR1", "CHAR2"}
        /\ st = "STMT1"
    BY DEF TagStart, Reads, Midway, States
  <1> HIDE DEF states
  <1>2. PICK p \in 1..Len(page) :
             /\ Behind(st, p) /\ held = <<>>
             /\ byte = page[p] /\ byte \in Tokens /\ \A c : Is(c) <=> Has(p, c)
             /\ Chunk(lua, EchoOf(st), Reached(st, p))
             /\ Unread(Tail(unread), p + 1, 0)
    BY <1>1, AtTag
  <1>3. /\ PageTyped /\ lua \in Seq(Tokens) /\ Chunk(lua, NoEcho, p) /\ TagBegins(p - 2)
    BY <1>1, <1>2 DEF ReaderInv, ReaderTyped, Reached, Marked, EchoOf, Chunk, Behind
  <1>4. p \in Int /\ p - 2 \in Int /\ p + 1 - 3 = p - 2 /\ p - 2 + 3 = p + 1 /\ p - 2 + 2 = p
    OBVIOUS
  <1>5. p - 2 \in 1..(p - 2)
    <2>1. Has(p - 2, "<")
      BY <1>3 DEF TagBegins
    <2>2. p - 2 \in 1..Len(page)
      BY <1>3, <1>4, <2>1, HasIs
    <2> QED
      BY <2>2
  <1>6. /\ TagOpen(p - 2, p + 1) /\ NoMark(p - 2, p + 1) /\ InTag(p)
    <2>1. /\ \A j \in (p - 2 + 3)..(p + 1 - 2) : FALSE
          /\ \A j \in (p - 2 + 3)..(p - 2) : FALSE
          /\ ~(p - 2 + 3 < p + 1)
      OBVIOUS
    <2> QED
      BY <1>3, <1>5, <2>1 DEF TagOpen, NoMark, InTag
  <1>7. CASE Is("=")
    <2>1. Dropped(p)
      BY <1>2, <1>3, <1>7 DEF Dropped
    <2>2. Chunk(lua, NoEcho, p + 1)
      BY <1>3, <1>4, <2>1, DropOne
    <2>3. Fits(VarBegin, NoEcho) /\ Then(VarBegin, NoEcho) = VarBegin /\ VarBegin \in Tokens
      BY MarksAreTokens DEF Fits, Then, Begins, Marks
    <2>4. Chunk(Append(lua, VarBegin), VarBegin, p + 1)
      <3>1. VarBegin \in Marks \cup {Backslash, Blank} /\ NoEcho \in Begins \cup {NoEcho} /\ p + 1 \in Int
        BY <1>4 DEF Marks, Begins
      <3> QED
        BY <2>2, <2>3, <3>1, PutMark
    <2>5. /\ "STMT2" \in States \ {"UNDEFINED", "LF2"}
          /\ EchoOf("STMT2") = VarBegin /\ Reached("STMT2", p + 1) = p + 1
      BY DEF States, EchoOf, Reached, Marked
    <2>6. Behind("STMT2", p + 1)
      <3>1. CodeAt(p + 1)
        BY <1>4, <1>5, <1>6 DEF CodeAt
      <3> QED
        BY <3>1 DEF Behind
    <2>7. Markup("STMT2", <<VarBegin>>)
      BY <1>7 DEF TagStart
    <2>8. <<VarBegin>> \in Seq(Tokens) /\ Len(<<VarBegin>>) <= 4
      BY <2>3, ItemsOf
    <2>9. Chunk(lua \o <<VarBegin>>, EchoOf("STMT2"), Reached("STMT2", p + 1))
      BY <1>3, <2>3, <2>4, <2>5, PutOne
    <2> QED
      BY <1>1, <1>2, <2>5, <2>6, <2>7, <2>8, <2>9, PassesOn
  <1>8. CASE ~Is("=") /\ Is("#")
    <2>1. Dropped(p)
      BY <1>2, <1>3, <1>8 DEF Dropped
    <2>2. Chunk(lua, NoEcho, p + 1)
      BY <1>3, <1>4, <2>1, DropOne
    <2>3. /\ "COMMENT1" \in States \ {"UNDEFINED", "LF2"}
          /\ EchoOf("COMMENT1") = NoEcho /\ Reached("COMMENT1", p + 1) = p + 1
      BY DEF States, EchoOf, Reached, Marked
    <2>4. Behind("COMMENT1", p + 1)
      <3>1. Has(p - 2 + 2, "#")
        BY <1>2, <1>4, <1>8
      <3>2. CommentAt(p + 1)
        BY <1>4, <1>5, <1>6, <3>1 DEF CommentAt
      <3> QED
        BY <3>2 DEF Behind
    <2>5. Markup("COMMENT1", <<>>)
      BY <1>8 DEF TagStart
    <2>6. <<>> \in Seq(Tokens) /\ Len(<<>>) <= 4 /\ lua \o <<>> = lua
      BY <1>2, <1>3, ItemsOf, PutNothing
    <2>7. Chunk(lua \o <<>>, EchoOf("COMMENT1"), Reached("COMMENT1", p + 1))
      BY <2>2, <2>3, <2>6
    <2>8. <<>> \in Seq(Tokens) /\ Len(<<>>) <= 4
      BY <2>6
    <2> QED
      BY <1>1, <1>2, <2>3, <2>4, <2>5, <2>7, <2>8, PassesOn
  <1>9. CASE ~Is("=") /\ ~Is("#")
    <2>1. NoEcho \in {NoEcho, VarBegin}
      OBVIOUS
    <2>2. Chunk(Append(lua, byte), NoEcho, p + 1)
      BY <1>2, <1>3, <1>6, <2>1, PutCode
    <2>3. /\ "STMT12" \in States \ {"UNDEFINED", "LF2"}
          /\ EchoOf("STMT12") = NoEcho /\ Reached("STMT12", p + 1) = p + 1
      BY DEF States, EchoOf, Reached, Marked
    <2>4. Behind("STMT12", p + 1)
      <3>1. CodeAt(p + 1)
        BY <1>4, <1>5, <1>6 DEF CodeAt
      <3> QED
        BY <3>1 DEF Behind
    <2>5. Markup("STMT12", <<byte>>)
      BY <1>9 DEF TagStart
    <2>6. <<byte>> \in Seq(Tokens) /\ Len(<<byte>>) <= 4
      BY <1>2, ItemsOf
    <2>7. Chunk(lua \o <<byte>>, EchoOf("STMT12"), Reached("STMT12", p + 1))
      BY <1>2, <1>3, <2>2, <2>3, PutOne
    <2> QED
      BY <1>1, <1>2, <2>3, <2>4, <2>5, <2>6, <2>7, PassesOn
  <1> QED
    BY <1>7, <1>8, <1>9

LEMMA CodeStep ==
    ASSUME ReaderInv, Code
    PROVE  ReaderInv'
  <1> DEFINE states == {"STMT2", "STMT12"}
             o == EchoOf(st)
  <1>1. /\ Reads(states) /\ states \subseteq Midway /\ states \subseteq Midway \ {"CHAR1", "CHAR2"}
        /\ st \in {"STMT2", "STMT12"}
    BY DEF Code, Reads, Midway, States
  <1>2. PICK p \in 1..Len(page) :
             /\ Behind(st, p) /\ held = <<>>
             /\ byte = page[p] /\ byte \in Tokens /\ \A c : Is(c) <=> Has(p, c)
             /\ Chunk(lua, EchoOf(st), Reached(st, p))
             /\ Unread(Tail(unread), p + 1, 0)
    BY <1>1, AtTag
  <1>3. /\ PageTyped /\ lua \in Seq(Tokens) /\ Chunk(lua, o, p) /\ CodeAt(p)
    BY <1>1, <1>2 DEF ReaderInv, ReaderTyped, Reached, Marked, Chunk, Behind
  <1>4. o \in {NoEcho, VarBegin} /\ (st = "STMT2" => o = VarBegin) /\ (st = "STMT12" => o = NoEcho)
    BY <1>1 DEF EchoOf
  <1> HIDE DEF states, o
  <1>5. PICK i \in 1..(p - 3) : TagOpen(i, p) /\ NoMark(i, p)
    BY <1>3 DEF CodeAt
  <1>6. p \in Int /\ i \in Int /\ p + 1 - 4 = p - 3 /\ p + 1 - 1 = p /\ i \in 1..(p + 1 - 3) /\ i \in 1..(p - 2)
    OBVIOUS
  <1>7. TagOpen(i, p + 1)
    BY <1>5, <1>6, TagGoesOn
  <1>8. CASE Is("?")
    <2> DEFINE next == IF st = "STMT2" THEN "STMT3" ELSE "STMT13"
    <2>1. /\ next \in States \ {"UNDEFINED", "LF2"} /\ EchoOf(next) = o
          /\ Reached(next, p + 1) = p
      BY <1>1, <1>4, <1>6 DEF States, EchoOf, Reached, Marked
    <2>2. Behind(next, p + 1)
      <3>1. Has(p + 1 - 1, "?")
        BY <1>2, <1>6, <1>8
      <3>2. CodeMarkAt(p + 1)
        BY <1>6, <1>7, <3>1 DEF CodeMarkAt
      <3> QED
        BY <3>2 DEF Behind
    <2>3. Markup(next, <<>>)
      BY <1>8 DEF Code
    <2>4. <<>> \in Seq(Tokens) /\ Len(<<>>) <= 4 /\ lua \o <<>> = lua
      BY <1>2, <1>3, ItemsOf, PutNothing
    <2> HIDE DEF next
    <2>5. Chunk(lua \o <<>>, EchoOf(next), Reached(next, p + 1))
      BY <1>3, <2>1, <2>4
    <2>6. <<>> \in Seq(Tokens) /\ Len(<<>>) <= 4
      BY <2>4
    <2> QED
      BY <1>1, <1>2, <2>1, <2>2, <2>3, <2>5, <2>6, PassesOn DEF states
  <1>9. CASE ~Is("?")
    <2>1. InTag(p)
      BY <1>5, <1>6 DEF InTag, TagOpen
    <2>2. Chunk(Append(lua, byte), o, p + 1)
      BY <1>2, <1>3, <1>4, <2>1, PutCode
    <2>3. st \in States \ {"UNDEFINED", "LF2"} /\ Reached(st, p + 1) = p + 1
      BY <1>1 DEF States, Reached, Marked
    <2>4. Behind(st, p + 1)
      <3>1. NoMark(i, p + 1)
        BY <1>2, <1>6, <1>9 DEF NoMark
      <3>2. CodeAt(p + 1)
        BY <1>6, <1>7, <3>1 DEF CodeAt
      <3> QED
        BY <1>1, <3>2 DEF Behind
    <2>5. Markup(st, <<byte>>)
      BY <1>9 DEF Code
    <2>6. <<byte>> \in Seq(Tokens) /\ Len(<<byte>>) <= 4
      BY <1>2, ItemsOf
    <2>7. Chunk(lua \o <<byte>>, EchoOf(st), Reached(st, p + 1))
      BY <1>2, <1>3, <2>2, <2>3, PutOne DEF o
    <2> QED
      BY <1>1, <1>2, <2>3, <2>4, <2>5, <2>6, <2>7, PassesOn DEF states
  <1> QED
    BY <1>8, <1>9

\* Byte p ends a tag: behind it a line may end.
LEMMA BehindEnd ==
    ASSUME PageTyped, NEW p \in 1..Len(page), Has(p - 1, "?"), Has(p, ">")
    PROVE  BehindTag(p + 1) /\ Dropped(p - 1) /\ Dropped(p)
  <1>1. Len(page) \in Nat /\ p \in Int
    BY LenProperties DEF PageTyped
  <1>2. p - 1 \in 1..Len(page) /\ p - 1 \in 1..(p + 1 - 2) /\ p - 1 + 1 = p
    <2>1. p - 1 \in 1..Len(page)
      BY <1>1, HasIs
    <2> QED
      BY <1>1, <2>1
  <1>3. TagEnds(p - 1) /\ Has(p - 1 + 1, ">")
    BY <1>2 DEF TagEnds
  <1>4. BehindTag(p + 1)
    <2> DEFINE j == p - 1
               n == p + 1
    <2>1. j \in 1..(n - 2) /\ TagEnds(j)
      BY <1>2, <1>3
    <2>2. \A k \in (j + 2)..(n - 1) : FALSE
      BY <1>1
    <2> HIDE DEF j, n
    <2>3. BehindTag(n)
      BY <2>1, <2>2 DEF BehindTag
    <2> QED
      BY <2>3 DEF n
  <1> QED
    BY <1>3, <1>4 DEF Dropped

LEMMA CodeEndStep ==
    ASSUME ReaderInv, CodeEnd
    PROVE  ReaderInv'
  <1> DEFINE states == {"STMT3", "STMT13"}
             o == EchoOf(st)
  <1>1. /\ Reads(states) /\ states \subseteq Midway /\ states \subseteq Midway \ {"CHAR1", "CHAR2"}
        /\ st \in {"STMT3", "STMT13"}
    BY DEF CodeEnd, Reads, Midway, States
  <1>2. PICK p \in 1..Len(page) :
             /\ Behind(st, p) /\ held = <<>>
             /\ byte = page[p] /\ byte \in Tokens /\ \A c : Is(c) <=> Has(p, c)
             /\ Chunk(lua, EchoOf(st), Reached(st, p))
             /\ Unread(Tail(unread), p + 1, 0)
    BY <1>1, AtTag
  <1>3. /\ PageTyped /\ lua \in Seq(Tokens) /\ Chunk(lua, o, p - 1) /\ CodeMarkAt(p)
    BY <1>1, <1>2 DEF ReaderInv, ReaderTyped, Reached, Marked, Chunk, Behind
  <1>4. o \in {NoEcho, VarBegin} /\ (st = "STMT3" => o = VarBegin) /\ (st = "STMT13" => o = NoEcho)
    BY <1>1 DEF EchoOf
  <1> HIDE DEF states, o
  <1>5. PICK i \in 1..(p - 4) : TagOpen(i, p)
    BY <1>3 DEF CodeMarkAt
  <1>6. /\ p \in Int /\ i \in Int /\ p - 1 \in Int /\ p - 1 + 1 = p /\ p + 1 - 1 = p
        /\ i \in 1..(p + 1 - 4) /\ i \in 1..(p + 1 - 3) /\ i \in 1..(p - 2) /\ i \in 1..(p - 1 - 2)
        /\ (i + 3)..(p - 1 - 2) \subseteq (i + 3)..(p - 2)
    OBVIOUS
  <1>7. /\ Has(p - 1, "?") /\ p - 1 \in 1..Len(page) /\ Before("?") = page[p - 1]
        /\ page[p - 1] \in Tokens
    <2>1. Has(p - 1, "?")
      BY <1>3 DEF CodeMarkAt
    <2>2. p - 1 \in 1..Len(page) /\ Before("?") = page[p - 1]
      BY <1>2, <1>3, <2>1, BeforeIs
    <2> QED
      BY <1>3, <2>1, <2>2, ElementOfSeq DEF PageTyped
  <1>8. InTag(p) /\ InTag(p - 1)
    BY <1>5, <1>6 DEF InTag, TagOpen
  <1>9. CASE Is(">")
    <2>1. BehindTag(p + 1) /\ Dropped(p - 1) /\ Dropped(p)
      BY <1>2, <1>3, <1>7, <1>9, BehindEnd
    <2>2. Chunk(lua, o, p)
      BY <1>3, <1>6, <2>1, DropOne
    <2>3. Chunk(lua, o, p + 1) /\ p + 1 \in Int
      BY <1>6, <2>1, <2>2, DropOne
    <2> DEFINE m == IF st = "STMT3" THEN VarEnd ELSE Blank
    <2>4. m \in Tokens /\ m \in Marks \cup {Backslash, Blank}
      BY MarksAreTokens DEF Marks
    <2>5. Fits(m, o) /\ Then(m, o) = NoEcho
      <3>1. CASE st = "STMT3"
        <4>1. VarEnd \in Marks /\ VarEnd \notin Begins /\ BeginOf(VarEnd) = VarBegin
          BY MarksDiffer DEF Marks, Begins, BeginOf
        <4> QED
          BY <1>4, <3>1, <4>1 DEF Fits, Then
      <3>2. CASE st # "STMT3"
        <4>1. Blank \notin Marks /\ Blank \notin Begins
          BY MarksDiffer DEF Marks
        <4> QED
          BY <1>1, <1>4, <3>2, <4>1 DEF Fits, Then
      <3> QED
        BY <3>1, <3>2
    <2>6. Markup("LF1", <<m>>)
      BY <1>9 DEF CodeEnd
    <2> HIDE DEF m
    <2>7. Chunk(Append(lua, m), NoEcho, p + 1)
      <3>1. o \in Begins \cup {NoEcho}
        BY <1>4 DEF Begins
      <3> QED
        BY <2>3, <2>4, <2>5, <3>1, PutMark
    <2>8. /\ "LF1" \in States \ {"UNDEFINED", "LF2"} /\ Behind("LF1", p + 1)
          /\ EchoOf("LF1") = NoEcho /\ Reached("LF1", p + 1) = p + 1
      BY <2>1 DEF States, EchoOf, Reached, Marked, Behind
    <2>9. <<m>> \in Seq(Tokens) /\ Len(<<m>>) <= 4
      BY <2>4, ItemsOf
    <2>10. Chunk(lua \o <<m>>, EchoOf("LF1"), Reached("LF1", p + 1))
      BY <1>3, <2>4, <2>7, <2>8, PutOne
    <2> QED
      BY <1>1, <1>2, <2>6, <2>8, <2>9, <2>10, PassesOn
  <1>10. Chunk(Append(lua, page[p - 1]), o, p)
    <2>1. Chunk(Append(lua, page[p - 1]), o, p - 1 + 1)
      BY <1>3, <1>4, <1>7, <1>8, PutCode
    <2> QED
      BY <1>6, <2>1
  <1>11. CASE ~Is(">") /\ Is("?")
    <2>1. TagOpen(i, p + 1)
      BY <1>2, <1>5, <1>6, <1>11, TagGoesOn
    <2>2. CodeMarkAt(p + 1)
      <3>1. Has(p + 1 - 1, "?")
        BY <1>2, <1>6, <1>11
      <3> QED
        BY <1>6, <2>1, <3>1 DEF CodeMarkAt
    <2>3. st \in States \ {"UNDEFINED", "LF2"} /\ Reached(st, p + 1) = p /\ Behind(st, p + 1)
      BY <1>1, <1>6, <2>2 DEF States, Reached, Marked, Behind
    <2>4. Markup(st, <<Before("?")>>)
      BY <1>11 DEF CodeEnd
    <2>5. <<Before("?")>> \in Seq(Tokens) /\ Len(<<Before("?")>>) <= 4
      BY <1>7, ItemsOf
    <2>6. Chunk(lua \o <<Before("?")>>, EchoOf(st), Reached(st, p + 1))
      BY <1>3, <1>7, <1>10, <2>3, PutOne DEF o
    <2> QED
      BY <1>1, <1>2, <2>3, <2>4, <2>5, <2>6, PassesOn DEF states
  <1>12. CASE ~Is(">") /\ ~Is("?")
    <2> DEFINE next == IF st = "STMT3" THEN "STMT2" ELSE "STMT12"
               text == <<Before("?"), byte>>
    <2>1. TagOpen(i, p + 1) /\ NoMark(i, p + 1)
      <3>1. TagOpen(i, p + 1)
        BY <1>2, <1>5, <1>6, <1>12, TagGoesOn
      <3> QED
        BY <1>2, <1>6, <1>12, <3>1 DEF NoMark
    <2>2. CodeAt(p + 1)
      BY <1>6, <2>1 DEF CodeAt
    <2>3. next \in States \ {"UNDEFINED", "LF2"} /\ Reached(next, p + 1) = p + 1 /\ Behind(next, p + 1)
      BY <2>2 DEF States, Reached, Marked, Behind
    <2>4. EchoOf(next) = o
      BY <1>1, <1>4 DEF EchoOf
    <2>5. Markup(next, text)
      BY <1>12 DEF CodeEnd
    <2>6. text \in Seq(Tokens) /\ Len(text) <= 4
      BY <1>2, <1>7, ItemsOf
    <2>7. Chunk(Append(Append(lua, page[p - 1]), byte), o, p + 1)
      BY <1>2, <1>3, <1>4, <1>8, <1>10, PutCode
    <2>8. lua \o text = Append(Append(lua, page[p - 1]), byte)
      BY <1>2, <1>3, <1>7, PutTwo
    <2> HIDE DEF next, text
    <2>9. Chunk(lua \o text, EchoOf(next), Reached(next, p + 1))
      BY <2>3, <2>4, <2>7, <2>8
    <2> QED
      BY <1>1, <1>2, <2>3, <2>5, <2>6, <2>9, PassesOn
  <1> QED
    BY <1>9, <1>11, <1>12

LEMMA CommentStep ==
    ASSUME ReaderInv, Comment
    PROVE  ReaderInv'
  <1> DEFINE states == {"COMMENT1", "COMMENT2"}
             next == IF st = "COMMENT1" THEN IF Is("?") THEN "COMMENT2" ELSE "COMMENT1"
                     ELSE IF Is(">") THEN "LF1" ELSE IF Is("?") THEN "COMMENT2" ELSE "COMMENT1"
  <1>1. /\ Reads(states) /\ states \subseteq Midway /\ states \subseteq Midway \ {"CHAR1", "CHAR2"}
        /\ st \in {"COMMENT1", "COMMENT2"} /\ Markup(next, <<>>)
    BY DEF Comment, Reads, Midway, States
  <1>2. PICK p \in 1..Len(page) :
             /\ Behind(st, p) /\ held = <<>>
             /\ byte = page[p] /\ byte \in Tokens /\ \A c : Is(c) <=> Has(p, c)
             /\ Chunk(lua, EchoOf(st), Reached(st, p))
             /\ Unread(Tail(unread), p + 1, 0)
    BY <1>1, AtTag
  <1>3. /\ PageTyped /\ lua \in Seq(Tokens) /\ Chunk(lua, NoEcho, p)
        /\ st = "COMMENT1" => CommentAt(p)
        /\ st = "COMMENT2" => CommentMarkAt(p)
    BY <1>1, <1>2 DEF ReaderInv, ReaderTyped, Reached, Marked, EchoOf, Chunk, Behind
  <1> HIDE DEF states
  <1>4. PICK i \in 1..(p - 3) :
           /\ TagOpen(i, p) /\ Has(i + 2, "#")
           /\ st = "COMMENT1" => NoMark(i, p)
    <2>1. CASE st = "COMMENT1"
      BY <1>3, <2>1 DEF CommentAt
    <2>2. CASE st = "COMMENT2"
      <3>1. PICK i \in 1..(p - 4) : TagOpen(i, p) /\ Has(i + 2, "#")
        BY <1>3, <2>2 DEF CommentMarkAt
      <3>2. i \in 1..(p - 3)
        OBVIOUS
      <3> QED
        BY <2>2, <3>1, <3>2
    <2> QED
      BY <1>1, <2>1, <2>2
  <1>5. /\ p \in Int /\ i \in Int /\ p + 1 - 1 = p
        /\ i \in 1..(p + 1 - 4) /\ i \in 1..(p + 1 - 3)
    OBVIOUS
  <1>6. Chunk(lua, NoEcho, p + 1)
    <2>1. Dropped(p)
      BY <1>4 DEF Dropped, InComment, TagOpen
    <2> QED
      BY <1>3, <1>5, <2>1, DropOne
  <1>7. next \in {"COMMENT1", "COMMENT2", "LF1"}
    OBVIOUS
  <1>8. Behind(next, p + 1)
    <2>1. CASE st = "COMMENT2" /\ Is(">")
      <3>1. Has(p - 1, "?")
        BY <1>3, <2>1 DEF CommentMarkAt
      <3>2. BehindTag(p + 1)
        BY <1>2, <1>3, <2>1, <3>1, BehindEnd
      <3> QED
        BY <2>1, <3>2 DEF Behind
    <2>2. CASE ~(st = "COMMENT2" /\ Is(">"))
      <3>1. TagOpen(i, p + 1)
        <4>1. NoMark(i, p) \/ ~Has(p, ">")
          BY <1>1, <1>2, <1>4, <2>2
        <4> QED
          BY <1>4, <1>5, <4>1, TagGoesOn
      <3>2. CASE Is("?")
        <4>1. Has(p + 1 - 1, "?")
          BY <1>2, <1>5, <3>2
        <4>2. CommentMarkAt(p + 1)
          BY <1>4, <1>5, <3>1, <4>1 DEF CommentMarkAt
        <4>3. next = "COMMENT2"
          BY <1>1, <2>2, <3>2
        <4> QED
          BY <4>2, <4>3 DEF Behind
      <3>3. CASE ~Is("?")
        <4>1. NoMark(i, p + 1)
          BY <1>2, <1>5, <3>3 DEF NoMark
        <4>2. CommentAt(p + 1)
          BY <1>4, <1>5, <3>1, <4>1 DEF CommentAt
        <4>3. next = "COMMENT1"
          BY <1>1, <2>2, <3>3
        <4> QED
          BY <4>2, <4>3 DEF Behind
      <3> QED
        BY <3>2, <3>3
    <2> QED
      BY <2>1, <2>2
  <1> HIDE DEF next
  <1>9. /\ next \in States \ {"UNDEFINED", "LF2"}
        /\ EchoOf(next) = NoEcho /\ Reached(next, p + 1) = p + 1
    BY <1>7 DEF States, EchoOf, Reached, Marked
  <1>10. <<>> \in Seq(Tokens) /\ Len(<<>>) <= 4 /\ lua \o <<>> = lua
    BY <1>2, <1>3, ItemsOf, PutNothing
  <1>11. Chunk(lua \o <<>>, EchoOf(next), Reached(next, p + 1))
    BY <1>6, <1>9, <1>10
  <1>12. <<>> \in Seq(Tokens) /\ Len(<<>>) <= 4
    BY <1>10
  <1> QED
    BY <1>1, <1>2, <1>8, <1>9, <1>11, <1>12, PassesOn

-----------------------------------------------------------------------------
(***************************************************************************)
(* Behind a tag: white space up to the end of the line is left out, and    *)
(* anything else is read again.                                            *)
(***************************************************************************)
LEMMA NothingHeld ==
    ASSUME NEW h, h = <<>>
    PROVE  h \in Seq(Tokens) /\ \A k \in 1..Len(h) : h[k].ch = " "
  <1>1. <<>> \in Seq(Tokens) /\ Len(<<>>) = 0
    OBVIOUS
  <1>2. \A k \in 1..0 : FALSE
    OBVIOUS
  <1> QED
    BY <1>1, <1>2

LEMMA HeldDropped ==
    ASSUME PageTyped, NEW h, Len(h) \in Nat, NEW e \in Int, NEW a \in Int, a = e - Len(h),
           Holds(h, a), BehindTag(e),
           e = Len(page) + 1 \/ Has(e, "\n") \/ Has(e, "\r")
    PROVE  \A n \in a..(e - 1) : Has(n, " ") /\ Dropped(n)
  <1>1. \A n \in a..(e - 1) : Has(n, " ")
    <2>1. ASSUME NEW n \in a..(e - 1) PROVE Has(n, " ")
      <3> DEFINE i == n - a + 1
      <3>1. i \in 1..Len(h) /\ a + i - 1 = n
        OBVIOUS
      <3> HIDE DEF i
      <3>2. Has(a + i - 1, " ")
        BY <3>1 DEF Holds
      <3> QED
        BY <3>1, <3>2
    <2> QED
      BY <2>1
  <1>2. PICK j \in 1..(e - 2) : TagEnds(j) /\ \A k \in (j + 2)..(e - 1) : Has(k, " ")
    BY DEF BehindTag
  <1>3. j + 1 < a
    <2>1. ~Has(j + 1, " ")
      BY <1>2 DEF TagEnds, Has
    <2>2. j + 1 \notin a..(e - 1)
      BY <1>1, <2>1
    <2> QED
      BY <2>2
  <1>4. ASSUME NEW n \in a..(e - 1) PROVE Dropped(n)
    <2>1. j \in 1..(n - 2) /\ \A k \in (j + 2)..(n - 1) : k \in (j + 2)..(e - 1)
      BY <1>3
    <2>2. BehindTag(n)
      BY <1>2, <2>1 DEF BehindTag
    <2>3. ASSUME NEW k \in n..Len(page)
          PROVE  Has(k, " ") \/ \E m \in n..k : Has(m, "\n") \/ Has(m, "\r")
      <3>1. Len(page) \in Nat
        BY LenProperties DEF PageTyped
      <3>2. CASE k < e
        <4>1. k \in a..(e - 1)
          BY <3>1, <3>2
        <4> QED
          BY <1>1, <4>1
      <3>3. CASE k >= e
        <4>1. e \in n..k /\ e # Len(page) + 1
          BY <3>1, <3>3
        <4> QED
          BY <4>1
      <3>4. k < e \/ k >= e
        BY <3>1
      <3> QED
        BY <3>2, <3>3, <3>4
    <2>4. LineEndsBehind(n)
      BY <2>3 DEF LineEndsBehind
    <2> QED
      BY <1>1, <2>2, <2>4 DEF Dropped
  <1> QED
    BY <1>1, <1>4

LEMMA AtLine ==
    ASSUME ReaderInv, Reads({"LF1", "LF2"})
    PROVE  \E p \in 1..Len(page) :
             /\ Behind(st, p) /\ Holds(held, StartOf(st, p, held))
             /\ byte = page[p] /\ byte \in Tokens /\ \A c : Is(c) <=> Has(p, c)
             /\ Chunk(lua, NoEcho, StartOf(st, p, held))
             /\ Unread(unread, p, 0) /\ Unread(Tail(unread), p + 1, 0)
  <1>1. PICK p \in 1..(Len(page) + 1), g \in 0..Len(page) :
          Reading(st, unread, held, lua, buf_offset, p, g)
    BY DEF ReaderInv
  <1>2. st \in {"LF1", "LF2"} /\ unread # <<>> /\ PageTyped /\ unread \in Seq(Tokens)
    BY DEF Reads, ReaderInv, ReaderTyped
  <1>3. Unread(unread, p, g) /\ g = 0 /\ Behind(st, p) /\ HeldAt(st, p, held, buf_offset)
    BY <1>1, <1>2 DEF Reading, Skips
  <1>4. /\ p \in 1..Len(page) /\ byte = page[p] /\ byte \in Tokens
        /\ g = 0 => Unread(Tail(unread), p + 1, 0)
    BY <1>2, <1>3, NextIs
  <1>5. Holds(held, StartOf(st, p, held))
    BY <1>2, <1>3 DEF HeldAt, LineEnds
  <1>6. Chunk(lua, NoEcho, StartOf(st, p, held))
    <2>1. PICK o \in Begins \cup {NoEcho} : Chunk(lua, o, StartOf(st, p, held)) /\ Opened(st, o)
      BY <1>1 DEF Reading
    <2>2. o = NoEcho
      BY <1>2, <2>1 DEF Opened, EchoOf
    <2> QED
      BY <2>1, <2>2
  <1>7. \A c : Is(c) <=> Has(p, c)
    <2>1. DOMAIN page = 1..Len(page)
      BY <1>2, LenProperties DEF PageTyped
    <2> QED
      BY <1>4, <2>1 DEF Is, Has
  <1>8. Unread(unread, p, 0) /\ Unread(Tail(unread), p + 1, 0)
    BY <1>3, <1>4
  <1> QED
    BY <1>3, <1>4, <1>5, <1>6, <1>7, <1>8

\* Text is read from byte q on.
LEMMA LineStarts ==
    ASSUME page' = page, ReaderTyped', st' = "CHAR1", held' = <<>>,
           NEW q \in 1..(Len(page) + 1), NEW g \in 0..Len(page),
           Unread(unread', q, g), g # 0 => Skips("CHAR1", q, g), Chunk(lua', NoEcho, q)
    PROVE  ReaderInv'
  <1>1. Behind("CHAR1", q) /\ HeldAt("CHAR1", q, <<>>, buf_offset') /\ StartOf("CHAR1", q, <<>>) = q
    BY DEF Behind, HeldAt, StartOf, LineEnds, Marked
  <1>2. NoEcho \in Begins \cup {NoEcho} /\ Opened("CHAR1", NoEcho)
    BY DEF Opened, EchoOf
  <1>3. Reading(st', unread', held', lua', buf_offset', q, g)
    BY <1>1, <1>2 DEF Reading
  <1> QED
    BY <1>3, Continues

\* The types after a step that puts nothing into the block.
LEMMA TypesStay ==
    ASSUME ReaderTyped, page' = page, embedded' = embedded, unread' \in Seq(Tokens),
           held' \in Seq(Tokens), \A k \in 1..Len(held') : held'[k].ch = " ",
           st' \in States, cur_line_echo' = cur_line_echo,
           buf_offset' = buf_offset \/ buf_offset' = 0
    PROVE  ReaderTyped'
  <1>1. cur_line_echo' \in BOOLEAN
    BY DEF ReaderTyped, ReaderTypeOK
  <1> QED
    BY <1>1, TypesKept

\* A carriage return, which may be of the end of the line.
LEMMA CarriageReturnStep ==
    ASSUME ReaderInv, Reads({"LF1", "LF2"}), st = "LF1", Is("\r"), Markup("LF2", <<>>)
    PROVE  ReaderInv'
  <1>1. PICK p \in 1..Len(page) :
             /\ Behind(st, p) /\ Holds(held, StartOf(st, p, held))
             /\ \A c : Is(c) <=> Has(p, c)
             /\ Chunk(lua, NoEcho, StartOf(st, p, held))
             /\ Unread(Tail(unread), p + 1, 0)
    BY AtLine
  <1>2. <<>> \in Seq(Tokens) /\ Len(<<>>) <= 4 /\ "LF2" \in States
    BY MarksAreTokens, ItemsOf DEF States
  <1>3. /\ page' = page /\ ReaderTyped'
        /\ st' = "LF2" /\ held' = held /\ unread' = Tail(unread) /\ lua' = lua \o <<>>
    BY <1>2, Taken DEF ReaderInv
  <1>4. lua' = lua
    <2>1. lua \in Seq(Tokens)
      BY <1>1 DEF Chunk
    <2> QED
      BY <1>3, <2>1, PutNothing
  <1>5. buf_offset' < LuaBuf
    <2>1. buf_offset \in 0..(LuaBuf + 32) /\ buf_offset < LuaBuf
      BY DEF ReaderInv, ReaderTyped, ReaderTypeOK, Reads
    <2>2. buf_offset' = buf_offset + Width(<<>>) /\ Width(<<>>) = 0
      BY <1>2, WidthIs DEF Markup, To, Emit
    <2> QED
      BY <2>1, <2>2
  <1>6. Len(page) \in Nat /\ Len(held) \in Nat
    BY LenProperties DEF ReaderInv, ReaderTyped, PageTyped
  <1> DEFINE q == p + 1
             none == 0
             a == p - Len(held)
  <1>7. StartOf(st, p, held) = a /\ StartOf("LF2", q, held) = a
    BY <1>6 DEF StartOf, Marked
  <1>8. q \in 1..(Len(page) + 1) /\ none \in 0..Len(page) /\ q - 1 = p
    BY <1>6
  <1>9. none # 0 => Skips("LF2", q, none)
    OBVIOUS
  <1>10. Unread(unread', q, none) /\ Has(p, "\r") /\ BehindTag(p)
    BY <1>1, <1>3 DEF Behind
  <1> HIDE DEF q, none, a
  <1>11. Behind("LF2", q)
    BY <1>8, <1>10 DEF Behind
  <1>12. HeldAt("LF2", q, held, buf_offset')
    BY <1>1, <1>5, <1>7 DEF HeldAt, LineEnds
  <1>13. Chunk(lua', NoEcho, StartOf("LF2", q, held)) /\ NoEcho \in Begins \cup {NoEcho}
    BY <1>1, <1>4, <1>7
  <1>14. Opened("LF2", NoEcho)
    BY DEF Opened, EchoOf
  <1>15. Reading(st', unread', held', lua', buf_offset', q, none)
    BY <1>3, <1>9, <1>10, <1>11, <1>12, <1>13, <1>14 DEF Reading
  <1> QED
    BY <1>3, <1>8, <1>15, Continues

\* White space is held.
WhiteSpaceHeld ==
    /\ Reads({"LF1", "LF2"}) /\ st = "LF1" /\ Is(" ")
    /\ held' = Append(held, byte) /\ unread' = Tail(unread)
    /\ UNCHANGED <<page, embedded, st, cur_line_echo, buf_offset, lua>>

LEMMA WhiteSpaceStep ==
    ASSUME ReaderInv, WhiteSpaceHeld
    PROVE  ReaderInv'
  <1>1. PICK p \in 1..Len(page) :
             /\ Behind(st, p) /\ Holds(held, StartOf(st, p, held))
             /\ byte = page[p] /\ byte \in Tokens /\ \A c : Is(c) <=> Has(p, c)
             /\ Chunk(lua, NoEcho, StartOf(st, p, held))
             /\ Unread(Tail(unread), p + 1, 0)
    BY AtLine DEF WhiteSpaceHeld
  <1>2. /\ page' = page /\ st = "LF1" /\ st' = st
        /\ buf_offset' = buf_offset /\ lua' = lua /\ ReaderTyped
        /\ buf_offset < LuaBuf /\ unread # <<>>
        /\ Is(" ") /\ held' = Append(held, byte) /\ unread' = Tail(unread)
    BY DEF ReaderInv, Reads, WhiteSpaceHeld
  <1>3. held \in Seq(Tokens) /\ unread \in Seq(Tokens) /\ PageTyped
    BY <1>2 DEF ReaderTyped
  <1>4. /\ Len(page) \in Nat /\ Len(held) \in Nat /\ Len(held') = Len(held) + 1
        /\ \A i \in 1..Len(held) : held'[i] = held[i]
        /\ held'[Len(held) + 1] = byte
    <2>1. held' = Append(held, byte)
      BY <1>2
    <2>2. /\ Len(Append(held, byte)) = Len(held) + 1
          /\ \A i \in 1..Len(held) : Append(held, byte)[i] = held[i]
          /\ Append(held, byte)[Len(held) + 1] = byte
      BY <1>1, <1>3, AppendProperties
    <2>3. Len(page) \in Nat /\ Len(held) \in Nat
      BY <1>3, LenProperties DEF PageTyped
    <2> QED
      BY <2>1, <2>2, <2>3
  <1> DEFINE q == p + 1
             none == 0
             a == p - Len(held)
  <1>5. StartOf(st, p, held) = a /\ StartOf("LF1", q, held') = a
    <2>1. st = "LF1" /\ Len(held') = Len(held) + 1 /\ Len(held) \in Nat
      BY <1>2, <1>4
    <2>2. q - Len(held') = a
      BY <2>1
    <2> QED
      BY <2>1, <2>2 DEF StartOf, Marked
  <1>6. /\ q \in 1..(Len(page) + 1) /\ none \in 0..Len(page) /\ q - 1 = p /\ q \in Int
        /\ a + (Len(held) + 1) - 1 = p
    BY <1>4
  <1>7. none # 0 => Skips("LF1", q, none)
    OBVIOUS
  <1>8. Unread(unread', q, none) /\ Has(p, " ") /\ BehindTag(p)
    BY <1>1, <1>2 DEF Behind
  <1>9. p \in Int /\ a \in Int
    BY <1>4
  <1> HIDE DEF none, a
  <1>10. BehindTag(q)
    <2>1. PICK j \in 1..(p - 2) : TagEnds(j) /\ \A k \in (j + 2)..(p - 1) : Has(k, " ")
      BY <1>8 DEF BehindTag
    <2>2. ASSUME NEW k \in (j + 2)..p PROVE Has(k, " ")
      <3>1. k = p \/ k \in (j + 2)..(p - 1)
        OBVIOUS
      <3> QED
        BY <1>8, <2>1, <3>1
    <2>3. j \in 1..(q - 2) /\ q - 1 = p
      OBVIOUS
    <2>4. \A k \in (j + 2)..(q - 1) : Has(k, " ")
      BY <2>2, <2>3
    <2> HIDE DEF q
    <2> QED
      BY <2>1, <2>3, <2>4 DEF BehindTag
  <1> HIDE DEF q
  <1>11. Holds(held', a)
    <2>1. ASSUME NEW i \in 1..Len(held') PROVE held'[i] = page[a + i - 1] /\ Has(a + i - 1, " ")
      <3>1. CASE i \in 1..Len(held)
        BY <1>1, <1>4, <1>5, <3>1 DEF Holds
      <3>2. CASE i = Len(held) + 1
        <4>1. a + i - 1 = p
          BY <1>6, <3>2
        <4> QED
          BY <1>1, <1>4, <1>8, <3>2, <4>1
      <3>3. i \in 1..Len(held) \/ i = Len(held) + 1
        BY <1>4
      <3> QED
        BY <3>1, <3>2, <3>3
    <2>2. a > 0
      BY <1>1, <1>5 DEF Holds
    <2> QED
      BY <2>1, <2>2 DEF Holds
  <1>12. ReaderTyped'
    <2>1. held' \in Seq(Tokens) /\ unread' \in Seq(Tokens)
      BY <1>1, <1>2, <1>3, AppendProperties, HeadTailProperties
    <2>2. ASSUME NEW k \in 1..Len(held') PROVE held'[k].ch = " "
      <3>1. held'[k] = page[a + k - 1] /\ Has(a + k - 1, " ")
        BY <1>11 DEF Holds
      <3> QED
        BY <3>1 DEF Has
    <2>3. st' \in States
      BY <1>2 DEF States
    <2>4. embedded' = embedded /\ cur_line_echo' = cur_line_echo
      BY DEF WhiteSpaceHeld
    <2> QED
      BY <1>2, <2>1, <2>2, <2>3, <2>4, TypesStay
  <1>13. Behind("LF1", q)
    BY <1>10 DEF Behind
  <1>14. HeldAt("LF1", q, held', buf_offset')
    BY <1>2, <1>5, <1>11 DEF HeldAt, LineEnds
  <1>15. Chunk(lua', NoEcho, StartOf("LF1", q, held')) /\ NoEcho \in Begins \cup {NoEcho}
    BY <1>1, <1>2, <1>5
  <1>16. Opened("LF1", NoEcho)
    BY DEF Opened, EchoOf
  <1>17. st' = "LF1"
    BY <1>2
  <1>18. Reading(st', unread', held', lua', buf_offset', q, none)
    BY <1>7, <1>8, <1>13, <1>14, <1>15, <1>16, <1>17 DEF Reading
  <1> QED
    BY <1>2, <1>6, <1>12, <1>18, Continues

\* If the line ends here, or the page, nothing that was read ahead is text.
LEMMA LineDropped ==
    ASSUME PageTyped, Len(held) \in Nat, NEW p \in 1..(Len(page) + 1), st \in {"LF1", "LF2"},
           Behind(st, p), Holds(held, StartOf(st, p, held)),
           st = "LF1" => p = Len(page) + 1 \/ Has(p, "\n")
    PROVE  /\ StartOf(st, p, held) \in Int /\ StartOf(st, p, held) <= p
           /\ \A n \in StartOf(st, p, held)..(p - 1) : Dropped(n)
  <1>1. p \in Int /\ p - 1 \in Int /\ p - 1 < p
    <2>1. Len(page) \in Nat
      BY LenProperties DEF PageTyped
    <2> QED
      BY <2>1
  <1>2. CASE st = "LF1"
    <2> DEFINE a == p - Len(held)
    <2>1. StartOf(st, p, held) = a
      BY <1>2 DEF StartOf, Marked
    <2>2. a \in Int /\ a <= p
      BY <1>1
    <2>3. BehindTag(p) /\ Holds(held, a)
      BY <1>2, <2>1 DEF Behind
    <2>4. p = Len(page) + 1 \/ Has(p, "\n") \/ Has(p, "\r")
      BY <1>2
    <2>5. \A n \in a..(p - 1) : Dropped(n)
      BY <1>1, <2>2, <2>3, <2>4, HeldDropped
    <2> QED
      BY <2>1, <2>2, <2>5
  <1>3. CASE st = "LF2"
    <2> DEFINE e == p - 1
               a == e - Len(held)
    <2>1. StartOf(st, p, held) = a
      BY <1>3 DEF StartOf, Marked
    <2>2. a \in Int /\ a <= p /\ e \in Int
      BY <1>1
    <2>3. BehindTag(e) /\ Holds(held, a) /\ Has(e, "\r")
      BY <1>3, <2>1 DEF Behind
    <2> HIDE DEF a
    <2>4. \A n \in a..(e - 1) : Dropped(n)
      BY <2>2, <2>3, HeldDropped DEF a
    <2>5. Dropped(e)
      BY <2>3 DEF Dropped
    <2>6. \A n \in a..(p - 1) : n \in a..(e - 1) \/ n = e
      BY <1>1, <2>2
    <2> QED
      BY <2>1, <2>2, <2>4, <2>5, <2>6
  <1> QED
    BY <1>2, <1>3

\* The line ends, and its end may be read again.
LineEnded ==
    /\ Reads({"LF1", "LF2"}) /\ Is("\n")
    /\ st' = "CHAR1" /\ held' = <<>>
    /\ Emit(<<byte>>) /\ Line(FALSE)
    /\ unread' = IF cur_line_echo THEN unread ELSE Tail(unread)
    /\ UNCHANGED <<page, embedded>>

LEMMA LineEndedStep ==
    ASSUME ReaderInv, LineEnded
    PROVE  ReaderInv'
  <1>1. PICK p \in 1..Len(page) :
             /\ Behind(st, p) /\ Holds(held, StartOf(st, p, held))
             /\ byte = page[p] /\ byte \in Tokens /\ \A c : Is(c) <=> Has(p, c)
             /\ Chunk(lua, NoEcho, StartOf(st, p, held))
             /\ Unread(unread, p, 0) /\ Unread(Tail(unread), p + 1, 0)
    BY AtLine DEF LineEnded
  <1>2. /\ page' = page /\ st' = "CHAR1" /\ held' = <<>> /\ lua' = lua \o <<byte>>
        /\ ReaderTyped /\ unread # <<>> /\ Has(p, "\n") /\ st \in {"LF1", "LF2"}
    BY <1>1 DEF ReaderInv, Reads, LineEnded, Emit
  <1>3. PageTyped /\ held \in Seq(Tokens) /\ unread \in Seq(Tokens) /\ lua \in Seq(Tokens)
    BY <1>1, <1>2 DEF ReaderTyped, Chunk
  <1>4. Len(page) \in Nat /\ Len(held) \in Nat
    BY <1>3, LenProperties DEF PageTyped
  <1>5. p \in 1..(Len(page) + 1) /\ p + 1 \in 1..(Len(page) + 1) /\ 0 \in 0..Len(page) /\ p \in Int
    BY <1>4
  <1>6. Chunk(lua, NoEcho, p)
    <2>1. /\ StartOf(st, p, held) \in Int /\ StartOf(st, p, held) <= p
          /\ \A n \in StartOf(st, p, held)..(p - 1) : Dropped(n)
      BY <1>1, <1>2, <1>3, <1>4, <1>5, LineDropped
    <2> QED
      BY <1>1, <1>5, <2>1, DropBytes
  <1>7. Chunk(lua', NoEcho, p + 1) /\ Chunk(lua', NoEcho, p)
    <2>1. byte.ch = "\n"
      BY <1>1, <1>2 DEF Has
    <2>2. Quotes(lua, byte, NoEcho) /\ NoEcho \in Begins \cup {NoEcho}
      <3>1. byte.n = p /\ NoEcho # EchoBegin
        BY <1>1, <1>3, BeginningIs DEF PageTyped
      <3> QED
        BY <1>1, <2>1, <3>1 DEF Quotes
    <2>3. /\ Chunk(Append(lua, page[p]), NoEcho, p + 1)
          /\ page[p].ch = "\n" => Chunk(Append(lua, page[p]), NoEcho, p)
      BY <1>1, <1>3, <1>6, <2>2, PutByte, PageCopy
    <2>4. lua' = Append(lua, page[p])
      BY <1>1, <1>2, <1>3, PutOne
    <2> QED
      BY <1>1, <2>1, <2>3, <2>4
  <1>8. Tail(unread) \in Seq(Tokens)
    BY <1>2, <1>3, HeadTailProperties
  <1>9. ReaderTyped'
    <2>1. unread' \in Seq(Tokens)
      BY <1>3, <1>8 DEF LineEnded
    <2>2. held' \in Seq(Tokens) /\ \A k \in 1..Len(held') : held'[k].ch = " "
      BY <1>2, NothingHeld
    <2>3. embedded' = embedded /\ cur_line_echo' \in BOOLEAN
      BY DEF LineEnded, Line
    <2>4. buf_offset < LuaBuf /\ \E k \in 0..9 : buf_offset' = buf_offset + k
      <3>1. <<byte>> \in Seq(Tokens) /\ Len(<<byte>>) <= 4
        BY <1>1, ItemsOf
      <3>2. Width(<<byte>>) \in 0..9
        BY <3>1, WidthIs
      <3> QED
        BY <3>2 DEF LineEnded, Reads, Emit
    <2>5. st' \in States
      BY <1>2 DEF States
    <2> QED
      BY <1>2, <2>1, <2>2, <2>3, <2>4, <2>5, TypesKept
  <1> DEFINE q == p + 1
             none == 0
  <1>10. none # 0 => FALSE
    OBVIOUS
  <1>11. /\ q \in 1..(Len(page) + 1) /\ none \in 0..Len(page) /\ Chunk(lua', NoEcho, q)
         /\ Unread(unread, p, none) /\ Unread(Tail(unread), q, none)
    BY <1>1, <1>5, <1>7
  <1> HIDE DEF q, none
  <1>12. CASE unread' = unread
    BY <1>2, <1>5, <1>7, <1>9, <1>10, <1>11, <1>12, LineStarts
  <1>13. CASE unread' = Tail(unread)
    BY <1>2, <1>9, <1>10, <1>11, <1>13, LineStarts
  <1> QED
    BY <1>12, <1>13 DEF LineEnded

LEMMA LineEndStep ==
    ASSUME ReaderInv, LineEnd
    PROVE  ReaderInv'
  <1>1. \/ Reads({"LF1", "LF2"}) /\ st = "LF1" /\ Is("\r") /\ Markup("LF2", <<>>)
        \/ WhiteSpaceHeld
        \/ LineEnded
    BY DEF LineEnd, WhiteSpaceHeld, LineEnded
  <1> QED
    BY <1>1, CarriageReturnStep, WhiteSpaceStep, LineEndedStep

\* The pointer is moved back to byte a ...
LEMMA PointerMoves ==
    ASSUME PageTyped, NEW a \in 1..(Len(page) + 1)
    PROVE  /\ SubSeq(page, a, Len(page)) \in Seq(Tokens)
           /\ Unread(SubSeq(page, a, Len(page)), a, 0)
  <1> DEFINE u == SubSeq(page, a, Len(page))
  <1>1. Len(page) \in Nat /\ a \in Int /\ Len(page) \in Int
    BY LenProperties DEF PageTyped
  <1>2. \A i \in a..Len(page) : page[i] \in Tokens
    <2>1. \A i \in 1..Len(page) : page[i] \in Tokens
      BY ElementOfSeq DEF PageTyped
    <2>2. \A i \in a..Len(page) : i \in 1..Len(page)
      BY <1>1
    <2> QED
      BY <2>1, <2>2
  <1>3. /\ u \in Seq(Tokens)
        /\ Len(u) = IF a <= Len(page) THEN Len(page) - a + 1 ELSE 0
        /\ \A i \in 1..(Len(page) - a + 1) : u[i] = page[a + i - 1]
    BY <1>1, <1>2, SubSeqProperties
  <1> HIDE DEF u
  <1>4. Len(u) = Len(page) - a + 1
    BY <1>1, <1>3
  <1>5. Len(u) = Len(page) + 1 - a - 0
    BY <1>1, <1>4
  <1>6. Unread(u, a, 0)
    BY <1>3, <1>4, <1>5 DEF Unread
  <1> QED
    BY <1>3, <1>6 DEF u

\* ... or what is held is put back, behind which byte g may be missing.
LEMMA HeldPutBack ==
    ASSUME PageTyped, held \in Seq(Tokens), unread \in Seq(Tokens),
           NEW p \in 1..(Len(page) + 1), Unread(unread, p, 0),
           NEW a \in Int, Holds(held, a)
    PROVE  /\ held \o unread \in Seq(Tokens)
           /\ a = p - Len(held) => Unread(held \o unread, a, 0)
           /\ a = p - 1 - Len(held) /\ p > 1 => Unread(held \o unread, a, p - 1)
  <1> DEFINE u == held \o unread
  <1>1. Len(page) \in Nat /\ Len(held) \in Nat /\ Len(unread) \in Nat
    BY LenProperties DEF PageTyped
  <1>2. /\ u \in Seq(Tokens) /\ Len(u) = Len(held) + Len(unread)
        /\ \A i \in 1..(Len(held) + Len(unread)) :
             u[i] = IF i <= Len(held) THEN held[i] ELSE unread[i - Len(held)]
    BY ConcatProperties
  <1>3. Len(unread) = Len(page) + 1 - p - 0 /\ \A i \in 1..Len(unread) : unread[i] = page[p + i - 1]
    BY DEF Unread
  <1> HIDE DEF u
  <1>4. ASSUME NEW i \in 1..Len(u)
        PROVE  IF i <= Len(held) THEN u[i] = page[a + i - 1] ELSE u[i] = page[p + i - Len(held) - 1]
    <2>1. CASE i <= Len(held)
      <3>1. i \in 1..Len(held) /\ u[i] = held[i]
        BY <1>1, <1>2, <2>1
      <3> QED
        BY <2>1, <3>1 DEF Holds
    <2>2. CASE ~(i <= Len(held))
      <3> DEFINE j == i - Len(held)
      <3>1. j \in 1..Len(unread) /\ p + j - 1 = p + i - Len(held) - 1
        BY <1>1, <1>2, <2>2
      <3>2. u[i] = unread[j]
        BY <1>1, <1>2, <2>2
      <3> HIDE DEF j
      <3>3. unread[j] = page[p + j - 1]
        BY <1>3, <3>1
      <3> QED
        BY <2>2, <3>1, <3>2, <3>3
    <2> QED
      BY <2>1, <2>2
  <1>5. ASSUME a = p - Len(held) PROVE Unread(u, a, 0)
    <2>1. Len(u) = Len(page) + 1 - a - 0
      BY <1>1, <1>2, <1>3, <1>5
    <2>2. ASSUME NEW i \in 1..Len(u) PROVE u[i] = page[a + i - 1]
      <3>1. p + i - Len(held) - 1 = a + i - 1
        BY <1>1, <1>5
      <3> QED
        BY <1>4, <3>1
    <2> QED
      BY <2>1, <2>2 DEF Unread
  <1>6. ASSUME a = p - 1 - Len(held), p > 1 PROVE Unread(u, a, p - 1)
    <2> DEFINE g == p - 1
    <2>1. Len(u) = Len(page) + 1 - a - 1 /\ g # 0
      BY <1>1, <1>2, <1>3, <1>6
    <2>2. ASSUME NEW i \in 1..Len(u)
          PROVE  IF a + i <= g THEN u[i] = page[a + i - 1] ELSE u[i] = page[a + i]
      <3>1. (a + i <= g <=> i <= Len(held)) /\ p + i - Len(held) - 1 = a + i
        BY <1>1, <1>2, <1>6
      <3> QED
        BY <1>4, <3>1
    <2> HIDE DEF g
    <2>3. Unread(u, a, g)
      BY <2>1, <2>2 DEF Unread
    <2> QED
      BY <2>3 DEF g
  <1> QED
    BY <1>2, <1>5, <1>6 DEF u

LEMMA NoLineEndStep ==
    ASSUME ReaderInv, NoLineEnd
    PROVE  ReaderInv'
  <1>1. PICK p \in 1..Len(page) :
             /\ Behind(st, p) /\ Holds(held, StartOf(st, p, held))
             /\ Chunk(lua, NoEcho, StartOf(st, p, held))
             /\ Unread(unread, p, 0)
    BY AtLine DEF NoLineEnd, Other
  <1>2. /\ page' = page /\ st' = "CHAR1" /\ held' = <<>> /\ lua' = lua /\ unread' = StepBack
        /\ ReaderTyped /\ st \in {"LF1", "LF2"} /\ buf_offset' = buf_offset
    BY DEF ReaderInv, Reads, NoLineEnd, Other
  <1>3. PageTyped /\ held \in Seq(Tokens) /\ unread \in Seq(Tokens)
    BY <1>2 DEF ReaderTyped
  <1>4. Len(page) \in Nat /\ Len(held) \in Nat
    BY <1>3, LenProperties DEF PageTyped
  <1>5. p \in 1..(Len(page) + 1) /\ p \in Int /\ 0 \in 0..Len(page)
    BY <1>4
  <1> DEFINE L == Len(held)
             a == IF st = "LF1" THEN p - L ELSE p - 1 - L
  <1>6. a = StartOf(st, p, held) /\ a > 0
    BY <1>1, <1>2 DEF StartOf, Marked, Holds
  <1>7. a \in Int /\ (st = "LF1" => a = p - L) /\ (st = "LF2" => a = p - 1 - L) /\ L \in Nat
    BY <1>4, <1>5
  <1> HIDE DEF a, L
  <1>8. a \in 1..(Len(page) + 1) /\ a <= p
    BY <1>2, <1>4, <1>6, <1>7
  <1>9. Chunk(lua', NoEcho, a) /\ Holds(held, a)
    BY <1>1, <1>2, <1>6
  <1>10. ASSUME unread' \in Seq(Tokens) PROVE ReaderTyped'
    <2>1. held' \in Seq(Tokens) /\ \A k \in 1..Len(held') : held'[k].ch = " "
      BY <1>2, NothingHeld
    <2>2. embedded' = embedded /\ cur_line_echo' = cur_line_echo
      BY DEF NoLineEnd
    <2>3. st' \in States
      BY <1>2 DEF States
    <2> QED
      BY <1>2, <1>10, <2>1, <2>2, <2>3, TypesStay
  \* Behind a carriage return, its byte and the blanks are left out or read.
  <1>11. ASSUME st = "LF2"
         PROVE  /\ Has(p - 1, "\r") /\ BehindTag(p - 1) /\ p - 1 \in 1..Len(page)
                /\ \A n \in a..(p - 2) : Has(n, " ")
                /\ \A n \in a..(p - 1) : Dropped(n)
    <2>1. Has(p - 1, "\r") /\ BehindTag(p - 1)
      BY <1>1, <1>11 DEF Behind
    <2>2. p - 1 \in 1..Len(page) /\ p - 1 \in Int /\ a = p - 1 - Len(held)
      <3>1. p - 1 \in Int
        BY <1>5
      <3> QED
        BY <1>3, <1>7, <1>11, <2>1, <3>1, HasIs DEF L
    <2>3. \A n \in a..(p - 1 - 1) : Has(n, " ") /\ Dropped(n)
      BY <1>3, <1>4, <1>7, <1>9, <2>1, <2>2, HeldDropped
    <2>4. Dropped(p - 1)
      BY <2>1 DEF Dropped
    <2>5. \A n \in a..(p - 2) : n \in a..(p - 1 - 1)
      BY <1>5, <1>7
    <2>6. \A n \in a..(p - 1) : n \in a..(p - 1 - 1) \/ n = p - 1
      BY <1>5, <1>7
    <2> QED
      BY <2>1, <2>2, <2>3, <2>4, <2>5, <2>6
  <1> DEFINE none == 0
  <1>12. none \in 0..Len(page) /\ (none # 0 => FALSE)
    BY <1>5
  <1> HIDE DEF none
  <1>13. ASSUME NEW q \in 1..(Len(page) + 1), unread' \in Seq(Tokens), Unread(unread', q, none),
                Chunk(lua', NoEcho, q)
         PROVE  ReaderInv'
    BY <1>2, <1>10, <1>12, <1>13, LineStarts
  <1>14. CASE embedded
    <2> DEFINE b == p - L
    <2>1. Len(unread) = Len(page) + 1 - p - 0
      BY <1>1 DEF Unread
    <2>2. /\ b \in 1..(Len(page) + 1) /\ b \in Int
          /\ Len(page) - Len(unread) - L + 1 = b
      BY <1>2, <1>4, <1>7, <1>8, <2>1
    <2>3. unread' = SubSeq(page, b, Len(page))
      BY <1>2, <1>14, <2>2 DEF StepBack, L
    <2> HIDE DEF b
    <2>4. unread' \in Seq(Tokens) /\ Unread(unread', b, none)
      BY <1>3, <2>2, <2>3, PointerMoves DEF none
    <2>5. Chunk(lua', NoEcho, b)
      <3>1. CASE st = "LF1"
        BY <1>7, <1>9, <3>1 DEF b
      <3>2. CASE st = "LF2"
        <4>1. b = a + 1 /\ a <= p - 1
          BY <1>7, <3>2 DEF b
        <4>2. a \in a..(p - 1)
          BY <1>5, <1>7, <4>1
        <4>3. Dropped(a)
          BY <1>11, <3>2, <4>2
        <4> QED
          BY <1>7, <1>9, <4>1, <4>3, DropOne
      <3> QED
        BY <1>2, <3>1, <3>2
    <2> QED
      BY <1>13, <2>2, <2>4, <2>5
  <1>15. CASE ~embedded
    <2>1. unread' = held \o unread
      BY <1>2, <1>15 DEF StepBack
    <2>2. /\ unread' \in Seq(Tokens)
          /\ a = p - Len(held) => Unread(unread', a, none)
          /\ a = p - 1 - Len(held) /\ p > 1 => Unread(unread', a, p - 1)
      BY <1>1, <1>3, <1>5, <1>7, <1>9, <2>1, HeldPutBack DEF none
    <2>3. CASE st = "LF1"
      BY <1>7, <1>8, <1>9, <1>13, <2>2, <2>3 DEF L
    <2>4. CASE st = "LF2" /\ L > 0
      <3> DEFINE g == p - 1
      <3>1. g \in 0..Len(page) /\ a < g /\ p > 1 /\ \A k \in a..(g - 1) : k \in a..(p - 2)
        BY <1>4, <1>5, <1>7, <1>8, <2>4
      <3>2. Unread(unread', a, g)
        BY <1>7, <2>2, <2>4, <3>1 DEF L
      <3>3. Skips("CHAR1", a, g)
        BY <1>11, <2>4, <3>1 DEF Skips
      <3> HIDE DEF g
      <3> QED
        BY <1>2, <1>8, <1>9, <1>10, <2>2, <3>1, <3>2, <3>3, LineStarts
    <2>5. CASE st = "LF2" /\ L = 0
      <3>1. a + 1 = p /\ a \in a..(p - 1)
        BY <1>5, <1>7, <2>5
      <3>2. Chunk(lua', NoEcho, p)
        BY <1>7, <1>9, <1>11, <2>5, <3>1, DropOne
      <3>3. unread' = unread
        <4>1. held = <<>>
          BY <1>3, <2>5, EmptySeq DEF L
        <4> QED
          BY <1>3, <2>1, <4>1, ConcatEmptySeq
      <3>4. Unread(unread', p, none)
        BY <1>1, <3>3 DEF none
      <3> QED
        BY <1>5, <1>13, <2>2, <3>2, <3>4
    <2> QED
      BY <1>2, <1>7, <2>3, <2>4, <2>5
  <1> QED
    BY <1>14, <1>15

-----------------------------------------------------------------------------
(***************************************************************************)
(* The end of the page, and of a block.                                    *)
(***************************************************************************)
LEMMA EndOfPageStep ==
    ASSUME ReaderInv, EndOfPage
    PROVE  ReaderInv'
  <1>1. PICK p \in 1..(Len(page) + 1), g \in 0..Len(page) :
          Reading(st, unread, held, lua, buf_offset, p, g)
    BY DEF ReaderInv
  <1> DEFINE text == IF st = "CHAR2" THEN <<EchoEnd>> ELSE <<>>
  <1>2. /\ st # "UNDEFINED" /\ unread = <<>> /\ ReaderTyped
        /\ page' = page /\ unread' = unread /\ held' = held /\ st' = "UNDEFINED"
        /\ lua' = lua \o text
    BY DEF EndOfPage, ReaderInv, Emit
  <1>3. PageTyped /\ unread \in Seq(Tokens) /\ held \in Seq(Tokens)
    BY <1>2 DEF ReaderTyped
  <1>4. Len(page) \in Nat /\ Len(held) \in Nat
    BY <1>3, LenProperties DEF PageTyped
  <1>5. Unread(unread, p, g) /\ Behind(st, p) /\ HeldAt(st, p, held, buf_offset)
    BY <1>1 DEF Reading
  <1>6. p = Len(page) + 1 /\ g = 0
    <2>1. g # 0 => p < g
      BY <1>1 DEF Reading, Skips
    <2> QED
      BY <1>2, <1>3, <1>5, <2>1, NothingIs
  <1>7. PICK o \in Begins \cup {NoEcho} : Chunk(lua, o, StartOf(st, p, held)) /\ o = EchoOf(st)
    BY <1>1, <1>2 DEF Reading, Opened
  <1>8. p \in Int /\ p - 1 \in Int /\ p - 1 + 1 = p /\ p - 1 = Len(page)
    BY <1>4, <1>6
  <1>9. Chunk(lua, o, p)
    <2>1. CASE st \in {"LF1", "LF2"}
      <3>1. Holds(held, StartOf(st, p, held))
        BY <1>5, <2>1 DEF HeldAt, LineEnds
      <3>2. /\ StartOf(st, p, held) \in Int /\ StartOf(st, p, held) <= p
            /\ \A n \in StartOf(st, p, held)..(p - 1) : Dropped(n)
        BY <1>3, <1>4, <1>5, <1>6, <2>1, <3>1, LineDropped
      <3> QED
        BY <1>7, <1>8, <3>2, DropBytes
    <2>2. CASE st \in Marked
      <3>1. Has(p - 1, "<") \/ Has(p - 1, "?")
        BY <1>5, <2>2 DEF Behind, Marked, CodeMarkAt
      <3>2. Dropped(p - 1)
        BY <1>8, <3>1 DEF Dropped
      <3>3. StartOf(st, p, held) = p - 1
        BY <2>2 DEF StartOf
      <3>4. Chunk(lua, o, p - 1)
        BY <1>7, <3>3
      <3>5. Chunk(lua, o, p - 1 + 1)
        BY <1>8, <3>2, <3>4, DropOne
      <3> QED
        BY <1>8, <3>5
    <2>3. CASE st \notin Marked /\ st \notin {"LF1", "LF2"}
      BY <1>7, <2>3 DEF StartOf
    <2> QED
      BY <2>1, <2>2, <2>3
  <1>10. EchoEnd \in Tokens /\ EchoEnd \in Marks \cup {Backslash, Blank} /\ lua \in Seq(Tokens)
    BY <1>7, MarksAreTokens DEF Marks, Chunk
  <1>11. \E e \in Begins \cup {NoEcho} : Chunk(lua', e, p) /\ Opened("UNDEFINED", e)
    <2>1. CASE st = "CHAR2"
      <3>1. o = EchoBegin
        BY <1>7, <2>1 DEF EchoOf
      <3>2. Fits(EchoEnd, o) /\ Then(EchoEnd, o) = NoEcho
        BY <3>1, MarksDiffer DEF Fits, Then, BeginOf, Begins, Marks
      <3>3. Chunk(Append(lua, EchoEnd), NoEcho, p)
        BY <1>7, <1>8, <1>9, <1>10, <3>2, PutMark
      <3>4. lua' = Append(lua, EchoEnd)
        BY <1>2, <1>10, <2>1, PutOne
      <3>5. Opened("UNDEFINED", NoEcho)
        BY BeginningIs DEF Opened
      <3> QED
        BY <3>3, <3>4, <3>5
    <2>2. CASE st # "CHAR2"
      <3>1. lua' = lua
        BY <1>2, <1>10, <2>2, PutNothing
      <3>2. Opened("UNDEFINED", o)
        <4>1. ASSUME o = EchoBegin PROVE Has(Len(page), "<")
          <5>1. st = "CHAR3"
            BY <1>7, <2>2, <4>1, BeginningIs DEF EchoOf
          <5>2. Has(p - 1, "<")
            BY <1>5, <5>1 DEF Behind
          <5> QED
            BY <1>8, <5>2
        <4> QED
          BY <4>1 DEF Opened
      <3> QED
        BY <1>9, <3>1, <3>2
    <2> QED
      BY <2>1, <2>2
  <1>12. ReaderTyped'
    <2>1. text \in Seq(Tokens) /\ Len(text) <= 4
      BY <1>10, ItemsOf
    <2>2. \E k \in 0..9 : buf_offset' = buf_offset + k
      <3>1. Width(text) \in 0..9 /\ buf_offset' = buf_offset + Width(text)
        BY <2>1, WidthIs DEF EndOfPage, Emit
      <3> QED
        BY <3>1
    <2>3. buf_offset < LuaBuf
      BY DEF EndOfPage
    <2>4. embedded' = embedded /\ cur_line_echo' \in BOOLEAN
      BY <1>2 DEF EndOfPage, ReaderTyped, ReaderTypeOK
    <2>5. unread' \in Seq(Tokens) /\ held' \in Seq(Tokens) /\ st' \in States
      BY <1>2, <1>3 DEF States
    <2>6. \A k \in 1..Len(held') : held'[k].ch = " "
      BY <1>2, <1>3, LenProperties DEF ReaderTyped, ReaderTypeOK
    <2> QED
      BY <1>2, <2>2, <2>3, <2>4, <2>5, <2>6, TypesKept
  <1>13. Behind("UNDEFINED", p) /\ HeldAt("UNDEFINED", p, held, buf_offset')
    BY <1>6 DEF Behind, HeldAt, LineEnds
  <1>14. StartOf("UNDEFINED", p, held) = p
    BY DEF StartOf, Marked
  <1>15. Unread(unread', p, g) /\ g = 0
    BY <1>2, <1>5, <1>6
  <1>16. Reading(st', unread', held', lua', buf_offset', p, g)
    BY <1>2, <1>11, <1>13, <1>14, <1>15 DEF Reading
  <1> QED
    BY <1>2, <1>12, <1>16, Continues

LEMMA NextBlockStep ==
    ASSUME ReaderInv, NextBlock
    PROVE  ReaderInv'
  <1>1. PICK p \in 1..(Len(page) + 1), g \in 0..Len(page) :
          Reading(st, unread, held, lua, buf_offset, p, g)
    BY DEF ReaderInv
  <1>2. /\ page' = page /\ unread' = unread /\ st' = st /\ lua' = lua
        /\ buf_offset' = 0 /\ held' = <<>> /\ ReaderTyped
        /\ buf_offset >= LuaBuf \/ st = "UNDEFINED"
    BY DEF NextBlock, ReaderInv
  <1>3. /\ Unread(unread, p, g) /\ (g # 0 => Skips(st, p, g)) /\ Behind(st, p)
        /\ HeldAt(st, p, held, buf_offset)
        /\ \E o \in Begins \cup {NoEcho} : Chunk(lua, o, StartOf(st, p, held)) /\ Opened(st, o)
    BY <1>1 DEF Reading
  <1>4. StartOf(st, p, <<>>) = StartOf(st, p, held) /\ HeldAt(st, p, <<>>, buf_offset')
    <2>1. CASE st = "UNDEFINED"
      BY <2>1 DEF StartOf, HeldAt, Marked, LineEnds
    <2>2. CASE st # "UNDEFINED"
      <3>1. ~(buf_offset < LuaBuf)
        <4>1. buf_offset \in 0..(LuaBuf + 32) /\ LuaBuf \in Nat
          BY <1>2, ReaderAssumption DEF ReaderTyped, ReaderTypeOK
        <4>2. buf_offset >= LuaBuf
          BY <1>2, <2>2
        <4> QED
          BY <4>1, <4>2
      <3>2. held = <<>>
        BY <1>3, <2>2, <3>1 DEF HeldAt
      <3> QED
        BY <1>3, <3>2 DEF HeldAt
    <2> QED
      BY <2>1, <2>2
  <1>5. ReaderTyped'
    <2>1. unread' \in Seq(Tokens)
      BY <1>2 DEF ReaderTyped
    <2>2. held' \in Seq(Tokens) /\ \A k \in 1..Len(held') : held'[k].ch = " "
      BY <1>2, NothingHeld
    <2>3. embedded' = embedded /\ cur_line_echo' = cur_line_echo
      BY DEF NextBlock
    <2>4. st' \in States
      BY <1>2 DEF ReaderTyped, ReaderTypeOK, States
    <2> QED
      BY <1>2, <2>1, <2>2, <2>3, <2>4, TypesStay
  <1>6. Reading(st', unread', held', lua', buf_offset', p, g)
    BY <1>2, <1>3, <1>4 DEF Reading
  <1> QED
    BY <1>2, <1>5, <1>6, Continues

\* Every step of the reader keeps the invariant ...
LEMMA ReaderKeeps ==
    ASSUME ReaderInv, ReaderStep
    PROVE  ReaderInv'
  BY TextStep, TagOrTextStep, TagStartStep, CodeStep, CodeEndStep, CommentStep, LineEndStep,
     NoLineEndStep, EndOfPageStep, NextBlockStep DEF ReaderStep

\* ... and so does one that is not the reader's.
LEMMA ReaderRests ==
    ASSUME ReaderInv, UNCHANGED readerVars
    PROVE  ReaderInv'
  <1>1. PICK p \in 1..(Len(page) + 1), g \in 0..Len(page) :
          Reading(st, unread, held, lua, buf_offset, p, g)
    BY DEF ReaderInv
  <1>2. /\ page' = page /\ unread' = unread /\ st' = st /\ lua' = lua
        /\ buf_offset' = buf_offset /\ held' = held
    BY DEF readerVars
  <1>3. ReaderTyped'
    <2>1. ReaderTypeOK'
      BY DEF readerVars, ReaderInv, ReaderTyped, ReaderTypeOK
    <2> QED
      BY <1>2, <2>1 DEF ReaderInv, ReaderTyped, PageTyped
  <1>4. Reading(st', unread', held', lua', buf_offset', p, g)
    BY <1>1, <1>2
  <1> QED
    BY <1>2, <1>3, <1>4, Continues

-----------------------------------------------------------------------------
(***************************************************************************)
(* Where reading begins, and what follows.                                 *)
(***************************************************************************)
LEMMA NothingChunk == Chunk(<<>>, NoEcho, 1)
  <1>1. <<>> \in Seq(Tokens) /\ Len(<<>>) = 0
    OBVIOUS
  <1>2. Echoes(<<>>, NoEcho)
    <2>1. \A b \in Begins : ~Within(<<>>, b, 1)
      BY DEF Within
    <2>2. \A b \in Begins : b # NoEcho
      BY MarksDiffer DEF Marks
    <2> QED
      BY <1>1, <2>1, <2>2 DEF Echoes
  <1>3. Quoted(<<>>) /\ Copied(<<>>, 1) /\ Accounted(<<>>, 1)
    BY <1>1 DEF Quoted, Copied, KeptOrder, Accounted
  <1> QED
    BY <1>1, <1>2, <1>3 DEF Chunk

\* The reader at the first byte of a page.
AtStart ==
    /\ PageTyped /\ unread = page /\ embedded \in BOOLEAN /\ st = "CHAR1" /\ cur_line_echo = FALSE
    /\ buf_offset = 0 /\ held = <<>> /\ lua = <<>>

LEMMA StartsWell ==
    ASSUME AtStart
    PROVE  ReaderInv
  <1>1. /\ PageTyped /\ unread = page /\ st = "CHAR1" /\ buf_offset = 0 /\ held = <<>> /\ lua = <<>>
    BY DEF AtStart
  <1>2. Len(page) \in Nat /\ 1 \in 1..(Len(page) + 1) /\ 0 \in 0..Len(page)
    BY <1>1, LenProperties DEF PageTyped
  <1>3. ReaderTyped
    <2>1. held \in Seq(Tokens) /\ \A k \in 1..Len(held) : held[k].ch = " "
      BY <1>1, NothingHeld
    <2>2. buf_offset \in 0..(LuaBuf + 32)
      BY <1>1, ReaderAssumption
    <2>3. {embedded, cur_line_echo} \subseteq BOOLEAN
      BY DEF AtStart
    <2>4. \A k \in DOMAIN held : held[k].ch = " "
      BY <2>1, LenProperties
    <2>5. ReaderTypeOK
      BY <1>1, <2>2, <2>3, <2>4 DEF ReaderTypeOK
    <2> QED
      BY <1>1, <2>1, <2>5 DEF ReaderTyped, PageTyped
  <1> DEFINE one == 1
             none == 0
  <1>4. Unread(page, one, none)
    <2>1. Len(page) = Len(page) + 1 - 1 - 0 /\ \A i \in 1..Len(page) : 1 + i - 1 = i
      BY <1>2
    <2> QED
      BY <2>1 DEF Unread
  <1>5. Chunk(<<>>, NoEcho, one)
    BY NothingChunk
  <1>6. one \in 1..(Len(page) + 1) /\ none \in 0..Len(page) /\ (none # 0 => FALSE)
    BY <1>2
  <1> HIDE DEF one, none
  <1>7. /\ Behind("CHAR1", one) /\ HeldAt("CHAR1", one, <<>>, 0) /\ StartOf("CHAR1", one, <<>>) = one
        /\ Opened("CHAR1", NoEcho) /\ NoEcho \in Begins \cup {NoEcho}
    BY DEF Behind, HeldAt, StartOf, LineEnds, Marked, Opened, EchoOf
  <1>8. Reading(st, unread, held, lua, buf_offset, one, none)
    BY <1>1, <1>4, <1>5, <1>6, <1>7 DEF Reading
  <1> QED
    BY <1>3, <1>6, <1>8 DEF ReaderInv

LEMMA IdleWell ==
    ASSUME ReaderIdle
    PROVE  ReaderInv
  <1>1. /\ page = <<>> /\ unread = <<>> /\ st = "UNDEFINED" /\ buf_offset = 0 /\ held = <<>>
        /\ lua = <<>>
    BY DEF ReaderIdle
  <1>2. <<>> \in Seq(Tokens) /\ Len(<<>>) = 0
    OBVIOUS
  <1>3. PageTyped
    BY <1>1, <1>2 DEF PageTyped
  <1>4. ReaderTyped
    <2>1. held \in Seq(Tokens) /\ \A k \in 1..Len(held) : held[k].ch = " "
      BY <1>1, NothingHeld
    <2>2. buf_offset \in 0..(LuaBuf + 32)
      BY <1>1, ReaderAssumption
    <2>3. {embedded, cur_line_echo} \subseteq BOOLEAN
      BY DEF ReaderIdle
    <2>4. \A k \in DOMAIN held : held[k].ch = " "
      BY <2>1, LenProperties
    <2>5. ReaderTypeOK
      BY <1>1, <2>2, <2>3, <2>4 DEF ReaderTypeOK
    <2> QED
      BY <1>1, <1>2, <1>3, <2>5 DEF ReaderTyped
  <1> DEFINE one == 1
             none == 0
  <1>5. Unread(<<>>, one, none)
    BY <1>1, <1>2 DEF Unread
  <1>6. Chunk(<<>>, NoEcho, one)
    BY NothingChunk
  <1>7. one \in 1..(Len(page) + 1) /\ none \in 0..Len(page) /\ (none # 0 => FALSE) /\ one = Len(page) + 1
    BY <1>1, <1>2
  <1> HIDE DEF one, none
  <1>8. /\ Behind("UNDEFINED", one) /\ HeldAt("UNDEFINED", one, <<>>, 0)
        /\ StartOf("UNDEFINED", one, <<>>) = one
        /\ Opened("UNDEFINED", NoEcho) /\ NoEcho \in Begins \cup {NoEcho}
    BY <1>7, BeginningIs DEF Behind, HeldAt, StartOf, LineEnds, Marked, Opened
  <1>9. Reading(st, unread, held, lua, buf_offset, one, none)
    BY <1>1, <1>5, <1>6, <1>7, <1>8 DEF Reading
  <1> QED
    BY <1>4, <1>7, <1>9 DEF ReaderInv

\* A page of the program, numbered.
LEMMA NumberedPage ==
    ASSUME NEW p \in Pages
    PROVE  /\ Numbered(p) \in Seq(Tokens)
           /\ \A n \in 1..Len(Numbered(p)) : Numbered(p)[n].n = n
  <1>1. p \in Seq(PageBytes) /\ Len(p) \in Nat /\ DOMAIN p = 1..Len(p)
    BY PagesAssumption, LenProperties
  <1>2. \A k \in 1..Len(p) : p[k] \in Chars
    BY <1>1, ElementOfSeq DEF Chars
  <1>3. \A k \in 1..Len(p) : [ch |-> p[k], n |-> k] \in Tokens
    BY <1>1, <1>2 DEF Tokens
  <1>4. Numbered(p) = [k \in 1..Len(p) |-> [ch |-> p[k], n |-> k]]
    BY <1>1 DEF Numbered
  <1>5. Numbered(p) \in Seq(Tokens) /\ Len(Numbered(p)) = Len(p)
    BY <1>1, <1>3, <1>4
  <1> QED
    BY <1>4, <1>5

LEMMA ReaderStarts ==
    ASSUME NEW fromFile \in BOOLEAN, ReaderOpen(fromFile)
    PROVE  ReaderInv'
  <1>1. PageTyped'
    BY NumberedPage DEF ReaderOpen, PageTyped
  <1>2. AtStart'
    BY <1>1 DEF AtStart, ReaderOpen
  <1> QED
    BY <1>2, StartsWell, PTL

LEMMA ReaderEnds ==
    ASSUME ReaderClose
    PROVE  ReaderInv'
  <1>1. ReaderIdle'
    BY DEF ReaderIdle, ReaderClose
  <1> QED
    BY <1>1, IdleWell, PTL

-----------------------------------------------------------------------------
(***************************************************************************)
(* What the invariant says of the chunk.                                   *)
(***************************************************************************)
LEMMA EchoesFromInv == ReaderInv => EchoesEnd
  <1> SUFFICES ASSUME ReaderInv PROVE EchoesEnd
    OBVIOUS
  <1>1. PICK p \in 1..(Len(page) + 1), g \in 0..Len(page) :
          Reading(st, unread, held, lua, buf_offset, p, g)
    BY DEF ReaderInv
  <1>2. PICK o \in Begins \cup {NoEcho} : Chunk(lua, o, StartOf(st, p, held)) /\ Opened(st, o)
    BY <1>1 DEF Reading
  <1>3. lua \in Seq(Tokens) /\ Echoes(lua, o)
    BY <1>2 DEF Chunk
  <1>4. DOMAIN lua = 1..Len(lua)
    BY <1>3, LenProperties
  <1>5. \A k \in DOMAIN lua :
         /\ lua[k] \in Begins => \A b \in Begins : ~Within(lua, b, k)
         /\ lua[k] \in Marks \ Begins => Within(lua, BeginOf(lua[k]), k)
    BY <1>3, <1>4 DEF Echoes, EchoAt
  <1>6. EchoBegin \in Begins /\ VarBegin \in Begins
    BY DEF Begins
  <1>7. (LastOpen(EchoBegin) <=> o = EchoBegin) /\ (LastOpen(VarBegin) <=> o = VarBegin)
    BY <1>3, <1>6 DEF Echoes, LastOpen
  <1>8. ASSUME st # "UNDEFINED"
        PROVE  /\ LastOpen(EchoBegin) <=> st \in {"CHAR2", "CHAR3"}
               /\ LastOpen(VarBegin) <=> st \in {"STMT2", "STMT3"}
    <2>1. o = EchoOf(st)
      BY <1>2, <1>8 DEF Opened
    <2> QED
      BY <1>7, <2>1, BeginningIs DEF EchoOf
  <1>9. ASSUME st = "UNDEFINED", LastOpen(EchoBegin) PROVE Last(page).ch = "<"
    <2>1. Has(Len(page), "<")
      BY <1>2, <1>7, <1>9 DEF Opened
    <2> QED
      BY <2>1 DEF Has, Last
  <1> QED
    BY <1>5, <1>8, <1>9 DEF EchoesEnd

LEMMA QuotesFromInv == ReaderInv => TextIsQuoted
  <1> SUFFICES ASSUME ReaderInv PROVE TextIsQuoted
    OBVIOUS
  <1>1. lua \in Seq(Tokens) /\ Quoted(lua)
    BY DEF ReaderInv, Reading, Chunk
  <1>2. DOMAIN lua = 1..Len(lua)
    BY <1>1, LenProperties
  <1> QED
    BY <1>1, <1>2 DEF Quoted, QuotedAt, TextIsQuoted

LEMMA OrderOfPageFromInv == ReaderInv => PageInOrder
  <1> SUFFICES ASSUME ReaderInv PROVE PageInOrder
    OBVIOUS
  <1>1. PICK p \in 1..(Len(page) + 1), g \in 0..Len(page) :
          Reading(st, unread, held, lua, buf_offset, p, g)
    BY DEF ReaderInv
  <1> DEFINE f == StartOf(st, p, held)
  <1>2. /\ PageTyped /\ page \in Seq(Tokens) /\ unread \in Seq(Tokens) /\ held \in Seq(Tokens)
        /\ lua \in Seq(Tokens) /\ KeptOrder(lua) /\ Accounted(lua, f)
    BY <1>1 DEF ReaderInv, ReaderTyped, PageTyped, Reading, Chunk, Copied
  <1>3. /\ DOMAIN lua = 1..Len(lua) /\ DOMAIN page = 1..Len(page)
        /\ DOMAIN held = 1..Len(held) /\ DOMAIN unread = 1..Len(unread)
    BY <1>2, LenProperties
  <1>4. Len(page) \in Nat /\ Len(held) \in Nat /\ Len(unread) \in Nat
    BY <1>2, LenProperties
  <1>5. /\ Unread(unread, p, g) /\ (g # 0 => Skips(st, p, g)) /\ Behind(st, p)
        /\ HeldAt(st, p, held, buf_offset)
    BY <1>1 DEF Reading
  <1>6. ASSUME NEW n \in 1..Len(page)
        PROVE  \/ (\E u \in Range(lua) : u.n = n) \/ Dropped(n)
               \/ page[n] \in Range(unread) \/ page[n] \in Range(held)
               \/ (st \in Marked /\ n = Len(page) - Len(unread))
    <2>1. CASE n < f
      <3>1. n \in 1..(f - 1)
        <4>1. f \in Int
          BY <1>4 DEF StartOf
        <4> QED
          BY <2>1, <4>1
      <3> QED
        BY <1>2, <1>3, <3>1 DEF Accounted, Range
    <2>2. CASE n >= p
      <3>1. CASE g = 0 \/ n < g
        <4> DEFINE i == n - p + 1
        <4>1. i \in 1..Len(unread) /\ p + i - 1 = n /\ (g = 0 \/ p + i <= g)
          <5>1. Len(unread) = Len(page) + 1 - p - (IF g = 0 THEN 0 ELSE 1)
            BY <1>5 DEF Unread
          <5> QED
            BY <1>4, <2>2, <3>1, <5>1
        <4> HIDE DEF i
        <4>2. unread[i] = page[n]
          BY <1>5, <4>1 DEF Unread
        <4> QED
          BY <1>3, <4>1, <4>2 DEF Range
      <3>2. CASE g # 0 /\ n = g
        BY <1>5, <3>2 DEF Skips, Dropped
      <3>3. CASE g # 0 /\ n > g
        <4> DEFINE i == n - p
        <4>1. i \in 1..Len(unread) /\ p + i = n /\ ~(g = 0 \/ p + i <= g)
          <5>1. Len(unread) = Len(page) + 1 - p - (IF g = 0 THEN 0 ELSE 1) /\ p < g
            BY <1>5, <3>3 DEF Unread, Skips
          <5> QED
            BY <1>4, <2>2, <3>3, <5>1
        <4> HIDE DEF i
        <4>2. unread[i] = page[n]
          BY <1>5, <4>1 DEF Unread
        <4> QED
          BY <1>3, <4>1, <4>2 DEF Range
      <3>4. (g = 0 \/ n < g) \/ (g # 0 /\ n = g) \/ (g # 0 /\ n > g)
        OBVIOUS
      <3> QED
        BY <3>1, <3>2, <3>3, <3>4
    <2>3. CASE n >= f /\ n < p
      <3>1. CASE st \in Marked
        <4>1. g = 0
          BY <1>5, <3>1 DEF Skips, Marked
        <4>2. Len(unread) = Len(page) + 1 - p - 0
          BY <1>5, <4>1 DEF Unread
        <4>3. f = p - 1
          BY <3>1 DEF StartOf
        <4>4. n = Len(page) - Len(unread)
          BY <1>4, <2>3, <4>2, <4>3
        <4> QED
          BY <3>1, <4>4
      <3>2. CASE st \in LineEnds /\ n < f + Len(held)
        <4> DEFINE i == n - f + 1
        <4>1. f \in Int
          BY <1>4 DEF StartOf
        <4> HIDE DEF f
        <4>2. i \in 1..Len(held) /\ f + i - 1 = n
          BY <1>4, <2>3, <3>2, <4>1
        <4> HIDE DEF i
        <4>3. Holds(held, f)
          BY <1>5, <3>2 DEF HeldAt, f
        <4>4. held[i] = page[n]
          BY <4>2, <4>3 DEF Holds
        <4> QED
          BY <1>3, <4>2, <4>4 DEF Range
      <3>3. CASE st \in LineEnds /\ ~(n < f + Len(held))
        <4>1. CASE st = "LF1"
          <5>1. f = p - Len(held)
            BY <4>1 DEF StartOf, Marked
          <5> HIDE DEF f
          <5> QED
            BY <1>4, <2>3, <3>3, <5>1
        <4>2. CASE st = "LF2"
          <5>1. f = p - 1 - Len(held)
            BY <4>2 DEF StartOf, Marked
          <5> HIDE DEF f
          <5>2. n = p - 1
            BY <1>4, <2>3, <3>3, <5>1
          <5>3. Has(p - 1, "\r") /\ BehindTag(p - 1)
            BY <1>5, <4>2 DEF Behind
          <5> QED
            BY <5>2, <5>3 DEF Dropped
        <4> QED
          BY <3>3, <4>1, <4>2 DEF LineEnds
      <3>4. CASE st \notin Marked /\ st \notin LineEnds
        <4>1. f = p
          BY <3>4 DEF StartOf, LineEnds
        <4> QED
          BY <2>3, <4>1
      <3> QED
        BY <3>1, <3>2, <3>3, <3>4
    <2>4. n < f \/ n >= p \/ (n >= f /\ n < p)
      <3>1. f \in Int
        BY <1>4 DEF StartOf
      <3> QED
        BY <3>1
    <2> QED
      BY <2>1, <2>2, <2>3, <2>4
  <1>7. ASSUME NEW t \in Range(page)
        PROVE  \/ (\E u \in Range(lua) : u.n = t.n) \/ Dropped(t.n)
               \/ t \in Range(unread) \/ t \in Range(held) \/ KeptBack(t)
    <2>1. PICK n \in 1..Len(page) : t = page[n]
      BY <1>3 DEF Range
    <2>2. t.n = n
      BY <1>2, <2>1 DEF PageTyped
    <2> QED
      BY <1>6, <2>1, <2>2 DEF KeptBack, Marked
  <1> QED
    BY <1>2, <1>3, <1>7 DEF PageInOrder, KeptOrder
=============================================================================
