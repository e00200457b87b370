---------------------------- MODULE LuaspReader -----------------------------
(***************************************************************************)
(* src/luasp_reader.c: a page is turned into a Lua chunk.  Text becomes    *)
(* calls of echo, <? ... ?> is code, <?= ... ?> echoes a value, <?# ... ?> *)
(* is a comment, and white space and a line end behind ?> are dropped.     *)
(* lua_load asks for the chunk block by block.                             *)
(*                                                                         *)
(* The two readers of the source differ in how they step back only: in a   *)
(* file bytes are pushed back, in an embedded page the pointer moves.      *)
(***************************************************************************)
EXTENDS Integers, Sequences, SequencesExt

CONSTANTS Pages,       \* the pages, as sequences of bytes
          LuaBuf       \* LUASP_BUFLEN

\* The bytes of the pages.
PageBytes == UNION {Range(p) : p \in Pages}

ASSUME ReaderAssumption == LuaBuf \in Nat \ {0}

\* A page is a sequence of bytes.
ASSUME PagesAssumption == \A p \in Pages : p \in Seq(PageBytes)

VARIABLES
    page, embedded,    \* the page, numbered; it is not a file
    unread,            \* what is left of it
    st, cur_line_echo, \* of luasp_state_t
    buf_offset,
    held,              \* the white space whitespace_count counts
    lua                \* the chunk: all blocks up to now

readerVars == <<page, embedded, unread, st, cur_line_echo, buf_offset, held, lua>>

Mark(m) == [ch |-> m, n |-> 0]
EchoBegin == Mark("echo('")     EchoEnd == Mark("')")
VarBegin == Mark("echo(")       VarEnd == Mark(")")
Backslash == Mark("\\")         Blank == Mark(" ")

\* What is put into a block: a mark comes first, and the rest are bytes.
Width(text) ==
    CASE text = <<>> -> 0
      [] text # <<>> /\ text[1] = EchoBegin -> Len(text) + 5
      [] text # <<>> /\ text[1] = VarBegin -> Len(text) + 4
      [] text # <<>> /\ text[1] = EchoEnd -> Len(text) + 1
      [] OTHER -> Len(text)

Numbered(p) == [k \in DOMAIN p |-> [ch |-> p[k], n |-> k]]

ReaderIdle ==
    /\ page = <<>> /\ embedded = FALSE /\ unread = <<>> /\ st = "UNDEFINED"
    /\ cur_line_echo = FALSE /\ buf_offset = 0 /\ held = <<>> /\ lua = <<>>

\* The page and its chunk are dropped.
ReaderClose ==
    /\ page' = <<>> /\ embedded' = FALSE /\ unread' = <<>> /\ st' = "UNDEFINED"
    /\ cur_line_echo' = FALSE /\ buf_offset' = 0 /\ held' = <<>> /\ lua' = <<>>

\* luasp_state_init, with a page to read.
ReaderOpen(fromFile) ==
    /\ \E p \in Pages : page' = Numbered(p)
    /\ unread' = page'
    /\ embedded' = ~fromFile
    /\ st' = "CHAR1" /\ cur_line_echo' = FALSE
    /\ buf_offset' = 0 /\ held' = <<>> /\ lua' = <<>>

-----------------------------------------------------------------------------
byte == Head(unread)
Is(c) == byte.ch = c

\* The block has room and there is a byte, in one of these states.
Reads(states) == st \in states /\ buf_offset < LuaBuf /\ unread # <<>>

Emit(text) ==
    /\ lua' = lua \o text
    /\ buf_offset' = buf_offset + Width(text)

\* Behind the switch: a line feed ends the line.
Line(echo) == cur_line_echo' = (~Is("\n") /\ echo)

\* The byte is taken: the next state, and what goes to the block.
To(next, text, echo) ==
    /\ st' = next
    /\ Emit(text)
    /\ Line(echo)
    /\ unread' = Tail(unread)
    /\ UNCHANGED <<page, embedded, held>>

Markup(next, text) == To(next, text, cur_line_echo)

\* lsp_char_lookup: what gets a backslash in a string (\a, \b and \v are one
\* byte), and what is shown of it; a line feed stays one, so that the lines of
\* the chunk are those of the page.  Control stands for the control characters
\* that have no escape.
Control == "\\x"
Escapes == {"\n", "\r", "\t", "\f", "\\a", "\\b", "\\v", "'", "\"", "\\"}
Shown(c) ==
    CASE c = "\r" -> "r" [] c = "\t" -> "t" [] c = "\f" -> "f"
      [] c = "\\a" -> "a" [] c = "\\b" -> "b" [] c = "\\v" -> "v"
      [] c = Control -> "."
      [] OTHER -> c

\* _lsp_add_char
Escaped ==
    (IF byte.ch \in Escapes THEN <<Backslash>> ELSE <<>>) \o <<[byte EXCEPT !.ch = Shown(@)]>>

\* The byte before, which was kept back.
Before(c) == [ch |-> c, n |-> byte.n - 1]

\* Wrong variant: no new echo is begun for a line feed.
BugText ==
    /\ Reads({"CHAR1", "CHAR2"})
    /\ IF Is("<") THEN Markup(IF st = "CHAR1" THEN "CHAR4" ELSE "CHAR3", <<>>)
       ELSE To("CHAR2", (IF st = "CHAR1" /\ ~Is("\n") THEN <<EchoBegin>> ELSE <<>>) \o Escaped, TRUE)

Text ==
    /\ Reads({"CHAR1", "CHAR2"})
    /\ IF Is("<") THEN Markup(IF st = "CHAR1" THEN "CHAR4" ELSE "CHAR3", <<>>)
       ELSE To("CHAR2", (IF st = "CHAR1" THEN <<EchoBegin>> ELSE <<>>) \o Escaped, TRUE)

\* Wrong variant: the echo is not ended.
BugTagOrText ==
    /\ Reads({"CHAR3", "CHAR4"})
    /\ IF Is("?") THEN Markup("STMT1", <<>>)
       ELSE To("CHAR2", (IF st = "CHAR4" THEN <<EchoBegin>> ELSE <<>>) \o <<Before("<")>> \o Escaped, TRUE)

\* Behind a '<', in an echo or not.
TagOrText ==
    /\ Reads({"CHAR3", "CHAR4"})
    /\ IF Is("?") THEN Markup("STMT1", IF st = "CHAR3" THEN <<EchoEnd>> ELSE <<>>)
       ELSE To("CHAR2", (IF st = "CHAR4" THEN <<EchoBegin>> ELSE <<>>) \o <<Before("<")>> \o Escaped, TRUE)

TagStart ==
    /\ Reads({"STMT1"})
    /\ IF Is("=") THEN Markup("STMT2", <<VarBegin>>)
       ELSE IF Is("#") THEN Markup("COMMENT1", <<>>)
       ELSE Markup("STMT12", <<byte>>)

Code ==
    /\ Reads({"STMT2", "STMT12"})
    /\ IF Is("?") THEN Markup(IF st = "STMT2" THEN "STMT3" ELSE "STMT13", <<>>)
       ELSE Markup(st, <<byte>>)

\* Behind a '?' in code.
CodeEnd ==
    /\ Reads({"STMT3", "STMT13"})
    /\ IF Is(">") THEN Markup("LF1", <<IF st = "STMT3" THEN VarEnd ELSE Blank>>)
       ELSE IF Is("?") THEN Markup(st, <<Before("?")>>)
       ELSE Markup(IF st = "STMT3" THEN "STMT2" ELSE "STMT12", <<Before("?"), byte>>)

Comment ==
    /\ Reads({"COMMENT1", "COMMENT2"})
    /\ Markup(IF st = "COMMENT1" THEN IF Is("?") THEN "COMMENT2" ELSE "COMMENT1"
              ELSE IF Is(">") THEN "LF1" ELSE IF Is("?") THEN "COMMENT2" ELSE "COMMENT1", <<>>)

\* Wrong variant: the white space is not put back.
BugStepBack == unread

\* The byte and the white space before it are put back; in an embedded page
\* the pointer goes back by as many bytes.
StepBack ==
    IF embedded THEN SubSeq(page, Len(page) - Len(unread) - Len(held) + 1, Len(page))
    ELSE held \o unread

\* Behind ?>, and behind ?> and a carriage return.
LineEnd ==
    /\ Reads({"LF1", "LF2"})
    /\ \/ st = "LF1" /\ Is("\r") /\ Markup("LF2", <<>>)
       \/ /\ st = "LF1" /\ Is(" ")
          /\ held' = Append(held, byte) /\ unread' = Tail(unread)
          /\ UNCHANGED <<page, embedded, st, cur_line_echo, buf_offset, lua>>
       \/ \* the line ends; its end is read again if there is output in it
          /\ Is("\n")
          /\ st' = "CHAR1" /\ held' = <<>>
          /\ Emit(<<byte>>) /\ Line(FALSE)
          /\ unread' = IF cur_line_echo THEN unread ELSE Tail(unread)
          /\ UNCHANGED <<page, embedded>>

\* ... anything else is read again, as text.
Other == Reads({"LF1", "LF2"}) /\ ~Is("\n") /\ (st = "LF1" => ~Is("\r") /\ ~Is(" "))

\* Wrong variant: it is still taken for the end of a line.
BugNoLineEnd ==
    /\ Other
    /\ held' = <<>> /\ unread' = StepBack
    /\ UNCHANGED <<page, embedded, st, cur_line_echo, buf_offset, lua>>

NoLineEnd ==
    /\ Other
    /\ st' = "CHAR1"
    /\ held' = <<>> /\ unread' = StepBack
    /\ UNCHANGED <<page, embedded, cur_line_echo, buf_offset, lua>>

EndOfPage ==
    /\ st # "UNDEFINED" /\ buf_offset < LuaBuf /\ unread = <<>>
    /\ st' = "UNDEFINED"
    /\ Emit(IF st = "CHAR2" THEN <<EchoEnd>> ELSE <<>>)
    /\ UNCHANGED <<page, embedded, unread, cur_line_echo, held>>

\* The block is returned, and lua_load asks for the next one.
NextBlock ==
    /\ buf_offset >= LuaBuf \/ (st = "UNDEFINED" /\ buf_offset > 0)
    /\ buf_offset' = 0 /\ held' = <<>>
    /\ UNCHANGED <<page, embedded, unread, st, cur_line_echo, lua>>

\* An empty block: the end of the chunk.
ReaderDone == st = "UNDEFINED" /\ buf_offset = 0

ReaderStep ==
    \/ Text \/ TagOrText \/ TagStart \/ Code \/ CodeEnd \/ Comment \/ LineEnd \/ NoLineEnd
    \/ EndOfPage \/ NextBlock

-----------------------------------------------------------------------------
(***************************************************************************)
(* Properties                                                              *)
(***************************************************************************)
\* A block is never longer than the 32 bytes behind LUASP_BUFLEN allow.
ReaderTypeOK ==
    /\ st \in { "UNDEFINED", "CHAR1", "CHAR2", "CHAR3", "CHAR4", "STMT1", "STMT2", "STMT3", "STMT12",
                "STMT13", "COMMENT1", "COMMENT2", "LF1", "LF2" }
    /\ {embedded, cur_line_echo} \subseteq BOOLEAN
    /\ buf_offset \in 0..(LuaBuf + 32)
    /\ \A k \in DOMAIN held : held[k].ch = " "

Begins == {EchoBegin, VarBegin}
Marks == Begins \cup {EchoEnd, VarEnd}
BeginOf(m) == IF m = EchoEnd THEN EchoBegin ELSE VarBegin

\* Of the marks in s before place k, b is the last.
Within(s, b, k) ==
    \E j \in 1..(k - 1) : s[j] = b /\ \A m \in (j + 1)..(k - 1) : s[m] \notin Marks
LastOpen(b) == Within(lua, b, Len(lua) + 1)

\* Every echo that is begun is ended before the next one, wherever a page
\* ends and wherever a block does; only a page that ends with a '<' behind
\* text, or in a tag, leaves one open (luasp_reader.c:160 does nothing).
EchoesEnd ==
    /\ \A k \in DOMAIN lua :
         /\ lua[k] \in Begins => \A b \in Begins : ~Within(lua, b, k)
         /\ lua[k] \in Marks \ Begins => Within(lua, BeginOf(lua[k]), k)
    /\ st # "UNDEFINED" =>
         /\ LastOpen(EchoBegin) <=> st \in {"CHAR2", "CHAR3"}
         /\ LastOpen(VarBegin) <=> st \in {"STMT2", "STMT3"}
    /\ st = "UNDEFINED" /\ LastOpen(EchoBegin) => Last(page).ch = "<"

\* Byte n of the page is c; a tag begins or ends with it.
Has(n, c) == n \in DOMAIN page /\ page[n].ch = c
TagBegins(n) == Has(n, "<") /\ Has(n + 1, "?")
TagEnds(n) == Has(n, "?") /\ Has(n + 1, ">")

\* Byte n is behind a <? (behind a <?#) and no ?> is between them; the byte
\* behind <? is not the '?' of one.
InTag(n) == \E i \in 1..(n - 2) : TagBegins(i) /\ \A j \in (i + 3)..(n - 2) : ~TagEnds(j)
InComment(n) ==
    \E i \in 1..(n - 3) : TagBegins(i) /\ Has(i + 2, "#") /\ \A j \in (i + 3)..(n - 2) : ~TagEnds(j)

\* Between byte n and a ?> before it are blanks, if anything; behind it are
\* blanks up to the end of the line or the page.
BehindTag(n) == \E j \in 1..(n - 2) : TagEnds(j) /\ \A k \in (j + 2)..(n - 1) : Has(k, " ")
LineEndsBehind(n) ==
    \A k \in n..Len(page) : Has(k, " ") \/ \E j \in n..k : Has(j, "\n") \/ Has(j, "\r")

\* The bytes of a page that are not in its chunk: of tags and comments, and
\* white space behind a tag.
Dropped(n) ==
    \/ InComment(n)
    \/ Has(n, "<") /\ (n = Len(page) \/ Has(n + 1, "?"))
    \/ Has(n, "?") /\ (n = Len(page) \/ Has(n - 1, "<") \/ Has(n + 1, ">"))
    \/ Has(n, ">") /\ Has(n - 1, "?")
    \/ (Has(n, "=") \/ Has(n, "#")) /\ TagBegins(n - 2)
    \/ Has(n, " ") /\ BehindTag(n) /\ LineEndsBehind(n)
    \/ Has(n, "\r") /\ BehindTag(n)

\* The byte before the next one is not in the chunk yet.
KeptBack(t) == st \in {"CHAR3", "CHAR4", "STMT3", "STMT13"} /\ t.n = Len(page) - Len(unread)

\* The chunk has the bytes of the page in their order, none twice but a line
\* feed behind a tag, and none is lost that was read: stepping back neither
\* drops nor reverses what was read ahead, in whatever block.
PageInOrder ==
    /\ \A j, k \in DOMAIN lua : j < k /\ lua[j].n > 0 /\ lua[k].n > 0 =>
         lua[j].n < lua[k].n \/ (lua[j] = lua[k] /\ lua[k].ch = "\n")
    /\ \A t \in Range(page) :
         \/ (\E u \in Range(lua) : u.n = t.n) \/ Dropped(t.n)
         \/ t \in Range(unread) \/ t \in Range(held) \/ KeptBack(t)

\* Text is never code: a byte of the page is in the string of an echo, or in
\* a tag, or it is a line feed; and one that would end a string, break its
\* line or take the meaning of what follows has a backslash.  Code goes out as
\* it is, a string as the table has it.
TextIsQuoted ==
    \A k \in DOMAIN lua : lua[k].n > 0 =>
        LET c == page[lua[k].n].ch
            text == Within(lua, EchoBegin, k)
        IN  /\ text \/ InTag(lua[k].n) \/ c = "\n"
            /\ text /\ c \in Escapes => lua[k - 1] = Backslash
            /\ lua[k].ch = IF text THEN Shown(c) ELSE c
=============================================================================
