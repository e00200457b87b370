---------------------------- MODULE MCWebThread -----------------------------
(***************************************************************************)
(* One web thread.  Requests: each method, header lines that fit into the  *)
(* buffer or not or have no colon, a request line with no version, URLs    *)
(* with variables, cookies, each header of a POST that is wrong or         *)
(* missing, forms that fit, fill the buffer exactly, make it grow or are   *)
(* too long, and a body that is shorter than was said.  Pages: all         *)
(* sequences of three pieces, and of two before an end in the middle of a  *)
(* tag.  Replies: a buffer of two bytes, strings of up to three, so that a *)
(* string fits, fills the buffer exactly or is cut, and headers of up to   *)
(* three.                                                                  *)
(***************************************************************************)
EXTENDS WebThread

\* A byte, or a word that is one.
MCAlphabet == STRING

With(k, v) == [key |-> k, value |-> v]
H(k, v) == With(<<k>>, v)
Long(n) == [k \in 1..n |-> "x"]

Request(m, u, v, h) ==
    [method |-> m, url |-> u, vars |-> <<>>, version |-> v, headers |-> h, cookies |-> <<>>, form |-> <<>>]
Get(u, h) == Request(<<"G","E","T">>, u, <<"1.1">>, h)
GetVars(u, v, h) == [Get(u, h) EXCEPT !.vars = v]
Posts(h, f) == [Request(<<"P","O","S","T">>, <<"/">>, <<"1.1">>, h) EXCEPT !.form = f]

Host == H("Host", <<"h">>)
Form == H("Content-Type", <<"form">>)
Length(v) == H("Content-Length", v)
TwoVars == <<With(<<"a">>, <<"1">>), With(<<"b">>, <<"2">>)>>

MCRequests ==
    { Get(<<"/", "x">>, <<Host, H("A", <<"b">>)>>),
      Request(<<"G","E","T">>, <<"/", "x">>, <<>>, <<Host>>),
      Request(<<"G","E","T">>, <<"x">>, <<>>, <<>>),
      Request(<<"P","U","T">>, <<"/">>, <<"1.0">>, <<Host>>),
      Get(<<"/">> \o Long(LineBuf), <<>>),
      Get(<<"/">>, <<H("A", NoValue), Host>>),
      Get(<<"/">>, <<H("A", Long(LineBuf)), Host>>),
      GetVars(<<"/">>, TwoVars, <<>>),
      GetVars(<<"/", "x">>, <<With(<<"a">>, NoValue), With(<<"b">>, NoValue)>>, <<>>),
      GetVars(<<"/">> \o Long(5), <<With(<<"a">>, NoValue)>>, <<H("&", <<"b">>)>>),
      [Get(<<"/">>, <<Host>>) EXCEPT !.cookies = TwoVars],
      Posts(<<Length(<<"7">>), Form>>, TwoVars),
      Posts(<<Length(<<"9">>), Form>>, TwoVars),
      Posts(<<Length(<<"1", "1">>), Form>>, <<With(<<"a">>, Long(9))>>),
      Posts(<<Length(<<"1", "5">>), Form>>, <<With(<<"a">>, Long(7)), With(<<"b", "c">>, Long(2))>>),
      Posts(<<Length(<<"3">>), Form>>, <<With(<<>>, <<"1", "2">>)>>),
      Posts(<<Form>>, TwoVars),
      Posts(<<H("Transfer-Encoding", <<"chunked">>), Form>>, TwoVars),
      Posts(<<H("Transfer-Encoding", <<"gzip">>), Form>>, TwoVars),
      Posts(<<Length(<<"7">>), H("Content-Type", <<"multipart", "boundary">>)>>, TwoVars),
      Posts(<<Length(<<"7">>), H("Content-Type", <<"multipart">>)>>, TwoVars),
      Posts(<<Length(<<"7">>), H("Content-Type", <<"other">>)>>, TwoVars),
      Posts(<<Length(<<"7">>)>>, TwoVars),
      Get(<<"/">>, <<H("A", <<"b", Nul, "c">>), Host>>),
      Posts(<<Length(<<"7">>), Form, With(<<Nul>>, <<"b">>)>>, TwoVars),
      Posts(<<Length(<<"8">>), Form>>, <<With(<<"a">>, <<"1", Nul>>), With(<<"b">>, <<"2">>)>>) }

PagePieces ==
    { <<"x">>, <<"<">>, <<"'">>, <<"\\">>, <<Control>>, <<" ">>, <<"\n">>, <<"\r", "\n">>, <<"\r">>,
      <<"<", "?", "s", "?", ">">>, <<"<", "?", "=", "s", "?", ">">>, <<"<", "?", "#", "c", "?", ">">>,
      <<"<", "?", "?", "s", "?", "?", ">">> }
Ends == { <<"<">>, <<"<", "?">>, <<"<", "?", "s">>, <<"<", "?", "=", "s">>, <<"<", "?", "#", "c">> }
MCPages ==
    {FlattenSeq(q) : q \in BoundedSeq(PagePieces, 3)}
    \cup {FlattenSeq(q) \o e : q \in BoundedSeq(PagePieces, 2), e \in Ends}
=============================================================================
