----------------------------- MODULE WebThread ------------------------------
(***************************************************************************)
(* A web thread from its first recv to closesocket (webthread of           *)
(* src/webthread.c): the request is read (HttpRequest), then answered      *)
(* (Reply), and lua_load of a page reads it through the reader             *)
(* (LuaspReader).  One thread runs, so a step is a step of one of them.    *)
(*                                                                         *)
(* What nothing looks at any more is dropped: the request when the way of  *)
(* its answer is chosen, a page and its chunk when the page is loaded.     *)
(***************************************************************************)
EXTENDS HttpRequest, Reply, LuaspReader

threadVars == <<reqVars, vars, readerVars>>

ThreadInit == RequestInit /\ Init /\ http_1_1 = FALSE /\ ReaderIdle

-----------------------------------------------------------------------------
Read == ReadStep /\ UNCHANGED <<vars, readerVars>>

\* From now on headers have the version of the request.
RequestRead ==
    /\ rpc = "read" /\ rpc' = "done"
    /\ http_1_1' = (version = "1.1")
    /\ UNCHANGED <<connVars, err, formVars, lineVars, bufVars, pc, ret, after,
                   headers_sent, fp, stream_out, noLua, headerVars, readerVars>>

Drop ==
    /\ sent' = CHOOSE r \in Requests : TRUE
    /\ input' = <<>> /\ closed' = FALSE /\ fault' = "none" /\ err' = "okay"
    /\ content_length' = 0 /\ bytes_read' = 0 /\ buflen' = 0 /\ bufbytes' = 0
    /\ rest' = <<>> /\ pos' = 0 /\ searched' = 0 /\ EoD' = FALSE /\ post_vars' = <<>> /\ bodyApart' = FALSE
    /\ method' = Unknown /\ version' = "1.0" /\ get_vars' = <<>>
    /\ lines' = <<>> /\ cookie_info' = <<>>
    /\ post' = FALSE /\ te_chunked' = FALSE /\ crApart' = FALSE /\ headerCut' = FALSE

\* An error, or a file that is not there; a method that is not served; or
\* what the request names.
Answer ==
    /\ rpc = "done" /\ rpc' = "answered"
    /\ LET served == method \in {<<"G","E","T">>, <<"P","O","S","T">>} IN
         \/ ReplyError
         \/ err = "okay" /\ ~served /\ MethodNotAllowed
         \/ err = "okay" /\ served /\ (StartPage \/ EmbeddedHeader \/ OpenFile)
    /\ Drop
    /\ UNCHANGED readerVars

Send == rpc = "answered" /\ SendStep /\ UNCHANGED <<reqVars, readerVars>>

-----------------------------------------------------------------------------
OpenForReader == OpenPage /\ ReaderOpen(fp') /\ UNCHANGED reqVars

\* Before the first call of the reader.
NoState ==
    /\ st = "CHAR1" /\ unread = page
    /\ NoLuaState
    /\ ReaderClose /\ UNCHANGED reqVars

ReaderRuns == pc = "luasp_state" /\ ReaderStep /\ UNCHANGED <<reqVars, vars>>

\* lua_load fails anywhere in the chunk, or works at its end.
Loaded ==
    /\ LoadPage
    /\ pc' = "page" => ReaderDone
    /\ ReaderClose /\ UNCHANGED reqVars

Load == OpenForReader \/ NoState \/ ReaderRuns \/ Loaded

ThreadNext == Read \/ RequestRead \/ Answer \/ Send \/ Load

\* A call of recv ends: after a timeout, but for the first one, which waits
\* for ever; once the client has closed it gives 0, and never has to fail.
\* The processor's time is shared by the threads.  lua_load reads
\* on until it has an error, which nothing promises, or the end of the chunk.
Fairness ==
    /\ WF_threadVars(rpc # "first" /\ Read /\ (closed => fault' = fault))
    /\ WF_threadVars(ReaderRuns) /\ WF_threadVars(Loaded /\ pc' = "page")

ThreadSpec == ThreadInit /\ [][ThreadNext]_threadVars /\ Fairness

-----------------------------------------------------------------------------
(***************************************************************************)
(* Properties of the whole; the others are in the parts                    *)
(***************************************************************************)
\* The types of the parts: no buffer ever holds more than its size.
ThreadTypeOK == RequestTypeOK /\ TypeOK /\ ReaderTypeOK

\* Once the client has sent something, the reading of its request ends: each
\* wait has a timeout, and a closed connection is noticed, but for one that
\* is closed in the middle of a form (post_wwwform.c:77, 139 and 175 count 0
\* bytes and go on).
InForm == rpc \in {"form_key", "form_value", "form_rest"}
ReadingEnds == rpc \in {"more", "line"} ~> rpc \in {"read", "broken"} \/ (closed /\ InForm)

\* Reading a page ends, however often the reader steps back.
PageLoads == pc = "luasp_state" ~> pc # "luasp_state"
=============================================================================
