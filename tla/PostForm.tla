------------------------------ MODULE PostForm ------------------------------
(***************************************************************************)
(* src/post_wwwform.c: the variables of a form are read out of a buffer    *)
(* that holds one field at least and grows up to a limit; the text behind  *)
(* the cursor is moved to the front before more is received.               *)
(*                                                                         *)
(* The buffer is the text from the cursor on (`rest'), the place of the    *)
(* cursor and the number of bytes the code believes to be in it.  There is *)
(* a 0 byte behind the text; one that was received ends it as well.        *)
(* url_decode is left out: a value has no escapes.                         *)
(***************************************************************************)
EXTENDS Connection

CONSTANTS MinForm,    \* MIN_POST_FORM_BUF_SIZE
          MaxForm     \* MAX_POST_FORM_FIELD_SIZE_KB * 1024

ASSUME FormAssumption == MinForm \in Nat /\ MinForm > 1 /\ MaxForm \in Nat \ {0}

VARIABLES
    rpc, err,                      \* where the reading is; *err
    content_length, bytes_read,    \* of post_info
    buflen, bufbytes,
    rest, pos,                     \* the text at pbuf; pbuf - post_info->buf
    searched,                      \* psearch - pbuf
    EoD,
    post_vars,                     \* of req_info
    bodyApart                      \* the form came after all that was received
                                   \* with the header (read by properties only)

fieldVars == <<content_length, buflen, bufbytes, rest, pos, searched>>
formVars == <<fieldVars, bytes_read, EoD, post_vars, bodyApart>>

NoMemory == "allocation_error"

ReadEnd(e) == rpc' = "read_end" /\ err' = e
Goes(to) == rpc' = to /\ UNCHANGED err

FormInit ==
    /\ content_length = 0 /\ bytes_read = 0 /\ buflen = 0 /\ bufbytes = 0
    /\ rest = <<>> /\ pos = 0 /\ searched = 0 /\ EoD = FALSE /\ post_vars = <<>>
    /\ bodyApart = FALSE

\* There is a 0 at the cursor.
NoText == rest = <<>> \/ At(rest, 1, Nul)

-----------------------------------------------------------------------------
FormStart ==
    /\ rpc = "form"
    /\ EoD' = (bytes_read >= content_length)
    /\ Goes(IF ~EoD' /\ NoText THEN "form_first" ELSE "form_loop")
    /\ UNCHANGED <<connVars, fieldVars, bytes_read, post_vars, bodyApart>>

\* Nothing of the form came with the header, or a 0.  Neither bufbytes nor EoD
\* is updated, and a failure counts as bytes.
FormFirst ==
    /\ rpc = "form_first"
    /\ bodyApart' = TRUE
    /\ \/ \E k \in DOMAIN input :
            /\ Arrive(buflen - 1, k)
            /\ rest' = Segment(k) \o (IF k < Len(rest) THEN <<Nul>> \o From(rest, k + 2) ELSE <<>>)
            /\ bytes_read' = bytes_read + k
            /\ Goes("form_loop")
       \/ /\ Nothing
          /\ ReadEnd("okay")
          /\ UNCHANGED <<rest, bytes_read>>
       \/ \E kind \in Failures :
            /\ RecvFails(kind, "form_first")
            /\ bytes_read' = bytes_read + Rrt[kind]
            /\ Goes("form_loop")
            /\ UNCHANGED rest
    /\ UNCHANGED <<content_length, buflen, bufbytes, pos, searched, EoD, post_vars>>

\* Wrong variant: one byte less than what is left.
BugFilled == IF pos > 0 THEN bufbytes - pos - 1 ELSE bufbytes

\* bufbytes after the text was moved to the front; it is unsigned.
Filled == IF pos > 0 THEN bufbytes - pos ELSE bufbytes

Grown == IF Filled < buflen - 1 THEN buflen ELSE buflen + MinForm

FieldTooLong == Filled >= buflen - 1 /\ buflen >= MaxForm

\* More of a field: received behind what is in the buffer.
FormMore ==
    \/ \* memmove of a negative length
       /\ Filled < 0
       /\ Goes("broken")
       /\ UNCHANGED <<connVars, formVars>>
    \/ /\ Filled >= 0 /\ FieldTooLong
       /\ ReadEnd("field_exceeded")
       /\ UNCHANGED <<connVars, formVars>>
    \/ /\ Filled >= 0 /\ ~FieldTooLong
       /\ \/ \E k \in DOMAIN input :
               /\ Arrive(Grown - 1 - Filled, k)
               /\ rest' = SubSeq(rest, 1, Filled) \o Segment(k)
               /\ bufbytes' = Filled + k
               /\ bytes_read' = bytes_read + k
               /\ EoD' = (bytes_read' >= content_length)
               /\ UNCHANGED <<rpc, err>>
          \/ /\ Nothing
             /\ rest' = SubSeq(rest, 1, Filled)
             /\ bufbytes' = Filled
             /\ UNCHANGED <<rpc, err, bytes_read, EoD>>
          \/ \E kind \in Failures :
               /\ RecvFails(kind, "form")
               /\ ReadEnd(IF kind = "timeout" THEN "socket_timeout" ELSE "socket_err")
               /\ UNCHANGED <<rest, bufbytes, bytes_read, EoD>>
       /\ pos' = 0 /\ buflen' = Grown /\ searched' = Filled
       /\ UNCHANGED <<content_length, post_vars, bodyApart>>

\* Wrong variant: the cursor is at what ended the text.
BugAdvance(p) ==
    /\ rest' = From(rest, p)
    /\ pos' = pos + p - 1 /\ searched' = 0

\* The text at the cursor up to place p ends, and the cursor is behind it.
Advance(p) ==
    /\ rest' = From(rest, p + 1)
    /\ pos' = pos + p /\ searched' = 0

\* Where strchr finds c from psearch on.
Found(c) ==
    LET p == StrChr(From(rest, searched + 1), c) IN IF p = 0 THEN 0 ELSE searched + p

FormKey ==
    /\ rpc = "form_key"
    /\ LET p == Found(EQUAL) IN
         \/ p = 0 /\ ~EoD /\ FormMore
         \/ /\ p = 0 /\ EoD
            /\ ReadEnd("field_exceeded")
            /\ UNCHANGED <<connVars, formVars>>
         \/ /\ p = 1
            /\ ReadEnd("malformed")
            /\ UNCHANGED <<connVars, formVars>>
         \/ /\ p > 1
            /\ post_vars' = Append(post_vars, [key |-> CString(SubSeq(rest, 1, p - 1)), value |-> NoValue])
            /\ Advance(p)
            /\ Goes("form_value")
            /\ UNCHANGED <<connVars, content_length, bytes_read, buflen, bufbytes, EoD, bodyApart>>

FormValue ==
    /\ rpc = "form_value"
    /\ LET p == Found(AMP)
           Value(v) == post_vars' = [post_vars EXCEPT ![Len(post_vars)].value = v]
       IN
         \/ p = 0 /\ ~EoD /\ FormMore
         \/ /\ p = 0 /\ EoD
            /\ Value(CString(rest))
            /\ rest' = <<>> /\ pos' = bufbytes /\ searched' = 0
            /\ Goes("form_loop")
            /\ UNCHANGED <<connVars, content_length, bytes_read, buflen, bufbytes, EoD, bodyApart>>
         \/ /\ p > 0
            /\ Value(CString(SubSeq(rest, 1, p - 1)))
            /\ Advance(p)
            /\ Goes("form_loop")
            /\ UNCHANGED <<connVars, content_length, bytes_read, buflen, bufbytes, EoD, bodyApart>>

\* An item, a key, a value or a larger buffer cannot be allocated.
FormNoMemory ==
    /\ \/ rpc = "form_key" /\ Found(EQUAL) > 1
       \/ rpc = "form_value" /\ (EoD \/ Found(AMP) > 0)
       \/ /\ rpc \in {"form_key", "form_value"} /\ ~EoD
          /\ Found(IF rpc = "form_key" THEN EQUAL ELSE AMP) = 0
          /\ Filled >= buflen - 1 /\ ~FieldTooLong
    /\ ReadEnd(NoMemory)
    /\ UNCHANGED <<connVars, formVars>>

\* The loop ends when there is no text at the cursor.
FormLoop ==
    /\ rpc = "form_loop"
    /\ Goes(IF NoText THEN "form_rest" ELSE "form_key")
    /\ UNCHANGED <<connVars, formVars>>

\* Wrong variant: a timeout ends the form in place of the request.
BugFormRest ==
    /\ rpc = "form_rest" /\ ~EoD /\ bytes_read < content_length
    /\ \/ \E k \in DOMAIN input :
            /\ Arrive(buflen, k)
            /\ bytes_read' = bytes_read + k
            /\ UNCHANGED <<rpc, err>>
       \/ Nothing /\ UNCHANGED <<rpc, err, bytes_read>>
       \/ \E kind \in Failures :
            /\ RecvFails(kind, "form")
            /\ ReadEnd(IF kind = "timeout" THEN "okay" ELSE "socket_err")
            /\ UNCHANGED bytes_read
    /\ UNCHANGED <<fieldVars, EoD, post_vars, bodyApart>>

\* The rest of the data is received and forgotten.
FormRest ==
    /\ rpc = "form_rest" /\ ~EoD /\ bytes_read < content_length
    /\ \/ \E k \in DOMAIN input :
            /\ Arrive(buflen, k)
            /\ bytes_read' = bytes_read + k
            /\ UNCHANGED <<rpc, err>>
       \/ Nothing /\ UNCHANGED <<rpc, err, bytes_read>>
       \/ \E kind \in Failures :
            /\ RecvFails(kind, "form")
            /\ ReadEnd(IF kind = "timeout" THEN "socket_timeout" ELSE "socket_err")
            /\ UNCHANGED bytes_read
    /\ UNCHANGED <<fieldVars, EoD, post_vars, bodyApart>>

FormEnd ==
    /\ rpc = "form_rest" /\ (EoD \/ bytes_read >= content_length)
    /\ ReadEnd("okay")
    /\ UNCHANGED <<connVars, formVars>>

FormStep ==
    \/ FormStart \/ FormFirst \/ FormKey \/ FormValue \/ FormNoMemory
    \/ FormLoop \/ FormRest \/ FormEnd

-----------------------------------------------------------------------------
\* Wrong variant: 0 bytes from a closed connection are taken for progress.
BugThrowAway(room) ==
    /\ rpc = "throw_away"
    /\ \/ /\ bytes_read < content_length
          /\ \/ \E k \in DOMAIN input :
                  /\ Arrive(room, k)
                  /\ bytes_read' = bytes_read + k
                  /\ UNCHANGED rpc
             \/ Nothing /\ UNCHANGED <<rpc, bytes_read>>
             \/ \E kind \in Failures :
                  RecvFails(kind, "drain") /\ rpc' = "read" /\ UNCHANGED bytes_read
       \/ bytes_read >= content_length /\ rpc' = "read" /\ UNCHANGED <<connVars, bytes_read>>
    /\ UNCHANGED <<err, fieldVars, EoD, post_vars, bodyApart>>

\* http_request_recv_post_and_throw_away
ThrowAway(room) ==
    /\ rpc = "throw_away"
    /\ \/ /\ bytes_read < content_length
          /\ \/ \E k \in DOMAIN input :
                  /\ Arrive(room, k)
                  /\ bytes_read' = bytes_read + k
                  /\ UNCHANGED rpc
             \/ Nothing /\ rpc' = "read" /\ UNCHANGED bytes_read
             \/ \E kind \in Failures :
                  RecvFails(kind, "drain") /\ rpc' = "read" /\ UNCHANGED bytes_read
       \/ bytes_read >= content_length /\ rpc' = "read" /\ UNCHANGED <<connVars, bytes_read>>
    /\ UNCHANGED <<err, fieldVars, EoD, post_vars, bodyApart>>
=============================================================================
