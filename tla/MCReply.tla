------------------------------ MODULE MCReply -------------------------------
(***************************************************************************)
(* Replies with a buffer of two bytes, strings of up to three, so that a   *)
(* string fits, fills the buffer exactly or is cut, and headers of up to   *)
(* three bytes: one that does not fit is the last case.                    *)
(***************************************************************************)
EXTENDS Reply
=============================================================================
