------------------------------ MODULE MCRWLock ------------------------------
(***************************************************************************)
(* RWLock on three threads: a writer, a reader and one to compete with     *)
(* either.  Two read locks, so that a write function's loop can stop       *)
(* between its first and its last token.                                   *)
(***************************************************************************)
EXTENDS RWLock

CONSTANTS t1, t2, t3

MCThreads == {t1, t2, t3}
=============================================================================
