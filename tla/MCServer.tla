------------------------------ MODULE MCServer ------------------------------
(***************************************************************************)
(* The server with two web threads and four descriptors: the listeners,    *)
(* then two connections, or a connection and a file, so that the table     *)
(* also fills up and a closed listener's number is given out again.        *)
(* MCServerShutdown has one web thread and follows it to the end.          *)
(***************************************************************************)
EXTENDS Server, TLC

CONSTANTS t1, t2

MCThreads == {t1, t2}
OneThread == {t1}

Symmetry == Permutations(MCThreads)
=============================================================================
