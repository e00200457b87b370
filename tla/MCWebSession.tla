---------------------------- MODULE MCWebSession ----------------------------
(***************************************************************************)
(* Two web threads and two sessions in two units of time: a session is     *)
(* valid in the unit it was started or used in and invalid in the next, so *)
(* that a thread that took the time in the first unit meets one that took  *)
(* it in the second; two session_starts without an invalid session force a *)
(* clean-up.                                                               *)
(***************************************************************************)
EXTENDS WebSession, TLC

CONSTANTS t1, t2, n1, n2

MCThreads == {t1, t2}
MCNodes == {n1, n2}
Symmetry == Permutations(MCThreads) \cup Permutations(MCNodes)
=============================================================================
