-------------------------- MODULE MCThreadRegister --------------------------
(***************************************************************************)
(* The thread register with three web threads, one for each of the places  *)
(* that matter at once: registering, serving and unregistering; two looks  *)
(* at the count, so that webthread_free can see a thread leave and can     *)
(* give up.                                                                *)
(***************************************************************************)
EXTENDS ThreadRegister

CONSTANTS t1, t2, t3

MCThreads == {t1, t2, t3}

FairRegSpec == RegSpec /\ RegFairness
=============================================================================
