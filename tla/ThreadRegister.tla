--------------------------- MODULE ThreadRegister ---------------------------
(***************************************************************************)
(* The register of running web threads (src/webthread.c): a list of        *)
(* threads and a count of them, each with a mutex of its own, shared by    *)
(* the web threads and by the main thread, which frees the register when   *)
(* the server shuts down.                                                  *)
(*                                                                         *)
(* One action is one mutex operation with the reads and writes of shared   *)
(* data that follow it under the mutex.  A web thread locks the list and   *)
(* then the count; webthread_free locks the count and then the list.       *)
(*                                                                         *)
(* The register is memory that webthread_free gives back.  A thread that   *)
(* uses it afterwards has no defined behaviour: the model stops the        *)
(* program there (`crashed').                                              *)
(***************************************************************************)
EXTENDS Integers, FiniteSets

CONSTANTS Threads,    \* the web threads that can exist at the same time
          MaxTries,   \* the 30 times webthread_free looks at the count
          NoOne       \* an unlocked mutex belongs to NoOne

Main == "main"   \* the main thread, as the owner of a mutex

ASSUME ThreadRegisterAssumption ==
    /\ IsFiniteSet(Threads)
    /\ MaxTries \in Nat \ {0}
    /\ NoOne \notin Threads \cup {Main}
    /\ Main \notin Threads

VARIABLES
    mutex_threadlist,    \* owner of the mutex of the list
    mutex_threadcount,   \* owner of the mutex of the count
    threads,             \* the threads in the list
    ulThreadCount,       \* the count
    pc,                  \* where each web thread is
    freePc,              \* where the main thread is in webthread_free
    tries,               \* its loop counter i
    freed,               \* the register is destroyed and given back
    crashed,             \* some thread used the register after that
    \* History of the shutdown, read by the properties only:
    timedOut,            \* the loop ended with the count above 0
    late                 \* the loop saw count 0 with a thread yet to register

mutexVars == <<mutex_threadlist, mutex_threadcount>>
listVars == <<threads, ulThreadCount>>
freeVars == <<freePc, tries, freed, timedOut, late>>
regVars == <<mutex_threadlist, mutex_threadcount, threads, ulThreadCount, pc,
             freePc, tries, freed, crashed, timedOut, late>>

(***************************************************************************)
(* A web thread: not existing, created (about to call register_thread), in *)
(* register_thread, serving its request, in unregister_thread, and about   *)
(* to free its arguments and end.                                          *)
(***************************************************************************)
ThreadPCs == { "none", "created",
               "reg_lock_count", "reg_insert", "reg_unlock_list",
               "serving",
               "unreg_find", "unreg_lock_count", "unreg_decrement",
               "unreg_unlock_list", "ending" }

FreePCs == { "not_called", "count", "sleep", "lock_count", "lock_list",
             "unlock_count", "unlock_list", "destroy", "returned" }

RegInit ==
    /\ mutex_threadlist = NoOne
    /\ mutex_threadcount = NoOne
    /\ threads = {}
    /\ ulThreadCount = 0
    /\ pc = [t \in Threads |-> "none"]
    /\ freePc = "not_called"
    /\ tries = 0
    /\ freed = FALSE
    /\ crashed = FALSE
    /\ timedOut = FALSE
    /\ late = FALSE

Goto(t, from, to) == pc[t] = from /\ pc' = [pc EXCEPT ![t] = to]
MainGoto(from, to) == freePc = from /\ freePc' = to
Usable == ~freed /\ ~crashed

\* Threads that exist and are not in the count yet.
Unregistered == {t \in Threads : pc[t] \in {"created", "reg_lock_count", "reg_insert"}}

-----------------------------------------------------------------------------
(***************************************************************************)
(* Wrong variants of the code, each one slip away from it; the runs show   *)
(* that the properties tell them from the code.                            *)
(***************************************************************************)
\* Links the thread without counting it.
BugRegisterInsert(t) ==
    /\ Usable
    /\ Goto(t, "reg_insert", "reg_unlock_list")
    /\ threads' = threads \cup {t}
    /\ mutex_threadcount' = NoOne
    /\ UNCHANGED <<ulThreadCount, mutex_threadlist, freeVars, crashed>>

\* Unlocks the list as soon as the thread is unlinked.
BugUnregisterFind(t) ==
    /\ Usable
    /\ Goto(t, "unreg_find",
            IF t \in threads THEN "unreg_lock_count" ELSE "unreg_unlock_list")
    /\ threads' = threads \ {t}
    /\ mutex_threadlist' = NoOne
    /\ UNCHANGED <<mutex_threadcount, ulThreadCount, freeVars, crashed>>

\* Leaves the search before it counts the thread down.
BugUnregisterDecrement(t) ==
    /\ Usable
    /\ Goto(t, "unreg_decrement", "unreg_unlock_list")
    /\ mutex_threadcount' = NoOne
    /\ UNCHANGED <<ulThreadCount, mutex_threadlist, threads, freeVars, crashed>>

\* Leaves the loop with one thread still running.
BugFreeCount ==
    /\ ~crashed
    /\ mutex_threadcount = NoOne
    /\ \/ /\ ulThreadCount <= 1
          /\ MainGoto("count", "lock_count")
          /\ late' = (Unregistered # {})
       \/ /\ ulThreadCount > 1
          /\ MainGoto("count", "sleep")
          /\ UNCHANGED late
    /\ UNCHANGED <<mutexVars, listVars, pc, tries, freed, crashed, timedOut>>

\* Forgets to unlock the list.
BugRegisterUnlockList(t) ==
    /\ Usable
    /\ Goto(t, "reg_unlock_list", "serving")
    /\ UNCHANGED <<mutexVars, listVars, freeVars, crashed>>

-----------------------------------------------------------------------------
(***************************************************************************)
(* register_thread                                                         *)
(***************************************************************************)
RegisterLockList(t) ==
    /\ Usable
    /\ Goto(t, "created", "reg_lock_count")
    /\ mutex_threadlist = NoOne
    /\ mutex_threadlist' = t
    /\ UNCHANGED <<mutex_threadcount, listVars, freeVars, crashed>>

RegisterLockCount(t) ==
    /\ Usable
    /\ Goto(t, "reg_lock_count", "reg_insert")
    /\ mutex_threadcount = NoOne
    /\ mutex_threadcount' = t
    /\ UNCHANGED <<mutex_threadlist, listVars, freeVars, crashed>>

\* Puts the thread in front of the list, counts it and unlocks the count.
RegisterInsert(t) ==
    /\ Usable
    /\ Goto(t, "reg_insert", "reg_unlock_list")
    /\ threads' = threads \cup {t}
    /\ ulThreadCount' = ulThreadCount + 1
    /\ mutex_threadcount' = NoOne
    /\ UNCHANGED <<mutex_threadlist, freeVars, crashed>>

RegisterUnlockList(t) ==
    /\ Usable
    /\ Goto(t, "reg_unlock_list", "serving")
    /\ mutex_threadlist' = NoOne
    /\ UNCHANGED <<mutex_threadcount, listVars, freeVars, crashed>>

(***************************************************************************)
(* unregister_thread, called when the request is served                    *)
(***************************************************************************)
UnregisterLockList(t) ==
    /\ Usable
    /\ Goto(t, "serving", "unreg_find")
    /\ mutex_threadlist = NoOne
    /\ mutex_threadlist' = t
    /\ UNCHANGED <<mutex_threadcount, listVars, freeVars, crashed>>

\* Looks for the thread in the list and unlinks it; a thread that is not
\* there is not counted down either.
UnregisterFind(t) ==
    /\ Usable
    /\ Goto(t, "unreg_find",
            IF t \in threads THEN "unreg_lock_count" ELSE "unreg_unlock_list")
    /\ threads' = threads \ {t}
    /\ UNCHANGED <<mutexVars, ulThreadCount, freeVars, crashed>>

UnregisterLockCount(t) ==
    /\ Usable
    /\ Goto(t, "unreg_lock_count", "unreg_decrement")
    /\ mutex_threadcount = NoOne
    /\ mutex_threadcount' = t
    /\ UNCHANGED <<mutex_threadlist, listVars, freeVars, crashed>>

UnregisterDecrement(t) ==
    /\ Usable
    /\ Goto(t, "unreg_decrement", "unreg_unlock_list")
    /\ ulThreadCount' = ulThreadCount - 1
    /\ mutex_threadcount' = NoOne
    /\ UNCHANGED <<mutex_threadlist, threads, freeVars, crashed>>

\* Frees the list node and unlocks the list.
UnregisterUnlockList(t) ==
    /\ Usable
    /\ Goto(t, "unreg_unlock_list", "ending")
    /\ mutex_threadlist' = NoOne
    /\ UNCHANGED <<mutex_threadcount, listVars, freeVars, crashed>>

\* free_thread_arg and the return of webthread: nothing shared is used.
EndThread(t) ==
    /\ ~crashed
    /\ Goto(t, "ending", "none")
    /\ UNCHANGED <<mutexVars, listVars, freeVars, crashed>>

\* The next step of thread t reads or writes the register.
UsesRegister(t) == pc[t] \notin {"none", "serving", "ending"}

\* A thread uses the register after webthread_free gave it back; a thread
\* that serves a request gets there when it unregisters.
UseAfterFree(t) ==
    /\ freed /\ ~crashed
    /\ UsesRegister(t) \/ pc[t] = "serving"
    /\ crashed' = TRUE
    /\ UNCHANGED <<mutexVars, listVars, pc, freeVars>>

-----------------------------------------------------------------------------
(***************************************************************************)
(* The main thread: cthread_create, and webthread_free.                    *)
(***************************************************************************)
CreateThread(t) ==
    /\ ~crashed
    /\ freePc = "not_called"
    /\ Goto(t, "none", "created")
    /\ UNCHANGED <<mutexVars, listVars, freeVars, crashed>>

FreeCall ==
    /\ ~crashed
    /\ MainGoto("not_called", "count")
    /\ UNCHANGED <<mutexVars, listVars, pc, tries, freed, crashed, timedOut, late>>

\* webthread_count, and the test of its result; the lock, the read and the
\* unlock are one step, as the count is not held in between by anyone else.
FreeCount ==
    /\ ~crashed
    /\ mutex_threadcount = NoOne
    /\ \/ /\ ulThreadCount = 0
          /\ MainGoto("count", "lock_count")
          /\ late' = (Unregistered # {})
       \/ /\ ulThreadCount # 0
          /\ MainGoto("count", "sleep")
          /\ UNCHANGED late
    /\ UNCHANGED <<mutexVars, listVars, pc, tries, freed, crashed, timedOut>>

\* cthread_sleep, ++i and the test of the loop.
FreeSleep ==
    /\ ~crashed
    /\ tries' = tries + 1
    /\ \/ /\ tries + 1 < MaxTries
          /\ MainGoto("sleep", "count")
          /\ UNCHANGED timedOut
       \/ /\ tries + 1 = MaxTries
          /\ MainGoto("sleep", "lock_count")
          /\ timedOut' = TRUE
    /\ UNCHANGED <<mutexVars, listVars, pc, freed, crashed, late>>

FreeLockCount ==
    /\ ~crashed
    /\ MainGoto("lock_count", "lock_list")
    /\ mutex_threadcount = NoOne
    /\ mutex_threadcount' = Main
    /\ UNCHANGED <<mutex_threadlist, listVars, pc, tries, freed, crashed, timedOut, late>>

FreeLockList ==
    /\ ~crashed
    /\ MainGoto("lock_list", "unlock_count")
    /\ mutex_threadlist = NoOne
    /\ mutex_threadlist' = Main
    /\ UNCHANGED <<mutex_threadcount, listVars, pc, tries, freed, crashed, timedOut, late>>

FreeUnlockCount ==
    /\ ~crashed
    /\ MainGoto("unlock_count", "unlock_list")
    /\ mutex_threadcount' = NoOne
    /\ UNCHANGED <<mutex_threadlist, listVars, pc, tries, freed, crashed, timedOut, late>>

FreeUnlockList ==
    /\ ~crashed
    /\ MainGoto("unlock_list", "destroy")
    /\ mutex_threadlist' = NoOne
    /\ UNCHANGED <<mutex_threadcount, listVars, pc, tries, freed, crashed, timedOut, late>>

\* Destroys both mutexes and frees the register.
FreeDestroy ==
    /\ ~crashed
    /\ MainGoto("destroy", "returned")
    /\ freed' = TRUE
    /\ UNCHANGED <<mutexVars, listVars, pc, tries, crashed, timedOut, late>>

-----------------------------------------------------------------------------
ThreadStep(t) ==
    \/ RegisterLockList(t)
    \/ RegisterLockCount(t)
    \/ RegisterInsert(t)
    \/ RegisterUnlockList(t)
    \/ UnregisterLockList(t)
    \/ UnregisterFind(t)
    \/ UnregisterLockCount(t)
    \/ UnregisterDecrement(t)
    \/ UnregisterUnlockList(t)
    \/ EndThread(t)
    \/ UseAfterFree(t)

FreeStep ==
    \/ FreeCount
    \/ FreeSleep
    \/ FreeLockCount
    \/ FreeLockList
    \/ FreeUnlockCount
    \/ FreeUnlockList
    \/ FreeDestroy

(***************************************************************************)
(* The register by itself: the main thread starts web threads as it likes  *)
(* and then frees the register.  Server.tla says when main.c does so.      *)
(***************************************************************************)
RegNext ==
    \/ \E t \in Threads : ThreadStep(t) \/ CreateThread(t)
    \/ FreeCall
    \/ FreeStep

RegSpec == RegInit /\ [][RegNext]_regVars

(***************************************************************************)
(* Every thread that can run is scheduled, so the main thread and a web    *)
(* thread that is inside a register function go on.  Nothing makes a web   *)
(* thread finish its request: a client or a script may take for ever.      *)
(***************************************************************************)
InRegister(t) == pc[t] # "serving" /\ ThreadStep(t)

RegFairness ==
    /\ WF_regVars(FreeStep)
    /\ \A t \in Threads : WF_regVars(InRegister(t))

-----------------------------------------------------------------------------
(***************************************************************************)
(* Properties                                                              *)
(***************************************************************************)
\* Every variable has its type.
RegTypeOK ==
    /\ mutex_threadlist \in Threads \cup {Main, NoOne}
    /\ mutex_threadcount \in Threads \cup {Main, NoOne}
    /\ threads \in SUBSET Threads
    /\ ulThreadCount \in Nat
    /\ pc \in [Threads -> ThreadPCs]
    /\ freePc \in FreePCs
    /\ tries \in 0..MaxTries
    /\ freed \in BOOLEAN /\ crashed \in BOOLEAN
    /\ timedOut \in BOOLEAN /\ late \in BOOLEAN

\* Where a thread holds the mutex of the list, and the mutex of the count.
HoldsList(t) == pc[t] \in { "reg_lock_count", "reg_insert", "reg_unlock_list",
                            "unreg_find", "unreg_lock_count",
                            "unreg_decrement", "unreg_unlock_list" }
HoldsCount(t) == pc[t] \in {"reg_insert", "unreg_decrement"}

\* The code between a lock and its unlock runs in one thread at a time, web
\* threads and the main thread together.
RegisterExclusion ==
    /\ \A t \in Threads : HoldsList(t) <=> mutex_threadlist = t
    /\ \A t \in Threads : HoldsCount(t) <=> mutex_threadcount = t
    /\ freePc \in {"unlock_count", "unlock_list"} <=> mutex_threadlist = Main
    /\ freePc \in {"lock_list", "unlock_count"} <=> mutex_threadcount = Main

\* The threads that are counted: a thread that is unlinked from the list is
\* counted until it has the mutex of the count.
Counted == threads \cup {t \in Threads : pc[t] \in {"unreg_lock_count", "unreg_decrement"}}

\* The count is the number of threads that registered and have not counted
\* themselves down, whichever mutex they hold: every thread that serves a
\* request is counted, so webthread_free cannot see 0 while one does.
CountAgrees ==
    /\ ulThreadCount = Cardinality(Counted)
    /\ \A t \in Threads :
         t \in threads <=> pc[t] \in {"reg_unlock_list", "serving", "unreg_find"}

\* The main thread has the count and wants the list, and a web thread has
\* the list and wants the count: the two lock the mutexes in opposite order.
Deadlocked ==
    /\ freePc = "lock_list"
    /\ \E t \in Threads : pc[t] \in {"reg_lock_count", "unreg_lock_count"}

\* The two orders of locking and the memory given back do harm only after
\* the loop of webthread_free gave up on a busy thread, or saw a count of 0
\* that a thread just created was not part of: in every other shutdown no
\* thread uses the freed register and the threads do not block each other.
OrderlyFreeIsSafe == crashed \/ Deadlocked => timedOut \/ late

\* webthread_free comes to an end, even when a request never does, unless it
\* runs into the deadlock or a thread into the freed register.
FreeEnds == freePc = "count" ~> freePc = "returned" \/ Deadlocked \/ crashed
=============================================================================
