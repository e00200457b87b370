--------------------------- MODULE AbstractRWLock ---------------------------
(***************************************************************************)
(* What a c_rwlock promises its callers (include/cthreads.h): up to        *)
(* MaxReaders threads hold it for reading, or one thread holds it for      *)
(* writing, and acquiring and releasing are single steps.  RWLock.tla,     *)
(* the two-semaphore algorithm of cthreads.c, implements it as long as no  *)
(* signal interrupts a wait.                                               *)
(***************************************************************************)
EXTENDS Integers

CONSTANTS Threads,     \* the threads that share the lock
          MaxReaders   \* the max_readers argument of cthread_rwlock_init

VARIABLES readHolders,   \* the threads that hold the lock for reading
          writeHolders,  \* the threads that hold it for writing
          readLocks      \* how many read locks are left to give

absVars == <<readHolders, writeHolders, readLocks>>

AbsInit == readHolders = {} /\ writeHolders = {} /\ readLocks = MaxReaders

AcquireRead(t) ==
    /\ writeHolders = {}
    /\ t \notin readHolders
    /\ readLocks > 0
    /\ readHolders' = readHolders \cup {t}
    /\ readLocks' = readLocks - 1
    /\ UNCHANGED writeHolders

ReleaseRead(t) ==
    /\ t \in readHolders
    /\ readHolders' = readHolders \ {t}
    /\ readLocks' = readLocks + 1
    /\ UNCHANGED writeHolders

AcquireWrite(t) ==
    /\ readHolders = {}
    /\ writeHolders = {}
    /\ writeHolders' = {t}
    /\ UNCHANGED <<readHolders, readLocks>>

ReleaseWrite(t) ==
    /\ writeHolders = {t}
    /\ writeHolders' = {}
    /\ UNCHANGED <<readHolders, readLocks>>

AbsNext == \E t \in Threads : \/ AcquireRead(t)
                              \/ ReleaseRead(t)
                              \/ AcquireWrite(t)
                              \/ ReleaseWrite(t)

AbsSpec == AbsInit /\ [][AbsNext]_absVars
=============================================================================
