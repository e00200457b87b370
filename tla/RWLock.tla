------------------------------- MODULE RWLock -------------------------------
(***************************************************************************)
(* The reader/writer lock of src/cthreads.c: two counting semaphores,      *)
(* `write' (initially 1) and `readers' (initially max_readers).  A reader  *)
(* takes one token of `readers' while it briefly holds `write'; a writer   *)
(* takes `write', then every token.                                        *)
(*                                                                         *)
(* One action is one semaphore operation: sem_wait, sem_trywait and        *)
(* sem_post are the atomic steps, and any interleaving of the threads is   *)
(* possible between them.  A sem_wait that blocks can be interrupted by a  *)
(* signal handler (main.c installs its handler with sa_flags = 0, so       *)
(* sem_wait fails with EINTR); the Interrupt actions are what the lock     *)
(* functions do then.                                                      *)
(***************************************************************************)
EXTENDS Integers, FiniteSets

CONSTANTS Threads,      \* the threads that share the lock
          MaxReaders,   \* the max_readers argument of cthread_rwlock_init
          MaxSignals    \* bound: how many waits a signal handler interrupts

ASSUME RWLockAssumption ==
    /\ IsFiniteSet(Threads)
    /\ MaxReaders \in Nat \ {0}
    /\ MaxSignals \in Nat

VARIABLES
    write,     \* value of the semaphore `write'
    readers,   \* value of the semaphore `readers'
    pc,        \* where each thread is in the lock functions
    i,         \* the loop counter i of each thread's write function
    signals,   \* waits interrupted so far
    \* History of interrupted waits, read by the properties only:
    phantom,   \* tokens that a write_wait counted without getting them
    leaked     \* a read_wait returned 0 and kept `write'

semVars == <<write, readers>>
threadVars == <<pc, i>>
signalVars == <<signals, phantom, leaked>>
vars == <<write, readers, pc, i, signals, phantom, leaked>>

(***************************************************************************)
(* Control points, in the order of the functions of cthreads.c.            *)
(***************************************************************************)
PCs == { "idle",
         "rd_wait_write", "rd_wait_readers",    \* in read_wait
         "rd_try_readers", "rd_try_undo",       \* in read_trywait
         "rd_post_write", "reading",            \* got a token; read lock held
         "wr_wait_write", "wr_wait_readers",    \* in write_wait
         "wr_try_readers", "wr_try_undo_write", \* in write_trywait
         "wr_try_undo_readers",
         "writing", "wr_post_readers" }         \* write lock held; write_post

Init ==
    /\ write = 1
    /\ readers = MaxReaders
    /\ pc = [t \in Threads |-> "idle"]
    /\ i = [t \in Threads |-> 0]
    /\ signals = 0
    /\ phantom = 0
    /\ leaked = FALSE

Goto(t, from, to) == pc[t] = from /\ pc' = [pc EXCEPT ![t] = to]

(***************************************************************************)
(* cthread_rwlock_read_wait                                                *)
(***************************************************************************)
ReadWaitCall(t) ==
    /\ Goto(t, "idle", "rd_wait_write")
    /\ UNCHANGED <<semVars, i, signalVars>>

ReadWaitWrite(t) ==
    /\ Goto(t, "rd_wait_write", "rd_wait_readers")
    /\ write > 0
    /\ write' = write - 1
    /\ UNCHANGED <<readers, i, signalVars>>

ReadWaitReaders(t) ==
    /\ Goto(t, "rd_wait_readers", "rd_post_write")
    /\ readers > 0
    /\ readers' = readers - 1
    /\ UNCHANGED <<write, i, signalVars>>

\* The last step of read_wait and of a read_trywait that succeeds.
ReadPostWrite(t) ==
    /\ Goto(t, "rd_post_write", "reading")
    /\ write' = write + 1
    /\ UNCHANGED <<readers, i, signalVars>>

(***************************************************************************)
(* cthread_rwlock_read_trywait.  With `write' at 0 it returns 0 at once    *)
(* and nothing changes.                                                    *)
(***************************************************************************)
ReadTryWrite(t) ==
    /\ Goto(t, "idle", "rd_try_readers")
    /\ write > 0
    /\ write' = write - 1
    /\ UNCHANGED <<readers, i, signalVars>>

\* Variant: the failing read_trywait returns without the post of line 297.
BugReadTryReaders(t) ==
    /\ \/ /\ readers > 0
          /\ Goto(t, "rd_try_readers", "rd_post_write")
          /\ readers' = readers - 1
       \/ /\ readers = 0
          /\ Goto(t, "rd_try_readers", "idle")
          /\ UNCHANGED readers
    /\ UNCHANGED <<write, i, signalVars>>

ReadTryReaders(t) ==
    /\ \/ /\ readers > 0
          /\ Goto(t, "rd_try_readers", "rd_post_write")
          /\ readers' = readers - 1
       \/ /\ readers = 0
          /\ Goto(t, "rd_try_readers", "rd_try_undo")
          /\ UNCHANGED readers
    /\ UNCHANGED <<write, i, signalVars>>

ReadTryUndo(t) ==
    /\ Goto(t, "rd_try_undo", "idle")
    /\ write' = write + 1
    /\ UNCHANGED <<readers, i, signalVars>>

(***************************************************************************)
(* cthread_rwlock_read_post                                                *)
(***************************************************************************)
\* Variant: read_post gives back `write' as well.
BugReadPost(t) ==
    /\ Goto(t, "reading", "idle")
    /\ readers' = readers + 1
    /\ write' = write + 1
    /\ UNCHANGED <<i, signalVars>>

ReadPost(t) ==
    /\ Goto(t, "reading", "idle")
    /\ readers' = readers + 1
    /\ UNCHANGED <<write, i, signalVars>>

(***************************************************************************)
(* cthread_rwlock_write_wait                                               *)
(***************************************************************************)
WriteWaitCall(t) ==
    /\ Goto(t, "idle", "wr_wait_write")
    /\ UNCHANGED <<semVars, i, signalVars>>

\* Variant: write_wait does not keep `write' while it waits for the readers.
BugWriteWaitWrite(t) ==
    /\ Goto(t, "wr_wait_write", "wr_wait_readers")
    /\ write > 0
    /\ UNCHANGED <<write, readers, i, signalVars>>

WriteWaitWrite(t) ==
    /\ Goto(t, "wr_wait_write", "wr_wait_readers")
    /\ write > 0
    /\ write' = write - 1
    /\ UNCHANGED <<readers, i, signalVars>>

\* Variant: the loops of the write functions stop one token early.
BugCountToken(t, loop) ==
    IF i[t] + 2 >= MaxReaders
    THEN Goto(t, loop, "writing") /\ i' = [i EXCEPT ![t] = 0]
    ELSE Goto(t, loop, loop) /\ i' = [i EXCEPT ![t] = @ + 1]

\* One more iteration of a loop that takes tokens: `if( ++i == max_readers )'.
CountToken(t, loop) ==
    IF i[t] + 1 = MaxReaders
    THEN Goto(t, loop, "writing") /\ i' = [i EXCEPT ![t] = 0]
    ELSE Goto(t, loop, loop) /\ i' = [i EXCEPT ![t] = @ + 1]

WriteWaitReaders(t) ==
    /\ readers > 0
    /\ readers' = readers - 1
    /\ CountToken(t, "wr_wait_readers")
    /\ UNCHANGED <<write, signalVars>>

(***************************************************************************)
(* cthread_rwlock_write_trywait.  With `write' at 0 it returns 0 at once.  *)
(***************************************************************************)
WriteTryWrite(t) ==
    /\ Goto(t, "idle", "wr_try_readers")
    /\ write > 0
    /\ write' = write - 1
    /\ UNCHANGED <<readers, i, signalVars>>

WriteTryReaders(t) ==
    /\ \/ /\ readers > 0
          /\ readers' = readers - 1
          /\ CountToken(t, "wr_try_readers")
       \/ /\ readers = 0
          /\ Goto(t, "wr_try_readers", "wr_try_undo_write")
          /\ UNCHANGED <<readers, i>>
    /\ UNCHANGED <<write, signalVars>>

\* Variant: the failing write_trywait forgets the tokens it took (no second loop).
BugWriteTryUndoWrite(t) ==
    /\ Goto(t, "wr_try_undo_write", "idle")
    /\ write' = write + 1
    /\ i' = [i EXCEPT ![t] = 0]
    /\ UNCHANGED <<readers, signalVars>>

\* The failing trywait gives `write' back first, then its i tokens.
WriteTryUndoWrite(t) ==
    /\ Goto(t, "wr_try_undo_write",
            IF i[t] = 0 THEN "idle" ELSE "wr_try_undo_readers")
    /\ write' = write + 1
    /\ UNCHANGED <<readers, i, signalVars>>

WriteTryUndoReaders(t) ==
    /\ Goto(t, "wr_try_undo_readers",
            IF i[t] = 1 THEN "idle" ELSE "wr_try_undo_readers")
    /\ readers' = readers + 1
    /\ i' = [i EXCEPT ![t] = @ - 1]
    /\ UNCHANGED <<write, signalVars>>

(***************************************************************************)
(* cthread_rwlock_write_post: `write' first, then max_readers tokens.      *)
(***************************************************************************)
WritePostWrite(t) ==
    /\ Goto(t, "writing", "wr_post_readers")
    /\ write' = write + 1
    /\ UNCHANGED <<readers, i, signalVars>>

WritePostReaders(t) ==
    /\ readers' = readers + 1
    /\ IF i[t] + 1 = MaxReaders
       THEN Goto(t, "wr_post_readers", "idle") /\ i' = [i EXCEPT ![t] = 0]
       ELSE Goto(t, "wr_post_readers", "wr_post_readers")
            /\ i' = [i EXCEPT ![t] = @ + 1]
    /\ UNCHANGED <<write, signalVars>>

(***************************************************************************)
(* A signal handler interrupts a sem_wait that blocks.  A wait on `write'  *)
(* makes the function return 0 with nothing taken.  read_wait returns 0    *)
(* from its second wait as well, and still has `write'; the loop of        *)
(* write_wait looks at no return value and counts a token it did not get.  *)
(***************************************************************************)
Signal == signals < MaxSignals /\ signals' = signals + 1

InterruptReadWaitWrite(t) ==
    /\ Signal
    /\ write = 0
    /\ Goto(t, "rd_wait_write", "idle")
    /\ UNCHANGED <<semVars, i, phantom, leaked>>

InterruptReadWaitReaders(t) ==
    /\ Signal
    /\ readers = 0
    /\ Goto(t, "rd_wait_readers", "idle")
    /\ leaked' = TRUE
    /\ UNCHANGED <<semVars, i, phantom>>

InterruptWriteWaitWrite(t) ==
    /\ Signal
    /\ write = 0
    /\ Goto(t, "wr_wait_write", "idle")
    /\ UNCHANGED <<semVars, i, phantom, leaked>>

InterruptWriteWaitReaders(t) ==
    /\ Signal
    /\ readers = 0
    /\ CountToken(t, "wr_wait_readers")
    /\ phantom' = phantom + 1
    /\ UNCHANGED <<semVars, leaked>>

-----------------------------------------------------------------------------
Call(t) ==
    \/ ReadWaitCall(t)
    \/ ReadTryWrite(t)
    \/ WriteWaitCall(t)
    \/ WriteTryWrite(t)

Step(t) ==
    \/ ReadWaitWrite(t)
    \/ ReadWaitReaders(t)
    \/ ReadPostWrite(t)
    \/ ReadTryReaders(t)
    \/ ReadTryUndo(t)
    \/ ReadPost(t)
    \/ WriteWaitWrite(t)
    \/ WriteWaitReaders(t)
    \/ WriteTryReaders(t)
    \/ WriteTryUndoWrite(t)
    \/ WriteTryUndoReaders(t)
    \/ WritePostWrite(t)
    \/ WritePostReaders(t)

Interrupt(t) ==
    \/ InterruptReadWaitWrite(t)
    \/ InterruptReadWaitReaders(t)
    \/ InterruptWriteWaitWrite(t)
    \/ InterruptWriteWaitReaders(t)

Next == \E t \in Threads : Call(t) \/ Step(t) \/ Interrupt(t)

Spec == Init /\ [][Next]_vars

(***************************************************************************)
(* The scheduler runs every thread that can run, and whoever holds the     *)
(* lock gives it back: weak fairness of each thread's own steps.  Nothing  *)
(* stronger: sem_wait promises no order among the waiters, so a thread     *)
(* that waits may see the semaphore taken again and again by others.       *)
(* Calls and signals come from outside and are not fair.                   *)
(***************************************************************************)
FairSpec == Spec /\ \A t \in Threads : WF_vars(Step(t))
-----------------------------------------------------------------------------
(***************************************************************************)
(* Properties                                                              *)
(***************************************************************************)
\* Every variable has its type; the semaphores never go below zero.
TypeOK ==
    /\ write \in 0..1
    /\ readers \in Nat
    /\ pc \in [Threads -> PCs]
    /\ i \in [Threads -> 0..MaxReaders - 1]
    /\ signals \in Nat
    /\ phantom \in Nat
    /\ leaked \in BOOLEAN

\* The threads that have taken `write' and not given it back.
HoldsWrite(t) ==
    pc[t] \in { "rd_wait_readers", "rd_try_readers", "rd_try_undo",
                "rd_post_write", "wr_wait_readers", "wr_try_readers",
                "wr_try_undo_write", "writing" }

\* How many tokens of `readers' a thread counts as its own.
Claimed(t) ==
    CASE pc[t] \in {"rd_post_write", "reading"} -> 1
      [] pc[t] \in { "wr_wait_readers", "wr_try_readers", "wr_try_undo_write",
                     "wr_try_undo_readers" } -> i[t]
      [] pc[t] = "writing" -> MaxReaders
      [] pc[t] = "wr_post_readers" -> MaxReaders - i[t]
      [] OTHER -> 0

\* The claimed tokens, one pair for each, so that they can be counted.
Claims == { c \in Threads \X (1..MaxReaders) : c[2] <= Claimed(c[1]) }

\* No token is lost or made by any interleaving of waits, trywaits, failed
\* trywaits that undo their work and posts in two parts: the free and the
\* claimed tokens are max_readers, plus those write_wait counted when a
\* signal interrupted it (cthreads.c:314 ignores the result of the wait).
TokensConserved == readers + Cardinality(Claims) = MaxReaders + phantom

\* Semaphore `write' is 0 exactly while one thread has it, on every path
\* through the six functions, or since an interrupted read_wait kept it.
WriteOwned ==
    /\ \A t, u \in Threads : HoldsWrite(t) /\ HoldsWrite(u) => t = u
    /\ write = 0 <=> leaked \/ \E t \in Threads : HoldsWrite(t)
    /\ leaked => \A t \in Threads : ~HoldsWrite(t)

HoldsRead(t) == pc[t] \in {"rd_post_write", "reading"}

\* Two threads never write at once; and as long as no interrupted write_wait
\* counted a token it did not get, nobody reads while a thread writes and at
\* most max_readers threads read.
Exclusion ==
    /\ \A t, u \in Threads : pc[t] = "writing" /\ pc[u] = "writing" => t = u
    /\ phantom = 0 =>
         /\ \A t, u \in Threads : pc[t] = "writing" => ~HoldsRead(u)
         /\ Cardinality({t \in Threads : HoldsRead(t)}) <= MaxReaders

\* "No reader locks can be obtained while the writer semaphore is locked"
\* (cthreads.h:142): from the moment a writer has `write' until it gives it
\* back, no thread gets a read lock, whatever signals interrupt.
NoReaderAdmittedPastWriter ==
    [][ \A w, r \in Threads :
          pc[w] \in {"wr_wait_readers", "writing"} /\ HoldsRead(r)' => HoldsRead(r)
      ]_vars

\* A writer that has `write' gets the lock, under weak fairness alone and
\* against any traffic of readers and trywaits: the readers it waits for
\* leave and nobody is let in.
WriterDrains ==
    \A w \in Threads : pc[w] = "wr_wait_readers" ~> pc[w] = "writing"

InTrywait(t) == pc[t] \in { "rd_try_readers", "rd_try_undo", "wr_try_readers",
                            "wr_try_undo_write", "wr_try_undo_readers" }

\* The lock itself never stops: when a thread waits, some thread gets the
\* lock or is in a trywait that competes for it, except after an interrupted
\* read_wait kept `write'.
SomeoneProgresses ==
    (\E t \in Threads : pc[t] \in {"rd_wait_write", "wr_wait_write",
                                   "rd_wait_readers"})
      ~> \/ leaked
         \/ \E t \in Threads : HoldsRead(t) \/ pc[t] = "writing" \/ InTrywait(t)

\* write_wait "waits for all readers on the rwlock to finish before
\* returning" (cthreads.h:159-160).  False when a signal interrupts one of
\* its waits.
WriteWaitWaitsForReaders ==
    \A w, r \in Threads : pc[w] = "writing" => ~HoldsRead(r)

(***************************************************************************)
(* The lock its callers see: a reader holds it from its token on, a writer *)
(* from its last token to the post of `write'.                             *)
(***************************************************************************)
ReadHolders == {t \in Threads : HoldsRead(t)}
WriteHolders == {t \in Threads : pc[t] = "writing"}
ReadLocks == MaxReaders - Cardinality(ReadHolders)

Abstract == INSTANCE AbstractRWLock
                WITH readHolders <- ReadHolders,
                     writeHolders <- WriteHolders,
                     readLocks <- ReadLocks

\* Until a signal interrupts a wait, every step of the two semaphores is a
\* step of the abstract lock, or changes nothing a caller can see.
ImplementsAbstract ==
    /\ Abstract!AbsInit
    /\ [][signals' = 0 => Abstract!AbsNext]_(Abstract!absVars)
=============================================================================
