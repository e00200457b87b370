----------------------------- MODULE WebSession -----------------------------
(***************************************************************************)
(* The register of web sessions (src/websession.c): web threads start,     *)
(* find and destroy sessions, one of them cleans up, and the main thread   *)
(* frees the register at shutdown.                                         *)
(*                                                                         *)
(* A step waits for a lock and does what the code does up to the next      *)
(* place where it can block or where another thread can get in: the reads  *)
(* of a list under the read lock are one step, and the second loop of the  *)
(* clean-up, which walks the live list without sess_lock, goes node by     *)
(* node.  sess_lock is the lock of AbstractRWLock, which RWLock.tla        *)
(* implements as long as no signal interrupts a wait.  A local variable    *)
(* that is not read again gets its first value back.                       *)
(*                                                                         *)
(* A session is a node, the address malloc gave it; its id is the node     *)
(* too, as a node that is freed is never given out again: the model ends   *)
(* when a session of the live list is freed (`freedLive'), or when freed   *)
(* memory is used (`crashed').  It ends, too, when there is no memory for  *)
(* the data of a session (`noItem'): the lists do not depend on it.        *)
(***************************************************************************)
EXTENDS Integers, Sequences, FiniteSets

CONSTANTS Threads,      \* the web threads
          Nodes,        \* the addresses malloc can return; bound: it fails then
          Nil,          \* the null pointer
          MaxReaders,   \* the 20 read locks of sess_lock
          Ttl,          \* ttl_sec, the same for every session_start
          Grace,        \* the 1200 seconds a session stays in the deleted list
          MaxCounter,   \* the 1023 session_starts without a clean-up
          MaxClock      \* bound: the last value of time()

Main == "main"
Callers == Threads \cup {Main}

ASSUME WebSessionAssumption ==
    /\ Main \notin Threads /\ Nil \notin Nodes /\ Nil \notin Callers
    /\ {MaxReaders, Ttl, Grace, MaxCounter} \subseteq Nat
    /\ MaxClock \in Nat \ {0}

VARIABLES
    clock,                                  \* time()
    readHolders, writeHolders, readLocks,   \* sess_lock
    delOwner,                               \* owner of sess_del_mutex
    sess_list, sess_deleted,                \* the two lists, as sequences
    cleanup_counter,
    allocated,                              \* the nodes malloc gave out
    valid_until,                            \* of a node
    pc, now, sid, ws_iter, invalid_count,   \* of a caller, its locals
    ws_prev, ws_tmp,
    session,                                \* the session a thread works with
    registered,                             \* the sessions with an item of data
    sess_vars,                              \* the one whose item a page uses
    gone,                                   \* the register is freed
    crashed,                                \* freed memory was used
    \* History, read by the properties only:
    destroyed,   \* sessions websession_destroy made invalid
    overlap,     \* websession_free was called with a request still served
    freedLive,   \* the clean-up freed a session of the live list
    noItem       \* there was no memory for an item of data

lockVars == <<readHolders, writeHolders, readLocks>>
listVars == <<sess_list, sess_deleted, allocated, valid_until>>
dataVars == <<registered, sess_vars>>
pageVars == <<now, sid, ws_iter, invalid_count, ws_prev, ws_tmp, session, sess_vars>>
localVars == <<pageVars, registered>>
endVars == <<gone, crashed, overlap, freedLive, noItem>>
vars == <<clock, lockVars, delOwner, listVars, cleanup_counter, pc, localVars, endVars,
          destroyed>>

Lock == INSTANCE AbstractRWLock WITH Threads <- Callers

PCs == { "idle", "start_read_wait", "start_read_post", "start_cleanup",
         "clean_write_wait", "clean_move", "clean_del_lock", "clean_free",
         "start_create", "start_write_wait", "start_insert", "start_return",
         "register_data", "using",
         "destroy_read_post", "destroy_write_wait", "destroy_write_post",
         "free_del_lock", "free_write_wait", "free_all", "free_done" }

Init ==
    /\ clock = 1
    /\ readHolders = {} /\ writeHolders = {} /\ readLocks = MaxReaders
    /\ delOwner = Nil
    /\ sess_list = <<>> /\ sess_deleted = <<>> /\ cleanup_counter = 0
    /\ allocated = {}
    /\ valid_until = [n \in Nodes |-> 0]
    /\ pc = [c \in Callers |-> "idle"]
    /\ now = [t \in Threads |-> 0]
    /\ sid = [t \in Threads |-> Nil]
    /\ ws_iter = [t \in Threads |-> Nil]
    /\ invalid_count = [t \in Threads |-> FALSE]
    /\ ws_prev = [t \in Threads |-> Nil] /\ ws_tmp = [t \in Threads |-> Nil]
    /\ session = [t \in Threads |-> Nil]
    /\ registered = {} /\ sess_vars = [t \in Threads |-> Nil]
    /\ gone = FALSE /\ crashed = FALSE /\ overlap = FALSE /\ freedLive = FALSE /\ noItem = FALSE
    /\ destroyed = {}

Elements(s) == {s[k] : k \in 1..Len(s)}
First(s) == IF s = <<>> THEN Nil ELSE s[1]
PlaceOf(s, n) == CHOOSE j \in 1..Len(s) : s[j] = n

\* n->next, for a node of list s.
NextOf(s, n) == IF PlaceOf(s, n) = Len(s) THEN Nil ELSE s[PlaceOf(s, n) + 1]

\* List s with its node n unlinked.
Without(s, n) == SubSeq(s, 1, PlaceOf(s, n) - 1) \o SubSeq(s, PlaceOf(s, n) + 1, Len(s))

\* The list from node n on.
From(s, n) == IF n = Nil THEN <<>> ELSE SubSeq(s, PlaceOf(s, n), Len(s))

Alive == ~crashed /\ ~freedLive /\ ~noItem
Goto(c, from, to) == Alive /\ pc[c] = from /\ pc' = [pc EXCEPT ![c] = to]
Usable == ~gone

-----------------------------------------------------------------------------
(***************************************************************************)
(* websession_start                                                        *)
(***************************************************************************)
\* The sessions whose id a client may have: lsp_session_start, which gives it
\* out, has registered their item before.
Known == Elements(sess_list) \cap registered

\* time(NULL), and the session id in the cookie of the request: none, or one
\* of the live list.  (The id of a session that has left the list is as good
\* as none: no session comes back into the list.  With an id that is too short
\* the call returns NULL at once and changes nothing.)  A page may call
\* session_start again, with the cookie it came with.  No line of websession.c
\* keeps a call from running together with websession_free: main.c:366-370
\* does, which waits for the threads first, unless webthread_free gave up.
StartCall(t) ==
    /\ Usable
    /\ pc[Main] = "idle" \/ overlap
    /\ \/ /\ Goto(t, "idle", "start_read_wait")
          /\ \E s \in Known \cup {Nil} : sid' = [sid EXCEPT ![t] = s]
       \/ /\ Goto(t, "using", "start_read_wait")
          /\ UNCHANGED sid
    /\ now' = [now EXCEPT ![t] = clock]
    /\ UNCHANGED <<clock, lockVars, delOwner, listVars, cleanup_counter, ws_iter,
                   invalid_count, ws_prev, ws_tmp, session, dataVars, endVars, destroyed>>

Valid(n, t) == valid_until[n] >= now[t]

\* Bug: the session is compared before its time is.
BugStartFind(t) ==
    /\ Usable
    /\ Goto(t, "start_read_wait", "start_read_post")
    /\ Lock!AcquireRead(t)
    /\ LET hits == {k \in 1..Len(sess_list) : sid[t] = sess_list[k]}
           seen(k) == \A h \in hits : k < h
       IN  /\ ws_iter' = [ws_iter EXCEPT ![t] = IF hits = {} THEN Nil ELSE sid[t]]
           /\ valid_until' = IF hits = {} THEN valid_until
                             ELSE [valid_until EXCEPT ![sid[t]] = now[t] + Ttl]
           /\ invalid_count' = [invalid_count EXCEPT ![t] =
                 \E k \in 1..Len(sess_list) : seen(k) /\ ~Valid(sess_list[k], t)]
    /\ UNCHANGED <<clock, delOwner, sess_list, sess_deleted, cleanup_counter,
                   allocated, now, sid, ws_prev, ws_tmp, session, dataVars, endVars, destroyed>>

\* The walk stops at the session that is looked for; the invalid sessions
\* before it are counted.  Several readers may set valid_until in turn.
StartFind(t) ==
    /\ Usable
    /\ Goto(t, "start_read_wait", "start_read_post")
    /\ Lock!AcquireRead(t)
    /\ LET hits == {k \in 1..Len(sess_list) : /\ Valid(sess_list[k], t)
                                             /\ sid[t] = sess_list[k]}
           seen(k) == \A h \in hits : k < h
       IN  /\ ws_iter' = [ws_iter EXCEPT ![t] = IF hits = {} THEN Nil ELSE sid[t]]
           /\ valid_until' = IF hits = {} THEN valid_until
                             ELSE [valid_until EXCEPT ![sid[t]] = now[t] + Ttl]
           /\ invalid_count' = [invalid_count EXCEPT ![t] =
                 \E k \in 1..Len(sess_list) : seen(k) /\ ~Valid(sess_list[k], t)]
    /\ UNCHANGED <<clock, delOwner, sess_list, sess_deleted, cleanup_counter,
                   allocated, now, sid, ws_prev, ws_tmp, session, dataVars, endVars, destroyed>>

StartReadPost(t) ==
    /\ Usable
    /\ Goto(t, "start_read_post", "start_cleanup")
    /\ Lock!ReleaseRead(t)
    /\ UNCHANGED <<clock, delOwner, listVars, cleanup_counter, localVars, endVars, destroyed>>

AfterCleanup(t) == IF ws_iter[t] = Nil THEN "start_create" ELSE "start_return"

\* cleanup_counter has no lock: another thread that has read it, and writes it
\* later, makes an increment or the assignment of 0 go lost.  What counts is
\* whether it is more than MaxCounter, and it stays there then.
AtCounter(t) == \E u \in Threads \ {t} : pc[u] = "start_cleanup" /\ ~invalid_count[u]
Counted == IF cleanup_counter > MaxCounter THEN cleanup_counter ELSE cleanup_counter + 1
Incremented(t) == {Counted} \cup (IF AtCounter(t) THEN 0..cleanup_counter ELSE {})
Cleared(t) == {0} \cup (IF AtCounter(t) THEN {cleanup_counter} ELSE {})

\* invalid_count || ++cleanup_counter > 1023
StartCleanup(t) ==
    /\ Usable
    /\ \/ /\ invalid_count[t]
          /\ Goto(t, "start_cleanup", "clean_write_wait")
          /\ UNCHANGED cleanup_counter
       \/ /\ ~invalid_count[t]
          /\ cleanup_counter' \in Incremented(t)
          /\ Goto(t, "start_cleanup", IF Counted > MaxCounter
                                      THEN "clean_write_wait" ELSE AfterCleanup(t))
    /\ invalid_count' = [invalid_count EXCEPT ![t] = FALSE]
    /\ UNCHANGED <<clock, lockVars, delOwner, listVars, now, sid, ws_iter, ws_prev, ws_tmp,
                   session, dataVars, endVars, destroyed>>

(***************************************************************************)
(* _websession_session_cleanup                                             *)
(***************************************************************************)
CleanWriteWait(t) ==
    /\ Usable
    /\ Goto(t, "clean_write_wait", "clean_move")
    /\ Lock!AcquireWrite(t)
    /\ UNCHANGED <<clock, delOwner, listVars, cleanup_counter, localVars, endVars, destroyed>>

Expired(t) == {n \in Elements(sess_list) : ~Valid(n, t)}
FirstExpired(t) ==
    sess_list[CHOOSE k \in 1..Len(sess_list) :
                /\ sess_list[k] \in Expired(t)
                /\ \A j \in 1..(k - 1) : sess_list[j] \notin Expired(t)]

\* Bug: the head of the list is not unlinked (sess_list = ws_tmp->next is missing).
BugCleanMove(t) ==
    /\ Usable
    /\ Goto(t, "clean_move", "clean_move")
    /\ delOwner = Nil
    /\ Expired(t) # {}
    /\ LET n == FirstExpired(t)
       IN  /\ sess_list' = IF n = First(sess_list) THEN sess_list ELSE Without(sess_list, n)
           /\ sess_deleted' = <<n>> \o sess_deleted
           /\ valid_until' = [valid_until EXCEPT ![n] = @ + Grace]
    /\ UNCHANGED <<clock, lockVars, delOwner, cleanup_counter, allocated,
                   localVars, endVars, destroyed>>

\* One session that timed out goes to the front of the deleted list, with
\* sess_del_mutex taken for it.
CleanMove(t) ==
    /\ Usable
    /\ Goto(t, "clean_move", "clean_move")
    /\ delOwner = Nil
    /\ Expired(t) # {}
    /\ LET n == FirstExpired(t)
       IN  /\ sess_list' = Without(sess_list, n)
           /\ sess_deleted' = <<n>> \o sess_deleted
           /\ valid_until' = [valid_until EXCEPT ![n] = @ + Grace]
    /\ UNCHANGED <<clock, lockVars, delOwner, cleanup_counter, allocated,
                   localVars, endVars, destroyed>>

CleanWritePost(t) ==
    /\ Usable
    /\ Goto(t, "clean_move", "clean_del_lock")
    /\ Expired(t) = {}
    /\ Lock!ReleaseWrite(t)
    /\ UNCHANGED <<clock, delOwner, listVars, cleanup_counter, localVars, endVars, destroyed>>

\* The second loop begins, at the head of sess_list.
CleanDelLock(t) ==
    /\ Usable
    /\ Goto(t, "clean_del_lock", "clean_free")
    /\ delOwner = Nil
    /\ delOwner' = t
    /\ ws_tmp' = [ws_tmp EXCEPT ![t] = First(sess_list)]
    /\ UNCHANGED <<clock, lockVars, listVars, cleanup_counter, now, sid, ws_iter,
                   invalid_count, ws_prev, session, dataVars, endVars, destroyed>>

\* One turn of the second loop goes past a valid session ...
CleanPass(t) ==
    /\ Usable
    /\ ws_tmp[t] # Nil
    /\ Valid(ws_tmp[t], t)
    /\ Goto(t, "clean_free", "clean_free")
    /\ ws_prev' = [ws_prev EXCEPT ![t] = ws_tmp[t]]
    /\ ws_tmp' = [ws_tmp EXCEPT ![t] = NextOf(sess_list, ws_tmp[t])]
    /\ UNCHANGED <<clock, lockVars, delOwner, listVars, cleanup_counter, now, sid, ws_iter,
                   invalid_count, session, dataVars, endVars, destroyed>>

\* ... or frees one of the live list that is invalid by now, which is not
\* even unlinked when ws_prev is null.
CleanFree(t) ==
    /\ Usable
    /\ ws_tmp[t] # Nil
    /\ ~Valid(ws_tmp[t], t)
    /\ Goto(t, "clean_free", "clean_free")
    /\ sess_list' = IF ws_prev[t] = Nil THEN sess_list ELSE Without(sess_list, ws_tmp[t])
    /\ sess_deleted' = IF ws_prev[t] = Nil THEN From(sess_list, NextOf(sess_list, ws_tmp[t]))
                       ELSE sess_deleted
    /\ allocated' = allocated \ {ws_tmp[t]}
    /\ registered' = registered \ {ws_tmp[t]}
    /\ freedLive' = TRUE
    /\ UNCHANGED <<clock, lockVars, delOwner, cleanup_counter, valid_until, pageVars,
                   gone, crashed, overlap, noItem, destroyed>>

\* The end of the loop, and cleanup_counter = 0.
CleanDelUnlock(t) ==
    /\ Usable
    /\ Goto(t, "clean_free", AfterCleanup(t))
    /\ ws_tmp[t] = Nil
    /\ delOwner' = Nil
    /\ cleanup_counter' \in Cleared(t)
    /\ ws_prev' = [ws_prev EXCEPT ![t] = Nil]
    /\ UNCHANGED <<clock, lockVars, listVars, now, sid, ws_iter, invalid_count, ws_tmp,
                   session, dataVars, endVars, destroyed>>

-----------------------------------------------------------------------------
(***************************************************************************)
(* The rest of websession_start: a new session when none was found.        *)
(***************************************************************************)
StartCreate(t) ==
    /\ \/ \E n \in Nodes \ allocated :
            /\ Goto(t, "start_create", "start_write_wait")
            /\ allocated' = allocated \cup {n}
            /\ valid_until' = [valid_until EXCEPT ![n] = now[t] + Ttl]
            /\ ws_iter' = [ws_iter EXCEPT ![t] = n]
       \* malloc fails
       \/ /\ Goto(t, "start_create", "start_return")
          /\ UNCHANGED <<allocated, valid_until, ws_iter>>
    /\ now' = [now EXCEPT ![t] = 0]
    /\ UNCHANGED <<clock, lockVars, delOwner, sess_list, sess_deleted, cleanup_counter,
                   sid, invalid_count, ws_prev, ws_tmp, session, dataVars, endVars, destroyed>>

\* ws_iter->next = sess_list, kept in ws_tmp.
StartWriteWait(t) ==
    /\ Usable
    /\ Goto(t, "start_write_wait", "start_insert")
    /\ Lock!AcquireWrite(t)
    /\ ws_tmp' = [ws_tmp EXCEPT ![t] = First(sess_list)]
    /\ UNCHANGED <<clock, delOwner, listVars, cleanup_counter, now, sid, ws_iter,
                   invalid_count, ws_prev, session, dataVars, endVars, destroyed>>

\* sess_list = ws_iter: the list is the new node and what its next leads to.
StartInsert(t) ==
    /\ Usable
    /\ Goto(t, "start_insert", "start_return")
    /\ sess_list' = <<ws_iter[t]>> \o From(sess_list, ws_tmp[t])
    /\ Lock!ReleaseWrite(t)
    /\ ws_tmp' = [ws_tmp EXCEPT ![t] = Nil]
    /\ UNCHANGED <<clock, delOwner, sess_deleted, cleanup_counter, allocated, valid_until,
                   now, sid, ws_iter, invalid_count, ws_prev, session, dataVars, endVars, destroyed>>

\* Bug: a page that has variables does not ask again.
BugGetData(t, n) ==
    IF n \in registered \/ sess_vars[t] # Nil
    THEN /\ sess_vars' = [sess_vars EXCEPT ![t] = IF @ = Nil THEN n ELSE @]
         /\ Goto(t, "start_return", "using")
    ELSE /\ UNCHANGED sess_vars
         /\ Goto(t, "start_return", "register_data")

\* The item of data of session n, the variables of scripts, is looked for
\* without a lock.
GetData(t, n) ==
    IF n \in registered
    THEN /\ sess_vars' = [sess_vars EXCEPT ![t] = n]
         /\ Goto(t, "start_return", "using")
    ELSE /\ UNCHANGED sess_vars
         /\ Goto(t, "start_return", "register_data")

\* session->ref and session->sid, and back in lsp_session_start.  Without a
\* node, or if malloc of the handle fails, NULL is returned and the page keeps
\* the session it had.
StartReturn(t) ==
    /\ \/ /\ Usable
          /\ ws_iter[t] # Nil
          /\ session' = [session EXCEPT ![t] = ws_iter[t]]
          /\ GetData(t, ws_iter[t])
          /\ UNCHANGED sid
       \/ /\ Goto(t, "start_return", IF session[t] = Nil THEN "idle" ELSE "using")
          /\ sid' = [sid EXCEPT ![t] = IF session[t] = Nil THEN Nil ELSE @]
          /\ UNCHANGED <<session, sess_vars>>
    /\ now' = [now EXCEPT ![t] = 0]
    /\ ws_iter' = [ws_iter EXCEPT ![t] = Nil]
    /\ UNCHANGED <<clock, lockVars, delOwner, listVars, cleanup_counter, invalid_count,
                   ws_prev, ws_tmp, registered, endVars, destroyed>>

\* websession_register_data: NULL if there is an item by now, or no memory;
\* the page then keeps the variables it had, or has none.
RegisterData(t) ==
    /\ Usable
    /\ Goto(t, "register_data", "using")
    /\ \/ /\ session[t] \notin registered
          /\ registered' = registered \cup {session[t]}
          /\ sess_vars' = [sess_vars EXCEPT ![t] = session[t]]
          /\ UNCHANGED noItem
       \/ /\ noItem' = (session[t] \notin registered)
          /\ UNCHANGED <<registered, sess_vars>>
    /\ UNCHANGED <<clock, lockVars, delOwner, listVars, cleanup_counter, now, sid, ws_iter,
                   invalid_count, ws_prev, ws_tmp, session, gone, crashed, overlap, freedLive,
                   destroyed>>

\* The page ends.
EndPage(t) ==
    /\ Goto(t, "using", "idle")
    /\ session' = [session EXCEPT ![t] = Nil]
    /\ sid' = [sid EXCEPT ![t] = Nil]
    /\ sess_vars' = [sess_vars EXCEPT ![t] = Nil]
    /\ UNCHANGED <<clock, lockVars, delOwner, listVars, cleanup_counter, now, ws_iter,
                   invalid_count, ws_prev, ws_tmp, registered, endVars, destroyed>>

-----------------------------------------------------------------------------
(***************************************************************************)
(* websession_destroy: the session is looked for under the read lock and   *)
(* made invalid under the write lock, which is taken after the other.      *)
(***************************************************************************)
DestroyFind(t) ==
    /\ Usable
    /\ Goto(t, "using", "destroy_read_post")
    /\ Lock!AcquireRead(t)
    /\ ws_iter' = [ws_iter EXCEPT ![t] =
                     IF session[t] \in Elements(sess_list) THEN session[t] ELSE Nil]
    /\ UNCHANGED <<clock, delOwner, listVars, cleanup_counter, now, sid, invalid_count,
                   ws_prev, ws_tmp, session, dataVars, endVars, destroyed>>

\* Bug: what was not found is made invalid.
BugDestroyReadPost(t) ==
    /\ Usable
    /\ Goto(t, "destroy_read_post", "destroy_write_wait")
    /\ Lock!ReleaseRead(t)
    /\ UNCHANGED <<clock, delOwner, listVars, cleanup_counter, localVars, endVars, destroyed>>

DestroyReadPost(t) ==
    /\ Usable
    /\ Goto(t, "destroy_read_post", IF ws_iter[t] = Nil THEN "using" ELSE "destroy_write_wait")
    /\ Lock!ReleaseRead(t)
    /\ UNCHANGED <<clock, delOwner, listVars, cleanup_counter, localVars, endVars, destroyed>>

DestroyInvalidate(t) ==
    /\ Usable
    /\ Goto(t, "destroy_write_wait", "destroy_write_post")
    /\ Lock!AcquireWrite(t)
    /\ valid_until' = [valid_until EXCEPT ![ws_iter[t]] = 0]
    /\ UNCHANGED <<clock, delOwner, sess_list, sess_deleted, cleanup_counter, allocated,
                   localVars, endVars, destroyed>>

\* ... and returns 1; the page keeps its reference to the session.
DestroyWritePost(t) ==
    /\ Usable
    /\ Goto(t, "destroy_write_post", "using")
    /\ Lock!ReleaseWrite(t)
    /\ destroyed' = destroyed \cup {ws_iter[t]}
    /\ ws_iter' = [ws_iter EXCEPT ![t] = Nil]
    /\ UNCHANGED <<clock, delOwner, listVars, cleanup_counter, now, sid, invalid_count,
                   ws_prev, ws_tmp, session, dataVars, endVars>>

-----------------------------------------------------------------------------
(***************************************************************************)
(* websession_free, called by the main thread after webthread_free: no new *)
(* request is served, but one webthread_free gave up on may be, whether it *)
(* works with a session by now or not.                                     *)
(***************************************************************************)
FreeCall ==
    /\ Usable
    /\ Goto(Main, "idle", "free_del_lock")
    /\ overlap' \in {(\E t \in Threads : pc[t] # "idle"), TRUE}
    /\ UNCHANGED <<clock, lockVars, delOwner, listVars, cleanup_counter, localVars, gone,
                   crashed, freedLive, noItem, destroyed>>

FreeDelLock ==
    /\ Goto(Main, "free_del_lock", "free_write_wait")
    /\ delOwner = Nil
    /\ delOwner' = Main
    /\ UNCHANGED <<clock, lockVars, listVars, cleanup_counter, localVars, endVars, destroyed>>

FreeWriteWait ==
    /\ Goto(Main, "free_write_wait", "free_all")
    /\ Lock!AcquireWrite(Main)
    /\ UNCHANGED <<clock, delOwner, listVars, cleanup_counter, localVars, endVars, destroyed>>

\* Both lists, both locks and the register itself.  One step: between the
\* release of the locks and their destruction nothing is written that is read
\* again, and a thread that comes in there is the one UseAfterFree stands for.
FreeAll ==
    /\ Goto(Main, "free_all", "free_done")
    /\ allocated' = allocated \ (Elements(sess_list) \cup Elements(sess_deleted))
    /\ registered' = registered \cap allocated'
    /\ sess_list' = <<>> /\ sess_deleted' = <<>>
    /\ Lock!ReleaseWrite(Main)
    /\ delOwner' = Nil
    /\ gone' = TRUE
    /\ UNCHANGED <<clock, cleanup_counter, valid_until, pageVars, crashed, overlap,
                   freedLive, noItem, destroyed>>

\* A thread uses the freed register, or a session freed with it.
UseAfterFree(t) ==
    /\ Alive /\ gone
    /\ pc[t] # "start_create"
    /\ pc[t] = "idle" => overlap
    /\ pc[t] = "start_return" => ws_iter[t] # Nil
    /\ crashed' = TRUE
    /\ UNCHANGED <<clock, lockVars, delOwner, listVars, cleanup_counter, pc, localVars, gone,
                   overlap, freedLive, noItem, destroyed>>

Tick ==
    /\ Alive /\ clock < MaxClock
    /\ clock' = clock + 1
    /\ UNCHANGED <<lockVars, delOwner, listVars, cleanup_counter, pc, localVars, endVars,
                   destroyed>>

-----------------------------------------------------------------------------
StartStep(t) ==
    \/ StartCall(t) \/ StartFind(t) \/ StartReadPost(t) \/ StartCleanup(t)
    \/ CleanWriteWait(t) \/ CleanMove(t) \/ CleanWritePost(t)
    \/ CleanDelLock(t) \/ CleanPass(t) \/ CleanFree(t) \/ CleanDelUnlock(t)
    \/ StartCreate(t) \/ StartWriteWait(t) \/ StartInsert(t) \/ StartReturn(t)
    \/ RegisterData(t)

DestroyStep(t) ==
    DestroyFind(t) \/ DestroyReadPost(t) \/ DestroyInvalidate(t) \/ DestroyWritePost(t)

FreeStep == FreeCall \/ FreeDelLock \/ FreeWriteWait \/ FreeAll

Next ==
    \/ \E t \in Threads : StartStep(t) \/ DestroyStep(t) \/ EndPage(t) \/ UseAfterFree(t)
    \/ FreeStep
    \/ Tick

Spec == Init /\ [][Next]_vars

-----------------------------------------------------------------------------
(***************************************************************************)
(* Properties                                                              *)
(***************************************************************************)
\* Every variable has its type.
TypeOK ==
    /\ clock \in 1..MaxClock
    /\ readHolders \subseteq Callers /\ writeHolders \subseteq Callers
    /\ readLocks \in 0..MaxReaders
    /\ delOwner \in Callers \cup {Nil}
    /\ sess_list \in Seq(Nodes) /\ sess_deleted \in Seq(Nodes)
    /\ cleanup_counter \in Nat
    /\ allocated \subseteq Nodes
    /\ valid_until \in [Nodes -> Nat]
    /\ pc \in [Callers -> PCs]
    /\ now \in [Threads -> 0..MaxClock]
    /\ invalid_count \in [Threads -> BOOLEAN]
    /\ {sid, ws_iter, ws_prev, ws_tmp, session, sess_vars} \subseteq [Threads -> Nodes \cup {Nil}]
    /\ {gone, crashed, overlap, freedLive, noItem} \subseteq BOOLEAN
    /\ {registered, destroyed} \subseteq SUBSET Nodes

\* Nodes of sessions that a thread has made and not put into the list.
Private == {ws_iter[t] : t \in {u \in Threads :
                pc[u] \in {"start_write_wait", "start_insert"}}}

\* No interleaving of starts, destroys and clean-ups loses a session, links
\* it twice or leaves a freed one linked, until the register is freed.
ListsSound ==
    Alive /\ ~gone =>
        /\ allocated = Elements(sess_list) \cup Elements(sess_deleted) \cup Private
        /\ Len(sess_list) + Len(sess_deleted) + Cardinality(Private)
             = Cardinality(allocated)

\* A destroyed session stays invalid: no session_start that runs at the same
\* time, with whatever time it read, brings it back.
DestroyedStaysInvalid ==
    Alive => \A n \in destroyed \cap Elements(sess_list) : valid_until[n] = 0

\* A page works with the variables of the session it works with, however
\* often it starts and destroys sessions, and although luasp_session.c:68 and
\* 71 are two calls, with another page of the session in between: the id of a
\* session is sent after its item was registered, if there was memory for it.
VariablesOfSession ==
    ~noItem => \A t \in Threads : pc[t] = "using" => sess_vars[t] = session[t]

\* websession.c:164, 280-281: the second loop removes sessions from the
\* deleted session list, so no session of the live list is freed.
CleanupFreesDeleted == ~freedLive
=============================================================================
