--------------------------- MODULE WebSessionProofs ---------------------------
(***************************************************************************)
(* Proofs about WebSession for every set of threads and of nodes, every    *)
(* number of read locks and all times.                                     *)
(***************************************************************************)
EXTENDS WebSession, FiniteSetTheorems, SequenceTheorems, WellFoundedInduction, TLAPS

\* A set of natural numbers that is not empty has a least one: the first
\* session of the list that timed out.
LEMMA LeastOf ==
    ASSUME NEW S, S \subseteq Nat, S # {}
    PROVE  \E m \in S : \A k \in S : m <= k
  <1> DEFINE Below == {p \in Nat \X Nat : p[1] < p[2]}
  <1>1. IsWellFoundedOn(Below, Nat)
    BY NatLessThanWellFounded DEF OpToRel
  <1>2. PICK m \in S : \A k \in S : ~ (<<k, m>> \in Below)
    BY <1>1, WFMin
  <1>3. ASSUME NEW k \in S PROVE m <= k
    <2>1. ~ (<<k, m>> \in Below) /\ k \in Nat /\ m \in Nat
      BY <1>2
    <2>2. ~ (k < m)
      BY <2>1
    <2> QED
      BY <2>1, <2>2
  <1> QED
    BY <1>3

ReadPCs == {"start_read_post", "destroy_read_post"}
WritePCs == {"clean_move", "start_insert", "destroy_write_post", "free_all"}
FreePCs == {"free_del_lock", "free_write_wait", "free_all", "free_done"}

\* sess_lock is held where the code is between an acquire and its release,
\* and gives out as many read locks as it has.
LockHeld ==
    /\ readHolders = {t \in Threads : pc[t] \in ReadPCs}
    /\ \A c \in Callers : c \in writeHolders <=> pc[c] \in WritePCs
    /\ \A c, d \in writeHolders : c = d
    /\ readHolders = {} \/ writeHolders = {}
    /\ IsFiniteSet(readHolders)
    /\ readLocks + Cardinality(readHolders) = MaxReaders

\* Where the callers can be, and who has sess_del_mutex.
Places ==
    /\ pc[Main] \in FreePCs \cup {"idle"}
    /\ \A t \in Threads : pc[t] \notin FreePCs
    /\ \A t \in Threads : pc[t] = "clean_free" => delOwner = t
    /\ pc[Main] \in {"free_write_wait", "free_all"} => delOwner = Main
    /\ gone <=> pc[Main] = "free_done"
    /\ gone => sess_list = <<>> /\ sess_deleted = <<>>

\* The node a thread works with, and the place in the list it has read.
Locals ==
    \A t \in Threads :
        /\ pc[t] = "start_create" => ws_iter[t] = Nil
        /\ pc[t] \in {"start_write_wait", "start_insert", "destroy_write_wait",
                      "destroy_write_post"} => ws_iter[t] # Nil
        /\ Alive /\ pc[t] = "start_insert" => ws_tmp[t] = First(sess_list)
        /\ Alive /\ ~gone /\ pc[t] = "clean_free" => ws_tmp[t] \in Elements(sess_list) \cup {Nil}
        /\ pc[t] = "start_read_wait" => now[t] > 0

Distinct(s) == \A j, k \in 1..Len(s) : s[j] = s[k] => j = k
Linked == Elements(sess_list) \cup Elements(sess_deleted)
Making(t) == pc[t] \in {"start_write_wait", "start_insert"}

\* Every node is in one place: once in one of the lists, or with the one
\* thread that makes it.
OnePlace ==
    /\ Distinct(sess_list) /\ Distinct(sess_deleted)
    /\ Elements(sess_list) \cap Elements(sess_deleted) = {}
    /\ Private \cap Linked = {}
    /\ \A t, u \in Threads : Making(t) /\ Making(u) /\ ws_iter[t] = ws_iter[u] => t = u
    /\ allocated = Linked \cup Private
    /\ IsFiniteSet(allocated)

\* The session whose data thread t looks for or registers.
Owned(t) == IF pc[t] \in {"start_write_wait", "start_insert", "start_return"} THEN ws_iter[t]
            ELSE IF pc[t] = "register_data" THEN session[t] ELSE Nil
LooksFor == {"start_read_post", "start_cleanup", "clean_write_wait", "clean_move",
             "clean_del_lock", "clean_free"}

\* What a thread has a pointer to is a node in use; what it got from a client
\* is registered, and what it is about to register is not.
Refers(t) ==
    /\ sid[t] \in registered \cup {Nil}
    /\ pc[t] \in LooksFor => ws_iter[t] \in registered \cup {Nil}
    /\ ws_iter[t] \in allocated \cup {Nil} /\ session[t] \in allocated \cup {Nil}
    /\ pc[t] = "register_data" => session[t] # Nil /\ session[t] \notin registered

\* A session that two threads work with is one whose item was registered
\* before its id was sent.
OwnedOnce ==
    \A t, u \in Threads :
        Owned(t) = Owned(u) /\ Owned(t) # Nil => t = u \/ Owned(t) \in registered

Shared == registered \subseteq allocated /\ (\A t \in Threads : Refers(t)) /\ OwnedOnce

\* A session to destroy, or destroyed, is in one of the lists, and invalid in
\* the live list from the write lock on.
Destroying ==
    /\ destroyed \subseteq Linked
    /\ \A t \in Threads :
        /\ pc[t] = "destroy_read_post" => ws_iter[t] \in Linked \cup {Nil}
        /\ pc[t] \in {"destroy_write_wait", "destroy_write_post"} => ws_iter[t] \in Linked
        /\ pc[t] = "destroy_write_post" /\ ws_iter[t] \in Elements(sess_list)
             => valid_until[ws_iter[t]] = 0

\* The variables of a page change with its session.
SameSession == ~noItem => \A t \in Threads : pc[t] # "register_data" => sess_vars[t] = session[t]

\* Nothing is said of the nodes once freed memory is linked, or the register
\* is gone.
SessionInv ==
    /\ TypeOK
    /\ LockHeld
    /\ Places
    /\ Locals
    /\ Alive /\ ~gone => OnePlace /\ Shared /\ Destroying
    /\ DestroyedStaysInvalid
    /\ SameSession

-----------------------------------------------------------------------------
(***************************************************************************)
(* The lists: what the operators of WebSession do with them.               *)
(***************************************************************************)
\* A node of a list has a place in it.
LEMMA PlaceInside ==
    ASSUME NEW s \in Seq(Nodes), NEW n \in Elements(s)
    PROVE  PlaceOf(s, n) \in 1..Len(s) /\ s[PlaceOf(s, n)] = n
  BY DEF Elements, PlaceOf

\* What is in a list is a node.
LEMMA ListElements ==
    ASSUME NEW s \in Seq(Nodes)
    PROVE  /\ Len(s) \in Nat
           /\ Elements(s) \subseteq Nodes
           /\ \A k \in 1..Len(s) : s[k] \in Nodes /\ s[k] \in Elements(s)
  BY ElementOfSeq, LenProperties DEF Elements

\* The head of a list, or its end.
LEMMA FirstInside ==
    ASSUME NEW s \in Seq(Nodes)
    PROVE  First(s) \in Elements(s) \cup {Nil}
  BY EmptySeq DEF First, Elements

\* The next of a node of the list is in the list, or null.
LEMMA NextInside ==
    ASSUME NEW s \in Seq(Nodes), NEW n \in Elements(s)
    PROVE  NextOf(s, n) \in Elements(s) \cup {Nil}
  <1>1. CASE PlaceOf(s, n) = Len(s)
    BY <1>1 DEF NextOf
  <1>2. CASE PlaceOf(s, n) # Len(s)
    <2>1. Len(s) \in Nat /\ PlaceOf(s, n) + 1 \in 1..Len(s)
      BY <1>2, PlaceInside, LenProperties
    <2> QED
      BY <1>2, <2>1 DEF NextOf, Elements
  <1> QED
    BY <1>1, <1>2

\* What a node of a list leads to is a list.
LEMMA FromType ==
    ASSUME NEW s \in Seq(Nodes), NEW n \in Elements(s) \cup {Nil}, Nil \notin Nodes
    PROVE  From(s, n) \in Seq(Nodes)
  <1>1. CASE n = Nil
    BY <1>1, EmptySeq DEF From
  <1>2. CASE n # Nil
    <2>1. PlaceOf(s, n) \in 1..Len(s) /\ Len(s) \in Nat
      BY <1>2, PlaceInside, LenProperties
    <2>2. \A i \in PlaceOf(s, n)..Len(s) : s[i] \in Nodes
      BY <2>1, ElementOfSeq
    <2>3. SubSeq(s, PlaceOf(s, n), Len(s)) \in Seq(Nodes)
      BY <2>1, <2>2, SubSeqProperties
    <2> QED
      BY <1>2, <2>3 DEF From
  <1> QED
    BY <1>1, <1>2

\* A new node whose next is the first one leads to the whole list.
LEMMA FromFirst ==
    ASSUME NEW s \in Seq(Nodes), Distinct(s), Nil \notin Nodes
    PROVE  From(s, First(s)) = s
  <1>1. CASE s = <<>>
    BY <1>1 DEF First, From
  <1>2. CASE s # <<>>
    <2>1. Len(s) \in Nat \ {0} /\ First(s) = s[1] /\ s[1] \in Nodes /\ s[1] \in Elements(s)
      BY <1>2, EmptySeq, ListElements DEF First
    <2>2. PlaceOf(s, s[1]) \in 1..Len(s) /\ s[PlaceOf(s, s[1])] = s[1]
      BY <2>1, PlaceInside
    <2>3. PlaceOf(s, s[1]) = 1
      BY <2>1, <2>2 DEF Distinct
    <2>4. SubSeq(s, 1, Len(s)) = s
      BY SubSeqFull
    <2> QED
      BY <2>1, <2>3, <2>4 DEF From
  <1> QED
    BY <1>1, <1>2

\* Unlinking a node takes it, and nothing else, out of the list.
LEMMA Unlinked ==
    ASSUME NEW s \in Seq(Nodes), Distinct(s), NEW n \in Elements(s)
    PROVE  /\ Without(s, n) \in Seq(Nodes)
           /\ Distinct(Without(s, n))
           /\ Elements(Without(s, n)) = Elements(s) \ {n}
  <1> DEFINE p == PlaceOf(s, n)
             a == SubSeq(s, 1, p - 1)
             b == SubSeq(s, p + 1, Len(s))
             w == Without(s, n)
  <1>1. Len(s) \in Nat /\ p \in 1..Len(s) /\ s[p] = n
    BY PlaceInside, LenProperties
  <1>2. \A i \in 1..Len(s) : s[i] \in Nodes
    BY ElementOfSeq
  <1>3. a \in Seq(Nodes) /\ Len(a) = p - 1 /\ \A i \in 1..p-1 : a[i] = s[i]
    BY <1>1, <1>2, SubSeqProperties
  <1>4. /\ b \in Seq(Nodes) /\ Len(b) = Len(s) - p
        /\ \A i \in 1..Len(s) - p : b[i] = s[p + i]
    <2>1. Len(s) - (p + 1) + 1 = Len(s) - p
      BY <1>1
    <2>2. /\ b \in Seq(Nodes)
          /\ Len(b) = IF p + 1 <= Len(s) THEN Len(s) - (p + 1) + 1 ELSE 0
          /\ \A i \in 1..Len(s) - (p + 1) + 1 : b[i] = s[(p + 1) + i - 1]
      BY <1>1, <1>2, SubSeqProperties
    <2>3. \A i \in 1..Len(s) - p : (p + 1) + i - 1 = p + i
      BY <1>1
    <2> QED
      BY <1>1, <2>1, <2>2, <2>3
  <1> HIDE DEF a, b
  <1>5. w = a \o b
    BY DEF a, b, Without
  <1>6. /\ w \in Seq(Nodes) /\ Len(w) = Len(s) - 1
        /\ \A i \in 1..Len(w) : w[i] = s[IF i < p THEN i ELSE i + 1]
    <2>1. /\ a \o b \in Seq(Nodes) /\ Len(a \o b) = Len(a) + Len(b)
          /\ \A i \in 1..Len(a) + Len(b) :
                (a \o b)[i] = IF i <= Len(a) THEN a[i] ELSE b[i - Len(a)]
      BY <1>3, <1>4, ConcatProperties
    <2>2. Len(a) + Len(b) = Len(s) - 1
      BY <1>1, <1>3, <1>4
    <2>3. ASSUME NEW i \in 1..Len(s) - 1
          PROVE  (a \o b)[i] = s[IF i < p THEN i ELSE i + 1]
      <3>1. CASE i < p
        BY <1>1, <1>3, <2>1, <2>2, <3>1
      <3>2. CASE i >= p
        <4>1. i - Len(a) \in 1..Len(s) - p /\ p + (i - Len(a)) = i + 1
          BY <1>1, <1>3, <3>2
        <4>2. (a \o b)[i] = b[i - Len(a)]
          <5>1. i \in 1..Len(a) + Len(b) /\ ~(i <= Len(a))
            BY <1>1, <1>3, <2>2, <3>2
          <5> QED
            BY <2>1, <5>1
        <4> QED
          BY <1>1, <1>4, <3>2, <4>1, <4>2
      <3>3. i < p \/ i >= p
        BY <1>1
      <3> QED
        BY <3>1, <3>2, <3>3
    <2> QED
      BY <1>5, <2>1, <2>2, <2>3
  <1> HIDE DEF w
  <1>7. Distinct(w)
    <2> SUFFICES ASSUME NEW j \in 1..Len(w), NEW k \in 1..Len(w), w[j] = w[k]
                 PROVE  j = k
      BY DEF Distinct
    <2> DEFINE at(i) == IF i < p THEN i ELSE i + 1
    <2>1. at(j) \in 1..Len(s) /\ at(k) \in 1..Len(s)
      BY <1>1, <1>6
    <2>2. s[at(j)] = s[at(k)]
      BY <1>6
    <2>3. at(j) = at(k)
      BY <2>1, <2>2 DEF Distinct
    <2> QED
      BY <1>1, <1>6, <2>3
  <1>8. Elements(w) \subseteq Elements(s) \ {n}
    <2> SUFFICES ASSUME NEW k \in 1..Len(w) PROVE w[k] \in Elements(s) /\ w[k] # n
      BY DEF Elements
    <2> DEFINE at == IF k < p THEN k ELSE k + 1
    <2>1. at \in 1..Len(s) /\ at # p /\ w[k] = s[at]
      BY <1>1, <1>6
    <2> QED
      BY <1>1, <2>1 DEF Elements, Distinct
  <1>9. Elements(s) \ {n} \subseteq Elements(w)
    <2> SUFFICES ASSUME NEW k \in 1..Len(s), s[k] # n PROVE s[k] \in Elements(w)
      BY DEF Elements
    <2> DEFINE at == IF k < p THEN k ELSE k - 1
    <2>1. k # p
      BY <1>1
    <2>2. at \in 1..Len(w) /\ (IF at < p THEN at ELSE at + 1) = k
      BY <1>1, <1>6, <2>1
    <2>3. w[at] = s[k]
      BY <1>6, <2>2
    <2> QED
      BY <2>2, <2>3 DEF Elements
  <1> QED
    BY <1>6, <1>7, <1>8, <1>9 DEF w

\* A node is linked in front of a list.
LEMMA Pushed ==
    ASSUME NEW s \in Seq(Nodes), NEW n \in Nodes
    PROVE  /\ <<n>> \o s \in Seq(Nodes)
           /\ Elements(<<n>> \o s) = Elements(s) \cup {n}
           /\ Distinct(s) /\ n \notin Elements(s) => Distinct(<<n>> \o s)
  <1> DEFINE w == <<n>> \o s
  <1>1. Len(s) \in Nat
    BY LenProperties
  <1>2. /\ w \in Seq(Nodes) /\ Len(w) = Len(s) + 1
        /\ \A i \in 1..Len(w) : w[i] = IF i = 1 THEN n ELSE s[i - 1]
    <2>1. <<n>> \in Seq(Nodes) /\ Len(<<n>>) = 1 /\ <<n>>[1] = n
      OBVIOUS
    <2> QED
      BY <1>1, <2>1, ConcatProperties
  <1> HIDE DEF w
  <1>3. Elements(w) = Elements(s) \cup {n}
    <2>1. ASSUME NEW k \in 1..Len(w) PROVE w[k] \in Elements(s) \cup {n}
      BY <1>1, <1>2 DEF Elements
    <2>2. ASSUME NEW k \in 1..Len(s) PROVE s[k] \in Elements(w)
      <3>1. k + 1 \in 1..Len(w) /\ w[k + 1] = s[k]
        BY <1>1, <1>2
      <3> QED
        BY <3>1 DEF Elements
    <2>3. n \in Elements(w)
      BY <1>1, <1>2 DEF Elements
    <2> QED
      BY <2>1, <2>2, <2>3 DEF Elements
  <1>4. ASSUME Distinct(s), n \notin Elements(s) PROVE Distinct(w)
    <2> SUFFICES ASSUME NEW j \in 1..Len(w), NEW k \in 1..Len(w), w[j] = w[k]
                 PROVE  j = k
      BY DEF Distinct
    <2>1. j = 1 => w[j] = n
      BY <1>2
    <2>2. j # 1 => j - 1 \in 1..Len(s) /\ w[j] = s[j - 1]
      BY <1>1, <1>2
    <2>3. k = 1 => w[k] = n
      BY <1>2
    <2>4. k # 1 => k - 1 \in 1..Len(s) /\ w[k] = s[k - 1]
      BY <1>1, <1>2
    <2>5. \A i \in 1..Len(s) : s[i] # n
      BY <1>4 DEF Elements
    <2>6. j # 1 /\ k # 1 => j - 1 = k - 1
      BY <1>4, <2>2, <2>4 DEF Distinct
    <2>7. (j = 1) = (k = 1)
      BY <2>1, <2>2, <2>3, <2>4, <2>5
    <2> QED
      BY <2>6, <2>7
  <1> QED
    BY <1>2, <1>3, <1>4 DEF w

\* A list without repetitions has as many nodes as its length says.
LEMMA DistinctCount ==
    ASSUME NEW s \in Seq(Nodes), Distinct(s)
    PROVE  IsFiniteSet(Elements(s)) /\ Cardinality(Elements(s)) = Len(s)
  <1>1. Len(s) \in Nat /\ s \in [1..Len(s) -> Nodes]
    BY LenProperties
  <1>2. s \in Bijection(1..Len(s), Elements(s))
    <2>1. s \in [1..Len(s) -> Elements(s)]
      BY <1>1 DEF Elements
    <2>2. \A n \in Elements(s) : \E k \in 1..Len(s) : s[k] = n
      BY DEF Elements
    <2> QED
      BY <2>1, <2>2 DEF Bijection, Injection, Surjection, IsInjective, Distinct
  <1>3. IsFiniteSet(1..Len(s)) /\ Cardinality(1..Len(s)) = Len(s)
    BY <1>1, FS_Interval
  <1> QED
    BY <1>2, <1>3, FS_Bijection DEF ExistsBijection

\* The walk of the clean-up stops at a session that timed out, if there is one.
LEMMA FirstExpiredInside ==
    ASSUME NEW t \in Threads, Expired(t) # {}, sess_list \in Seq(Nodes)
    PROVE  FirstExpired(t) \in Expired(t)
  <1> DEFINE At == {k \in 1..Len(sess_list) : sess_list[k] \in Expired(t)}
  <1>1. Len(sess_list) \in Nat
    BY LenProperties
  <1>2. At \subseteq Nat /\ At # {}
    BY <1>1 DEF Expired, Elements
  <1>3. PICK m \in At : \A k \in At : m <= k
    BY <1>2, LeastOf
  <1>4. \A j \in 1..(m - 1) : sess_list[j] \notin Expired(t)
    <2> SUFFICES ASSUME NEW j \in 1..(m - 1) PROVE j \notin At
      BY <1>1, <1>3
    <2> QED
      BY <1>1, <1>3
  <1>5. m \in 1..Len(sess_list) /\ sess_list[m] \in Expired(t)
    OBVIOUS
  <1> HIDE DEF At
  <1>6. \E k \in 1..Len(sess_list) : /\ sess_list[k] \in Expired(t)
                                     /\ \A j \in 1..(k - 1) : sess_list[j] \notin Expired(t)
    BY <1>4, <1>5
  <1> QED
    BY <1>6 DEF FirstExpired

\* What one step of web thread t, or of the main thread and the clock, can be.
WebStep(t) == StartStep(t) \/ DestroyStep(t) \/ EndPage(t) \/ UseAfterFree(t)
MainStep == FreeStep \/ Tick

\* Every read lock that is held has been counted.
LEMMA ReadersCounted ==
    ASSUME SessionInv, NEW t \in Threads, Lock!AcquireRead(t) \/ Lock!ReleaseRead(t)
    PROVE  /\ IsFiniteSet(readHolders')
           /\ readLocks' + Cardinality(readHolders') = MaxReaders
           /\ readLocks' \in 0..MaxReaders
  <1>1. /\ IsFiniteSet(readHolders) /\ readLocks \in Nat /\ MaxReaders \in Nat
        /\ readLocks + Cardinality(readHolders) = MaxReaders
    BY WebSessionAssumption DEF SessionInv, LockHeld, TypeOK
  <1>2. Cardinality(readHolders) \in Nat
    BY <1>1, FS_CardinalityType
  <1>3. CASE Lock!AcquireRead(t)
    <2>1. /\ t \notin readHolders /\ readHolders' = readHolders \cup {t}
          /\ readLocks > 0 /\ readLocks' = readLocks - 1
      BY <1>3 DEF Lock!AcquireRead
    <2>2. IsFiniteSet(readHolders') /\ Cardinality(readHolders') = Cardinality(readHolders) + 1
      BY <1>1, <2>1, FS_AddElement
    <2> QED
      BY <1>1, <1>2, <2>1, <2>2
  <1>4. CASE Lock!ReleaseRead(t)
    <2>1. /\ t \in readHolders /\ readHolders' = readHolders \ {t}
          /\ readLocks' = readLocks + 1
      BY <1>4 DEF Lock!ReleaseRead
    <2>2. IsFiniteSet(readHolders') /\ Cardinality(readHolders') = Cardinality(readHolders) - 1
      BY <1>1, <2>1, FS_RemoveElement
    <2>3. Cardinality(readHolders') \in Nat
      BY <2>2, FS_CardinalityType
    <2> QED
      BY <1>1, <1>2, <2>1, <2>2, <2>3
  <1> QED
    BY <1>3, <1>4

-----------------------------------------------------------------------------
(***************************************************************************)
(* The steps of a web thread, one part of the invariant after the other.   *)
(***************************************************************************)
\* sess_lock: who holds it follows from where the code is.
LEMMA WebLock ==
    ASSUME SessionInv, NEW t \in Threads, WebStep(t)
    PROVE  LockHeld'
  <1> USE WebSessionAssumption DEF SessionInv, TypeOK, Places, LockHeld,
         ReadPCs, WritePCs, FreePCs, Callers, AfterCleanup, GetData,
         Lock!AcquireRead, Lock!ReleaseRead, Lock!AcquireWrite,
         Lock!ReleaseWrite, Goto, Alive, Usable, lockVars, listVars, dataVars,
         pageVars, localVars, endVars
  <1>1. CASE StartCall(t)
    BY <1>1 DEF StartCall
  <1>2. CASE StartFind(t)
    <2>1. Lock!AcquireRead(t)
      BY <1>2 DEF StartFind
    <2>2. /\ pc[t] = "start_read_wait" /\ pc' = [pc EXCEPT ![t] = "start_read_post"]
          /\ writeHolders = {} /\ writeHolders' = {} /\ readHolders' = readHolders \cup {t}
      BY <1>2 DEF StartFind
    <2>3. readHolders' = {u \in Threads : pc'[u] \in ReadPCs}
      BY <2>2
    <2>4. \A c \in Callers : c \in writeHolders' <=> pc'[c] \in WritePCs
      BY <2>2
    <2>5. /\ \A c, d \in writeHolders' : c = d
          /\ readHolders' = {} \/ writeHolders' = {}
      BY <2>2
    <2> QED
      BY <2>1, <2>3, <2>4, <2>5, ReadersCounted
  <1>3. CASE StartReadPost(t)
    <2>1. Lock!ReleaseRead(t)
      BY <1>3 DEF StartReadPost
    <2>2. readHolders' = {u \in Threads : pc'[u] \in ReadPCs}
      BY <1>3 DEF StartReadPost
    <2>3. /\ pc[t] = "start_read_post" /\ pc' = [pc EXCEPT ![t] = "start_cleanup"]
          /\ readHolders' = readHolders \ {t} /\ writeHolders' = writeHolders
      BY <1>3 DEF StartReadPost
    <2>4. \A c \in Callers : c \in writeHolders' <=> pc'[c] \in WritePCs
      BY <2>3
    <2>5. /\ \A c, d \in writeHolders' : c = d
          /\ readHolders' = {} \/ writeHolders' = {}
      BY <2>3
    <2> QED
      BY <2>1, <2>2, <2>4, <2>5, ReadersCounted
  <1>4. CASE StartCleanup(t)
    <2>1. /\ pc[t] = "start_cleanup"
          /\ \E p \in {"clean_write_wait", "start_create", "start_return"} : pc' = [pc EXCEPT ![t] = p]
          /\ UNCHANGED <<readHolders, writeHolders, readLocks>>
      BY <1>4 DEF StartCleanup
    <2> QED
      BY <2>1
  <1>5. CASE CleanWriteWait(t)
    BY <1>5 DEF CleanWriteWait
  <1>6. CASE CleanMove(t)
    <2>1. /\ pc[t] = "clean_move" /\ pc' = [pc EXCEPT ![t] = "clean_move"]
          /\ UNCHANGED <<readHolders, writeHolders, readLocks>>
      BY <1>6 DEF CleanMove
    <2> QED
      BY <2>1
  <1>7. CASE CleanWritePost(t)
    BY <1>7 DEF CleanWritePost
  <1>8. CASE CleanDelLock(t)
    BY <1>8 DEF CleanDelLock
  <1>9. CASE CleanPass(t)
    BY <1>9 DEF CleanPass
  <1>10. CASE CleanFree(t)
    BY <1>10 DEF CleanFree
  <1>11. CASE CleanDelUnlock(t)
    BY <1>11 DEF CleanDelUnlock
  <1>12. CASE StartCreate(t)
    <2>1. /\ pc' = [pc EXCEPT ![t] = "start_write_wait"] \/ pc' = [pc EXCEPT ![t] = "start_return"]
          /\ pc[t] = "start_create"
          /\ UNCHANGED <<readHolders, writeHolders, readLocks>>
      BY <1>12 DEF StartCreate
    <2> QED
      BY <2>1
  <1>13. CASE StartWriteWait(t)
    BY <1>13 DEF StartWriteWait
  <1>14. CASE StartInsert(t)
    BY <1>14 DEF StartInsert
  <1>15. CASE StartReturn(t)
    <2>1. /\ \E p \in {"idle", "using", "register_data"} : pc' = [pc EXCEPT ![t] = p]
          /\ pc[t] = "start_return"
          /\ UNCHANGED <<readHolders, writeHolders, readLocks>>
      BY <1>15 DEF StartReturn
    <2> QED
      BY <2>1
  <1>16. CASE RegisterData(t)
    BY <1>16 DEF RegisterData
  <1>17. CASE DestroyFind(t)
    <2>1. Lock!AcquireRead(t)
      BY <1>17 DEF DestroyFind
    <2>2. readHolders' = {u \in Threads : pc'[u] \in ReadPCs}
      BY <1>17 DEF DestroyFind
    <2>3. /\ \A c \in Callers : c \in writeHolders' <=> pc'[c] \in WritePCs
          /\ \A c, d \in writeHolders' : c = d
          /\ readHolders' = {} \/ writeHolders' = {}
      BY <1>17 DEF DestroyFind
    <2> QED
      BY <2>1, <2>2, <2>3, ReadersCounted
  <1>18. CASE DestroyReadPost(t)
    <2>1. Lock!ReleaseRead(t)
      BY <1>18 DEF DestroyReadPost
    <2>2. readHolders' = {u \in Threads : pc'[u] \in ReadPCs}
      BY <1>18 DEF DestroyReadPost
    <2>3. /\ \A c \in Callers : c \in writeHolders' <=> pc'[c] \in WritePCs
          /\ \A c, d \in writeHolders' : c = d
          /\ readHolders' = {} \/ writeHolders' = {}
      BY <1>18 DEF DestroyReadPost
    <2> QED
      BY <2>1, <2>2, <2>3, ReadersCounted
  <1>19. CASE DestroyInvalidate(t)
    BY <1>19 DEF DestroyInvalidate
  <1>20. CASE DestroyWritePost(t)
    BY <1>20 DEF DestroyWritePost
  <1>21. CASE EndPage(t)
    BY <1>21 DEF EndPage
  <1>22. CASE UseAfterFree(t)
    BY <1>22 DEF UseAfterFree
  <1> QED
    BY <1>1, <1>2, <1>3, <1>4, <1>5, <1>6, <1>7, <1>8, <1>9, <1>10, <1>11,
       <1>12, <1>13, <1>14, <1>15, <1>16, <1>17, <1>18, <1>19, <1>20, <1>21,
       <1>22
       DEF WebStep, StartStep, DestroyStep

\* Types.  The node a walk stands on is in its list, so that its next is a
\* node or null.
LEMMA WebTypes ==
    ASSUME SessionInv, NEW t \in Threads, WebStep(t)
    PROVE  TypeOK'
  <1> USE WebSessionAssumption DEF SessionInv, TypeOK, PCs, Callers,
         AfterCleanup, GetData, Lock!AcquireRead, Lock!ReleaseRead,
         Lock!AcquireWrite, Lock!ReleaseWrite, Goto, Alive, Usable, lockVars,
         listVars, dataVars, pageVars, localVars, endVars
  <1>1. CASE StartCall(t)
    <2>1. sid' \in [Threads -> Nodes \cup {Nil}]
      <3>1. Known \subseteq Nodes
        BY ListElements DEF Known
      <3>2. \/ \E s \in Known \cup {Nil} : sid' = [sid EXCEPT ![t] = s]
            \/ sid' = sid
        BY <1>1 DEF StartCall
      <3> QED
        BY <3>1, <3>2
    <2>2. now' \in [Threads -> 0..MaxClock]
      BY <1>1 DEF StartCall
    <2>3. pc' \in [Callers -> PCs]
      BY <1>1 DEF StartCall
    <2> QED
      BY <1>1, <2>1, <2>2, <2>3 DEF StartCall
  <1>2. CASE StartFind(t)
    <2>1. Lock!AcquireRead(t)
      BY <1>2 DEF StartFind
    <2>2. ws_iter' \in [Threads -> Nodes \cup {Nil}]
      BY <1>2 DEF StartFind
    <2>3. valid_until' \in [Nodes -> Nat]
      <3>1. \/ valid_until' = valid_until
            \/ valid_until' = [valid_until EXCEPT ![sid[t]] = now[t] + Ttl]
        BY <1>2 DEF StartFind
      <3>2. now[t] + Ttl \in Nat
        OBVIOUS
      <3> QED
        BY <3>1, <3>2
    <2>4. invalid_count' \in [Threads -> BOOLEAN]
      BY <1>2 DEF StartFind
    <2>5. pc' \in [Callers -> PCs] /\ readHolders' \subseteq Callers
      BY <1>2 DEF StartFind
    <2>6. UNCHANGED <<clock, writeHolders, delOwner, sess_list, sess_deleted,
                      cleanup_counter, allocated, now, sid, ws_prev, ws_tmp, session,
                      dataVars, endVars, destroyed>>
      BY <1>2 DEF StartFind
    <2>7. readLocks' \in 0..MaxReaders
      BY <2>1, ReadersCounted
    <2>8. /\ now' \in [Threads -> 0..MaxClock]
          /\ {sid', ws_iter', ws_prev', ws_tmp', session', sess_vars'}
               \subseteq [Threads -> Nodes \cup {Nil}]
      BY <2>2, <2>6
    <2> QED
      BY <2>3, <2>4, <2>5, <2>6, <2>7, <2>8
  <1>3. CASE StartReadPost(t)
    <2>1. Lock!ReleaseRead(t)
      BY <1>3 DEF StartReadPost
    <2>2. pc' \in [Callers -> PCs] /\ readHolders' \subseteq Callers
      BY <1>3 DEF StartReadPost
    <2> QED
      BY <1>3, <2>1, <2>2, ReadersCounted DEF StartReadPost
  <1>4. CASE StartCleanup(t)
    <2>1. cleanup_counter' \in Nat
      BY <1>4, WebSessionAssumption DEF StartCleanup, Incremented, Counted
    <2>2. pc' \in [Callers -> PCs]
      BY <1>4 DEF StartCleanup
    <2>3. invalid_count' \in [Threads -> BOOLEAN]
      BY <1>4 DEF StartCleanup
    <2> QED
      BY <1>4, <2>1, <2>2, <2>3 DEF StartCleanup
  <1>5. CASE CleanWriteWait(t)
    BY <1>5 DEF CleanWriteWait
  <1>6. CASE CleanMove(t)
    <2> DEFINE n == FirstExpired(t)
    <2>1. n \in Elements(sess_list) /\ n \in Nodes /\ Alive /\ ~gone
      BY <1>6, FirstExpiredInside, ListElements DEF CleanMove, Expired
    <2> HIDE DEF n
    <2>2. sess_list' \in Seq(Nodes)
      BY <1>6, <2>1, Unlinked DEF CleanMove, OnePlace, n
    <2>3. sess_deleted' \in Seq(Nodes)
      BY <1>6, <2>1, Pushed DEF CleanMove, n
    <2>4. valid_until' \in [Nodes -> Nat]
      BY <1>6, <2>1 DEF CleanMove, n
    <2> QED
      BY <1>6, <2>2, <2>3, <2>4 DEF CleanMove
  <1>7. CASE CleanWritePost(t)
    BY <1>7 DEF CleanWritePost
  <1>8. CASE CleanDelLock(t)
    <2>1. ws_tmp' \in [Threads -> Nodes \cup {Nil}]
      BY <1>8, FirstInside, ListElements DEF CleanDelLock
    <2>2. pc' \in [Callers -> PCs] /\ delOwner' \in Callers
      BY <1>8 DEF CleanDelLock
    <2> QED
      BY <1>8, <2>1, <2>2 DEF CleanDelLock
  <1>9. CASE CleanPass(t)
    <2>1. ws_tmp[t] \in Elements(sess_list)
      BY <1>9 DEF CleanPass, Locals
    <2>2. NextOf(sess_list, ws_tmp[t]) \in Nodes \cup {Nil}
      BY <1>9, <2>1, NextInside, ListElements DEF CleanPass
    <2>3. ws_tmp' \in [Threads -> Nodes \cup {Nil}]
      BY <1>9, <2>2 DEF CleanPass
    <2>4. ws_prev' \in [Threads -> Nodes \cup {Nil}]
      BY <1>9 DEF CleanPass
    <2>5. pc' \in [Callers -> PCs]
      BY <1>9 DEF CleanPass
    <2>6. UNCHANGED <<clock, lockVars, delOwner, listVars, cleanup_counter, now, sid, ws_iter,
                      invalid_count, session, dataVars, endVars, destroyed>>
      BY <1>9 DEF CleanPass
    <2>7. TypeOK
      OBVIOUS
    <2> HIDE DEF SessionInv
    <2> QED
      BY <2>3, <2>4, <2>5, <2>6, <2>7
  <1>10. CASE CleanFree(t)
    <2>1. ws_tmp[t] \in Elements(sess_list) /\ Distinct(sess_list)
      BY <1>10 DEF CleanFree, Locals, OnePlace
    <2>2. Without(sess_list, ws_tmp[t]) \in Seq(Nodes)
      BY <2>1, Unlinked
    <2>3. From(sess_list, NextOf(sess_list, ws_tmp[t])) \in Seq(Nodes)
      BY <2>1, NextInside, FromType
    <2>4. sess_list' \in Seq(Nodes) /\ sess_deleted' \in Seq(Nodes)
      BY <1>10, <2>2, <2>3 DEF CleanFree
    <2>5. pc' \in [Callers -> PCs]
      BY <1>10 DEF CleanFree
    <2> QED
      BY <1>10, <2>4, <2>5 DEF CleanFree
  <1>11. CASE CleanDelUnlock(t)
    <2>1. cleanup_counter' \in Nat
      BY <1>11 DEF CleanDelUnlock, Cleared
    <2> QED
      BY <1>11, <2>1 DEF CleanDelUnlock
  <1>12. CASE StartCreate(t)
    <2>1. /\ pc' \in [Callers -> PCs]
          /\ now' \in [Threads -> 0..MaxClock]
      <3>1. \E to \in PCs : pc' = [pc EXCEPT ![t] = to]
        BY <1>12 DEF StartCreate
      <3>2. now' = [now EXCEPT ![t] = 0]
        BY <1>12 DEF StartCreate
      <3> QED
        BY <3>1, <3>2
    <2>2. now[t] + Ttl \in Nat
      OBVIOUS
    <2>3. /\ allocated' \subseteq Nodes
          /\ valid_until' \in [Nodes -> Nat]
          /\ ws_iter' \in [Threads -> Nodes \cup {Nil}]
      <3>1. CASE UNCHANGED <<allocated, valid_until, ws_iter>>
        BY <3>1
      <3>2. CASE \E n \in Nodes :
                   /\ allocated' = allocated \cup {n}
                   /\ valid_until' = [valid_until EXCEPT ![n] = now[t] + Ttl]
                   /\ ws_iter' = [ws_iter EXCEPT ![t] = n]
        BY <2>2, <3>2
      <3> QED
        BY <1>12, <3>1, <3>2 DEF StartCreate
    <2>4. UNCHANGED <<clock, lockVars, delOwner, sess_list, sess_deleted, cleanup_counter,
                      sid, invalid_count, ws_prev, ws_tmp, session, dataVars, endVars, destroyed>>
      BY <1>12 DEF StartCreate
    <2>5. TypeOK
      OBVIOUS
    <2> HIDE DEF SessionInv
    <2>6. {sid, ws_iter, ws_prev, ws_tmp, session, sess_vars}' \subseteq [Threads -> Nodes \cup {Nil}]
      BY <2>3, <2>4, <2>5
    <2>7. /\ {gone, crashed, overlap, freedLive, noItem}' \subseteq BOOLEAN
          /\ {registered, destroyed}' \subseteq SUBSET Nodes
      BY <2>4, <2>5
    <2> QED
      BY <2>1, <2>3, <2>4, <2>5, <2>6, <2>7
  <1>13. CASE StartWriteWait(t)
    <2>1. ws_tmp' \in [Threads -> Nodes \cup {Nil}]
      BY <1>13, FirstInside, ListElements DEF StartWriteWait
    <2>2. pc' \in [Callers -> PCs] /\ writeHolders' \subseteq Callers
      BY <1>13 DEF StartWriteWait
    <2> QED
      BY <1>13, <2>1, <2>2 DEF StartWriteWait
  <1>14. CASE StartInsert(t)
    <2>1. /\ ws_iter[t] \in Nodes /\ ws_tmp[t] = First(sess_list)
          /\ Distinct(sess_list)
      BY <1>14 DEF StartInsert, Locals, OnePlace
    <2>2. From(sess_list, ws_tmp[t]) = sess_list
      BY <2>1, FromFirst
    <2>3. sess_list' \in Seq(Nodes)
      BY <1>14, <2>1, <2>2, Pushed DEF StartInsert
    <2>4. ws_tmp' \in [Threads -> Nodes \cup {Nil}]
      BY <1>14 DEF StartInsert
    <2>5. pc' \in [Callers -> PCs] /\ writeHolders' \subseteq Callers
      BY <1>14 DEF StartInsert
    <2>6. UNCHANGED <<clock, readHolders, readLocks, delOwner, sess_deleted,
                      cleanup_counter, allocated, valid_until, now, sid, ws_iter,
                      invalid_count, ws_prev, session, dataVars, endVars, destroyed>>
      BY <1>14 DEF StartInsert
    <2> QED
      BY <2>3, <2>4, <2>5, <2>6
  <1>15. CASE StartReturn(t)
    <2>1. /\ \E to \in PCs : pc' = [pc EXCEPT ![t] = to]
          /\ now' = [now EXCEPT ![t] = 0] /\ ws_iter' = [ws_iter EXCEPT ![t] = Nil]
      BY <1>15 DEF StartReturn
    <2>2. \/ session' = [session EXCEPT ![t] = ws_iter[t]]
          \/ session' = session
      BY <1>15 DEF StartReturn
    <2>3. \/ sess_vars' = sess_vars
          \/ sess_vars' = [sess_vars EXCEPT ![t] = ws_iter[t]]
      BY <1>15 DEF StartReturn
    <2>4. sid' \in [Threads -> Nodes \cup {Nil}]
      <3>1. sid \in [Threads -> Nodes \cup {Nil}] /\ sid[t] \in Nodes \cup {Nil}
        OBVIOUS
      <3>2. \/ sid' = [sid EXCEPT ![t] = Nil]
            \/ sid' = [sid EXCEPT ![t] = sid[t]]
            \/ sid' = sid
        BY <1>15 DEF StartReturn
      <3>3. CASE sid' = [sid EXCEPT ![t] = Nil]
        BY <3>1, <3>3
      <3>4. CASE sid' = [sid EXCEPT ![t] = sid[t]]
        BY <3>1, <3>4
      <3>5. CASE sid' = sid
        BY <3>1, <3>5
      <3> QED
        BY <3>2, <3>3, <3>4, <3>5
    <2>5. /\ pc' \in [Callers -> PCs]
          /\ now' \in [Threads -> 0..MaxClock]
          /\ {sid', ws_iter', session', sess_vars'} \subseteq [Threads -> Nodes \cup {Nil}]
      <3>1. ws_iter[t] \in Nodes \cup {Nil}
        OBVIOUS
      <3>2. sess_vars' \in [Threads -> Nodes \cup {Nil}]
        BY <2>3, <3>1
      <3>3. session' \in [Threads -> Nodes \cup {Nil}]
        BY <2>2, <3>1
      <3>4. pc' \in [Callers -> PCs]
        BY <2>1
      <3>5. now' \in [Threads -> 0..MaxClock] /\ ws_iter' \in [Threads -> Nodes \cup {Nil}]
        BY <2>1
      <3> QED
        BY <2>4, <3>2, <3>3, <3>4, <3>5
    <2>6. UNCHANGED <<clock, lockVars, delOwner, listVars, cleanup_counter,
                      invalid_count, ws_prev, ws_tmp, registered, endVars, destroyed>>
      BY <1>15 DEF StartReturn
    <2>7. TypeOK
      OBVIOUS
    <2> HIDE DEF SessionInv
    <2>8. {sid, ws_iter, ws_prev, ws_tmp, session, sess_vars}' \subseteq [Threads -> Nodes \cup {Nil}]
      BY <2>5, <2>6, <2>7
    <2>9. /\ {gone, crashed, overlap, freedLive, noItem}' \subseteq BOOLEAN
          /\ {registered, destroyed}' \subseteq SUBSET Nodes
      BY <2>6, <2>7
    <2> QED
      BY <2>5, <2>6, <2>7, <2>8, <2>9
  <1>16. CASE RegisterData(t)
    <2>1. session[t] \in Nodes
      BY <1>16 DEF RegisterData, Shared, Refers
    <2>2. registered' \subseteq Nodes /\ noItem' \in BOOLEAN
      BY <1>16, <2>1 DEF RegisterData
    <2>3. sess_vars' \in [Threads -> Nodes \cup {Nil}]
      BY <1>16 DEF RegisterData
    <2>4. pc' \in [Callers -> PCs]
      BY <1>16 DEF RegisterData
    <2> QED
      BY <1>16, <2>2, <2>3, <2>4 DEF RegisterData
  <1>17. CASE DestroyFind(t)
    <2>1. Lock!AcquireRead(t)
      BY <1>17 DEF DestroyFind
    <2>2. pc' \in [Callers -> PCs] /\ readHolders' \subseteq Callers
      BY <1>17 DEF DestroyFind
    <2>3. ws_iter' \in [Threads -> Nodes \cup {Nil}]
      BY <1>17, ListElements DEF DestroyFind
    <2>4. readLocks' \in 0..MaxReaders
      BY <2>1, ReadersCounted
    <2>5. UNCHANGED <<clock, writeHolders, delOwner, listVars, cleanup_counter, now, sid,
                      invalid_count, ws_prev, ws_tmp, session, dataVars, endVars, destroyed>>
      BY <1>17 DEF DestroyFind
    <2>6. TypeOK
      OBVIOUS
    <2> HIDE DEF SessionInv
    <2> QED
      BY <2>2, <2>3, <2>4, <2>5, <2>6
  <1>18. CASE DestroyReadPost(t)
    <2>1. Lock!ReleaseRead(t)
      BY <1>18 DEF DestroyReadPost
    <2>2. pc' \in [Callers -> PCs] /\ readHolders' \subseteq Callers
      BY <1>18 DEF DestroyReadPost
    <2> QED
      BY <1>18, <2>1, <2>2, ReadersCounted DEF DestroyReadPost
  <1>19. CASE DestroyInvalidate(t)
    BY <1>19 DEF DestroyInvalidate
  <1>20. CASE DestroyWritePost(t)
    <2>1. ws_iter[t] \in Nodes
      BY <1>20 DEF DestroyWritePost, Locals
    <2>2. destroyed' \subseteq Nodes
      BY <1>20, <2>1 DEF DestroyWritePost
    <2>3. ws_iter' \in [Threads -> Nodes \cup {Nil}]
      BY <1>20 DEF DestroyWritePost
    <2>4. pc' \in [Callers -> PCs] /\ writeHolders' \subseteq Callers
      BY <1>20 DEF DestroyWritePost
    <2> QED
      BY <1>20, <2>1, <2>2, <2>3, <2>4 DEF DestroyWritePost
  <1>21. CASE EndPage(t)
    BY <1>21 DEF EndPage
  <1>22. CASE UseAfterFree(t)
    BY <1>22 DEF UseAfterFree
  <1> QED
    BY <1>1, <1>2, <1>3, <1>4, <1>5, <1>6, <1>7, <1>8, <1>9, <1>10, <1>11,
       <1>12, <1>13, <1>14, <1>15, <1>16, <1>17, <1>18, <1>19, <1>20, <1>21,
       <1>22
       DEF WebStep, StartStep, DestroyStep

\* sess_del_mutex, and no list once the register is freed.
LEMMA WebPlaces ==
    ASSUME SessionInv, NEW t \in Threads, WebStep(t)
    PROVE  Places'
  <1> USE WebSessionAssumption DEF SessionInv, TypeOK, Places, FreePCs, PCs,
         Callers, AfterCleanup, GetData, Goto, Alive, Usable, lockVars,
         listVars, dataVars, pageVars, localVars, endVars
  <1>1. CASE StartCall(t)
    BY <1>1 DEF StartCall
  <1>2. CASE StartFind(t)
    BY <1>2 DEF StartFind
  <1>3. CASE StartReadPost(t)
    BY <1>3 DEF StartReadPost
  <1>4. CASE StartCleanup(t)
    BY <1>4 DEF StartCleanup
  <1>5. CASE CleanWriteWait(t)
    BY <1>5 DEF CleanWriteWait
  <1>6. CASE CleanMove(t)
    BY <1>6 DEF CleanMove
  <1>7. CASE CleanWritePost(t)
    BY <1>7 DEF CleanWritePost
  <1>8. CASE CleanDelLock(t)
    BY <1>8 DEF CleanDelLock
  <1>9. CASE CleanPass(t)
    BY <1>9 DEF CleanPass
  <1>10. CASE CleanFree(t)
    BY <1>10 DEF CleanFree
  <1>11. CASE CleanDelUnlock(t)
    BY <1>11 DEF CleanDelUnlock
  <1>12. CASE StartCreate(t)
    BY <1>12 DEF StartCreate
  <1>13. CASE StartWriteWait(t)
    BY <1>13 DEF StartWriteWait
  <1>14. CASE StartInsert(t)
    BY <1>14 DEF StartInsert
  <1>15. CASE StartReturn(t)
    <2>1. /\ \E p \in {"idle", "using", "register_data"} : pc' = [pc EXCEPT ![t] = p]
          /\ UNCHANGED <<delOwner, gone, sess_list, sess_deleted>>
      BY <1>15 DEF StartReturn
    <2> QED
      BY <2>1
  <1>16. CASE RegisterData(t)
    BY <1>16 DEF RegisterData
  <1>17. CASE DestroyFind(t)
    BY <1>17 DEF DestroyFind
  <1>18. CASE DestroyReadPost(t)
    BY <1>18 DEF DestroyReadPost
  <1>19. CASE DestroyInvalidate(t)
    BY <1>19 DEF DestroyInvalidate
  <1>20. CASE DestroyWritePost(t)
    BY <1>20 DEF DestroyWritePost
  <1>21. CASE EndPage(t)
    BY <1>21 DEF EndPage
  <1>22. CASE UseAfterFree(t)
    BY <1>22 DEF UseAfterFree
  <1> QED
    BY <1>1, <1>2, <1>3, <1>4, <1>5, <1>6, <1>7, <1>8, <1>9, <1>10, <1>11,
       <1>12, <1>13, <1>14, <1>15, <1>16, <1>17, <1>18, <1>19, <1>20, <1>21,
       <1>22
       DEF WebStep, StartStep, DestroyStep

\* What a thread has read of the list is still so: nobody else has the write
\* lock before an insert, and nobody unlinks while the second loop walks.
LEMMA WebLocals ==
    ASSUME SessionInv, NEW t \in Threads, WebStep(t)
    PROVE  Locals'
  <1> USE WebSessionAssumption DEF SessionInv, TypeOK, Places, Locals,
         FreePCs, Callers, AfterCleanup, GetData, Goto, Alive, Usable,
         lockVars, listVars, dataVars, pageVars, localVars, endVars
  <1>1. CASE StartCall(t)
    BY <1>1 DEF StartCall
  <1>2. CASE StartFind(t)
    BY <1>2 DEF StartFind
  <1>3. CASE StartReadPost(t)
    BY <1>3 DEF StartReadPost
  <1>4. CASE StartCleanup(t)
    BY <1>4 DEF StartCleanup
  <1>5. CASE CleanWriteWait(t)
    BY <1>5 DEF CleanWriteWait
  <1>6. CASE CleanMove(t)
    BY <1>6 DEF CleanMove, LockHeld, WritePCs
  <1>7. CASE CleanWritePost(t)
    BY <1>7 DEF CleanWritePost
  <1>8. CASE CleanDelLock(t)
    <2>1. First(sess_list) \in Elements(sess_list) \cup {Nil}
      BY FirstInside
    <2> QED
      BY <1>8, <2>1 DEF CleanDelLock
  <1>9. CASE CleanPass(t)
    <2>1. NextOf(sess_list, ws_tmp[t]) \in Elements(sess_list) \cup {Nil}
      BY <1>9, NextInside DEF CleanPass
    <2> QED
      BY <1>9, <2>1 DEF CleanPass
  <1>10. CASE CleanFree(t)
    BY <1>10 DEF CleanFree
  <1>11. CASE CleanDelUnlock(t)
    BY <1>11 DEF CleanDelUnlock
  <1>12. CASE StartCreate(t)
    <2>1. /\ pc[t] = "start_create"
          /\ \/ /\ pc' = [pc EXCEPT ![t] = "start_write_wait"]
                /\ \E n \in Nodes : ws_iter' = [ws_iter EXCEPT ![t] = n]
             \/ pc' = [pc EXCEPT ![t] = "start_return"] /\ ws_iter' = ws_iter
          /\ now' = [now EXCEPT ![t] = 0]
          /\ UNCHANGED <<sess_list, ws_tmp, crashed, freedLive, noItem, gone>>
      BY <1>12 DEF StartCreate
    <2>2. ASSUME NEW u \in Threads, u # t
          PROVE  /\ pc'[u] = pc[u] /\ ws_iter'[u] = ws_iter[u] /\ now'[u] = now[u]
                 /\ ws_tmp'[u] = ws_tmp[u] /\ sess_list' = sess_list
      BY <2>1, <2>2
    <2>3. /\ pc'[t] \in {"start_write_wait", "start_return"}
          /\ pc'[t] = "start_write_wait" => ws_iter'[t] # Nil
      BY <2>1
    <2> QED
      BY <2>1, <2>2, <2>3
  <1>13. CASE StartWriteWait(t)
    BY <1>13 DEF StartWriteWait
  <1>14. CASE StartInsert(t)
    <2>1. From(sess_list, ws_tmp[t]) = sess_list /\ ws_iter[t] \in Nodes
      BY <1>14, FromFirst DEF StartInsert, OnePlace
    <2>2. Elements(sess_list) \subseteq Elements(sess_list')
      BY <1>14, <2>1, Pushed DEF StartInsert
    <2>3. \A u \in Threads : pc[u] = "start_insert" => u = t
      BY <1>14 DEF StartInsert, LockHeld, WritePCs
    <2> QED
      BY <1>14, <2>2, <2>3 DEF StartInsert
  <1>15. CASE StartReturn(t)
    <2>1. /\ \E p \in {"idle", "using", "register_data"} : pc' = [pc EXCEPT ![t] = p]
          /\ ws_iter' = [ws_iter EXCEPT ![t] = Nil] /\ now' = [now EXCEPT ![t] = 0]
          /\ UNCHANGED <<sess_list, ws_tmp, crashed, freedLive, noItem, gone>>
      BY <1>15 DEF StartReturn
    <2> QED
      BY <2>1
  <1>16. CASE RegisterData(t)
    BY <1>16 DEF RegisterData
  <1>17. CASE DestroyFind(t)
    BY <1>17 DEF DestroyFind
  <1>18. CASE DestroyReadPost(t)
    BY <1>18 DEF DestroyReadPost
  <1>19. CASE DestroyInvalidate(t)
    BY <1>19 DEF DestroyInvalidate
  <1>20. CASE DestroyWritePost(t)
    BY <1>20 DEF DestroyWritePost
  <1>21. CASE EndPage(t)
    BY <1>21 DEF EndPage
  <1>22. CASE UseAfterFree(t)
    BY <1>22 DEF UseAfterFree
  <1> QED
    BY <1>1, <1>2, <1>3, <1>4, <1>5, <1>6, <1>7, <1>8, <1>9, <1>10, <1>11,
       <1>12, <1>13, <1>14, <1>15, <1>16, <1>17, <1>18, <1>19, <1>20, <1>21,
       <1>22
       DEF WebStep, StartStep, DestroyStep

\* A page changes its variables when it changes its session.
LEMMA WebSameSession ==
    ASSUME SessionInv, NEW t \in Threads, WebStep(t)
    PROVE  SameSession'
  <1> USE WebSessionAssumption DEF SessionInv, TypeOK, Places,
         SameSession, FreePCs, Callers, AfterCleanup, GetData, Goto, Alive,
         Usable, lockVars, listVars, dataVars, pageVars, localVars, endVars
  <1>1. CASE StartCall(t)
    BY <1>1 DEF StartCall
  <1>2. CASE StartFind(t)
    BY <1>2 DEF StartFind
  <1>3. CASE StartReadPost(t)
    BY <1>3 DEF StartReadPost
  <1>4. CASE StartCleanup(t)
    BY <1>4 DEF StartCleanup
  <1>5. CASE CleanWriteWait(t)
    BY <1>5 DEF CleanWriteWait
  <1>6. CASE CleanMove(t)
    BY <1>6 DEF CleanMove
  <1>7. CASE CleanWritePost(t)
    BY <1>7 DEF CleanWritePost
  <1>8. CASE CleanDelLock(t)
    BY <1>8 DEF CleanDelLock
  <1>9. CASE CleanPass(t)
    BY <1>9 DEF CleanPass
  <1>10. CASE CleanFree(t)
    BY <1>10 DEF CleanFree
  <1>11. CASE CleanDelUnlock(t)
    BY <1>11 DEF CleanDelUnlock
  <1>12. CASE StartCreate(t)
    BY <1>12 DEF StartCreate
  <1>13. CASE StartWriteWait(t)
    BY <1>13 DEF StartWriteWait
  <1>14. CASE StartInsert(t)
    BY <1>14 DEF StartInsert
  <1>15. CASE StartReturn(t)
    <2>1. CASE UNCHANGED <<session, sess_vars>>
      BY <1>15, <2>1 DEF StartReturn
    <2>2. CASE /\ session' = [session EXCEPT ![t] = ws_iter[t]]
               /\ sess_vars' = [sess_vars EXCEPT ![t] = ws_iter[t]]
      BY <1>15, <2>2 DEF StartReturn
    <2>3. CASE /\ session' = [session EXCEPT ![t] = ws_iter[t]]
               /\ sess_vars' = sess_vars /\ pc'[t] = "register_data"
      BY <1>15, <2>3 DEF StartReturn
    <2> QED
      BY <1>15, <2>1, <2>2, <2>3 DEF StartReturn
  <1>16. CASE RegisterData(t)
    <2>1. session[t] \notin registered
      BY <1>16 DEF RegisterData, Shared, Refers
    <2>2. /\ pc' = [pc EXCEPT ![t] = "using"] /\ pc[t] = "register_data"
          /\ UNCHANGED session
      BY <1>16 DEF RegisterData
    <2>3. noItem' \/ (UNCHANGED noItem /\ sess_vars' = [sess_vars EXCEPT ![t] = session[t]])
      BY <1>16, <2>1 DEF RegisterData
    <2> QED
      BY <2>2, <2>3
  <1>17. CASE DestroyFind(t)
    BY <1>17 DEF DestroyFind
  <1>18. CASE DestroyReadPost(t)
    BY <1>18 DEF DestroyReadPost
  <1>19. CASE DestroyInvalidate(t)
    BY <1>19 DEF DestroyInvalidate
  <1>20. CASE DestroyWritePost(t)
    BY <1>20 DEF DestroyWritePost
  <1>21. CASE EndPage(t)
    BY <1>21 DEF EndPage
  <1>22. CASE UseAfterFree(t)
    BY <1>22 DEF UseAfterFree
  <1> QED
    BY <1>1, <1>2, <1>3, <1>4, <1>5, <1>6, <1>7, <1>8, <1>9, <1>10, <1>11,
       <1>12, <1>13, <1>14, <1>15, <1>16, <1>17, <1>18, <1>19, <1>20, <1>21,
       <1>22
       DEF WebStep, StartStep, DestroyStep

-----------------------------------------------------------------------------
\* The steps that change the lists or the nodes in use.
Relink(t) == CleanMove(t) \/ CleanFree(t) \/ StartCreate(t) \/ StartInsert(t)

\* Any other step leaves the lists, and who makes a node, alone.
LEMMA ListsKept ==
    ASSUME SessionInv, NEW t \in Threads, WebStep(t), ~Relink(t)
    PROVE  /\ UNCHANGED <<sess_list, sess_deleted, allocated>>
           /\ Alive /\ gone' = gone
           /\ \A u \in Threads : /\ Making(u)' = Making(u)
                                 /\ Making(u) => ws_iter'[u] = ws_iter[u]
  <1> USE WebSessionAssumption DEF SessionInv, TypeOK, Making, Callers,
         AfterCleanup, GetData, Goto, Alive, Usable, lockVars, listVars,
         dataVars, pageVars, localVars, endVars
  <1>1. CASE StartCall(t)
    BY <1>1 DEF StartCall
  <1>2. CASE StartFind(t)
    <2>1. /\ pc[t] = "start_read_wait" /\ pc' = [pc EXCEPT ![t] = "start_read_post"]
          /\ \A u \in Threads \ {t} : ws_iter'[u] = ws_iter[u]
          /\ UNCHANGED <<sess_list, sess_deleted, allocated, gone>> /\ Alive
      BY <1>2 DEF StartFind
    <2> QED
      BY <2>1
  <1>3. CASE StartReadPost(t)
    BY <1>3 DEF StartReadPost
  <1>4. CASE StartCleanup(t)
    BY <1>4 DEF StartCleanup
  <1>5. CASE CleanWriteWait(t)
    BY <1>5 DEF CleanWriteWait
  <1>6. CASE CleanMove(t)
    BY <1>6 DEF Relink
  <1>7. CASE CleanWritePost(t)
    BY <1>7 DEF CleanWritePost
  <1>8. CASE CleanDelLock(t)
    BY <1>8 DEF CleanDelLock
  <1>9. CASE CleanPass(t)
    BY <1>9 DEF CleanPass
  <1>10. CASE CleanFree(t)
    BY <1>10 DEF Relink
  <1>11. CASE CleanDelUnlock(t)
    BY <1>11 DEF CleanDelUnlock
  <1>12. CASE StartCreate(t)
    BY <1>12 DEF Relink
  <1>13. CASE StartWriteWait(t)
    BY <1>13 DEF StartWriteWait
  <1>14. CASE StartInsert(t)
    BY <1>14 DEF Relink
  <1>15. CASE StartReturn(t)
    BY <1>15 DEF StartReturn
  <1>16. CASE RegisterData(t)
    BY <1>16 DEF RegisterData
  <1>17. CASE DestroyFind(t)
    BY <1>17 DEF DestroyFind
  <1>18. CASE DestroyReadPost(t)
    BY <1>18 DEF DestroyReadPost
  <1>19. CASE DestroyInvalidate(t)
    BY <1>19 DEF DestroyInvalidate
  <1>20. CASE DestroyWritePost(t)
    BY <1>20 DEF DestroyWritePost
  <1>21. CASE EndPage(t)
    BY <1>21 DEF EndPage
  <1>22. CASE UseAfterFree(t)
    BY <1>22 DEF UseAfterFree
  <1> QED
    BY <1>1, <1>2, <1>3, <1>4, <1>5, <1>6, <1>7, <1>8, <1>9, <1>10, <1>11,
       <1>12, <1>13, <1>14, <1>15, <1>16, <1>17, <1>18, <1>19, <1>20, <1>21,
       <1>22
       DEF WebStep, StartStep, DestroyStep

\* A step of t gives t a session that is its own already, or registered, or
\* nobody's.
LEMMA OwnedStep ==
    ASSUME OwnedOnce, NEW t \in Threads,
           \A u \in Threads \ {t} : Owned(u)' = Owned(u),
           \/ Owned(t)' = Owned(t)
           \/ Owned(t)' \in registered' \cup {Nil}
           \/ \A u \in Threads \ {t} : Owned(u) # Owned(t)',
           registered \subseteq registered'
    PROVE  OwnedOnce'
  BY DEF OwnedOnce

\* Who can have a pointer to which session.
LEMMA WebShared ==
    ASSUME SessionInv, NEW t \in Threads, WebStep(t)
    PROVE  Alive' /\ ~gone' => Shared'
  <1> USE WebSessionAssumption DEF SessionInv, TypeOK, Places, Shared, Refers,
         Owned, LooksFor, Callers, AfterCleanup, GetData, Known, Goto, Alive,
         Usable, lockVars, listVars, dataVars, pageVars, localVars, endVars
  <1>1. CASE StartCall(t)
    <2>1. Alive /\ ~gone
      BY <1>1 DEF StartCall
    <2>2. \A u \in Threads \ {t} : Refers(u)'
      BY <1>1, <2>1 DEF StartCall
    <2>3. Refers(t)'
      BY <1>1, <2>1 DEF StartCall
    <2>4. registered' \subseteq allocated' /\ registered \subseteq registered'
      BY <1>1, <2>1 DEF StartCall
    <2>5. \A u \in Threads \ {t} : Owned(u)' = Owned(u)
      BY <1>1 DEF StartCall
    <2>6. Owned(t)' = Nil
      BY <1>1, <2>1 DEF StartCall
    <2>7. OwnedOnce
      BY <2>1
    <2>8. OwnedOnce'
      <3> HIDE DEF Owned
      <3> QED
        BY <2>4, <2>5, <2>6, <2>7, OwnedStep
    <2> QED
      BY <2>2, <2>3, <2>4, <2>8
  <1>2. CASE StartFind(t)
    <2>1. /\ Alive /\ ~gone
          /\ ws_iter' = [ws_iter EXCEPT ![t] = ws_iter'[t]] /\ ws_iter'[t] \in {Nil, sid[t]}
          /\ UNCHANGED <<registered, allocated, sid, session>>
          /\ pc[t] = "start_read_wait" /\ pc' = [pc EXCEPT ![t] = "start_read_post"]
      BY <1>2 DEF StartFind
    <2>2. \A u \in Threads : Refers(u)'
      BY <2>1
    <2>3. Owned(t)' = Nil /\ \A u \in Threads \ {t} : Owned(u)' = Owned(u)
      BY <2>1
    <2>4. OwnedOnce
      BY <2>1
    <2>5. OwnedOnce'
      <3> HIDE DEF Owned
      <3> QED
        BY <2>1, <2>3, <2>4, OwnedStep
    <2> QED
      BY <2>1, <2>2, <2>5
  <1>3. CASE StartReadPost(t)
    BY <1>3 DEF StartReadPost, OwnedOnce
  <1>4. CASE StartCleanup(t)
    <2>1. Alive /\ ~gone
      BY <1>4 DEF StartCleanup
    <2>2. \A u \in Threads \ {t} : Refers(u)'
      BY <1>4, <2>1 DEF StartCleanup
    <2>3. Refers(t)'
      BY <1>4, <2>1 DEF StartCleanup
    <2>4. registered' \subseteq allocated' /\ registered \subseteq registered'
      BY <1>4, <2>1 DEF StartCleanup
    <2>5. \A u \in Threads \ {t} : Owned(u)' = Owned(u)
      BY <1>4 DEF StartCleanup
    <2>6. Owned(t)' \in registered \cup {Nil}
      BY <1>4, <2>1 DEF StartCleanup
    <2>7. OwnedOnce
      BY <2>1
    <2>8. OwnedOnce'
      <3> HIDE DEF Owned
      <3> QED
        BY <2>4, <2>5, <2>6, <2>7, OwnedStep
    <2> QED
      BY <2>2, <2>3, <2>4, <2>8
  <1>5. CASE CleanWriteWait(t)
    BY <1>5 DEF CleanWriteWait, OwnedOnce
  <1>6. CASE CleanMove(t)
    BY <1>6 DEF CleanMove, OwnedOnce
  <1>7. CASE CleanWritePost(t)
    BY <1>7 DEF CleanWritePost, OwnedOnce
  <1>8. CASE CleanDelLock(t)
    BY <1>8 DEF CleanDelLock, OwnedOnce
  <1>9. CASE CleanPass(t)
    BY <1>9 DEF CleanPass, OwnedOnce
  <1>10. CASE CleanFree(t)
    BY <1>10 DEF CleanFree, OwnedOnce
  <1>11. CASE CleanDelUnlock(t)
    BY <1>11 DEF CleanDelUnlock, OwnedOnce
  <1>12. CASE StartCreate(t)
    <2> SUFFICES ASSUME Alive', ~gone' PROVE Shared'
      OBVIOUS
    <2>1. Alive /\ ~gone
      BY <1>12 DEF StartCreate
    <2>2. \A u \in Threads \ {t} : Refers(u)'
      BY <1>12, <2>1 DEF StartCreate, Locals
    <2>3. Refers(t)'
      BY <1>12, <2>1 DEF StartCreate, Locals
    <2>4. registered' \subseteq allocated' /\ registered \subseteq registered'
      BY <1>12, <2>1 DEF StartCreate
    <2>5. \A u \in Threads \ {t} : Owned(u)' = Owned(u)
      BY <1>12 DEF StartCreate
    <2>6. Owned(t)' \in {Nil} \/ Owned(t)' \in Nodes \ allocated
      BY <1>12, <2>1 DEF StartCreate, Locals
    <2>7. OwnedOnce
      BY <2>1
    <2>8. Owned(t)' = Nil \/ \A u \in Threads \ {t} : Owned(u) # Owned(t)'
      BY <2>1, <2>6
    <2>9. OwnedOnce'
      <3> HIDE DEF Owned
      <3> QED
        BY <2>4, <2>5, <2>7, <2>8, OwnedStep
    <2> QED
      BY <2>2, <2>3, <2>4, <2>9
  <1>13. CASE StartWriteWait(t)
    BY <1>13 DEF StartWriteWait, OwnedOnce
  <1>14. CASE StartInsert(t)
    BY <1>14 DEF StartInsert, OwnedOnce
  <1>15. CASE StartReturn(t)
    <2> SUFFICES ASSUME Alive', ~gone' PROVE Shared'
      OBVIOUS
    <2>1. Alive /\ ~gone
      BY <1>15 DEF StartReturn
    <2>2. \A u \in Threads \ {t} : Refers(u)'
      BY <1>15, <2>1 DEF StartReturn
    <2>3. Refers(t)'
      BY <1>15, <2>1 DEF StartReturn
    <2>4. registered' \subseteq allocated' /\ registered \subseteq registered'
      BY <1>15, <2>1 DEF StartReturn
    <2>5. \A u \in Threads \ {t} : Owned(u)' = Owned(u)
      BY <1>15 DEF StartReturn
    <2>6. Owned(t)' \in {Nil, Owned(t)}
      BY <1>15, <2>1 DEF StartReturn
    <2>7. OwnedOnce
      BY <2>1
    <2>8. OwnedOnce'
      <3> HIDE DEF Owned
      <3> QED
        BY <2>4, <2>5, <2>6, <2>7, OwnedStep
    <2> QED
      BY <2>2, <2>3, <2>4, <2>8
  <1>16. CASE RegisterData(t)
    <2> SUFFICES ASSUME Alive', ~gone' PROVE Shared'
      OBVIOUS
    <2>1. /\ Alive /\ ~gone /\ Owned(t) = session[t] /\ session[t] # Nil
          /\ session[t] \notin registered /\ session[t] \in allocated
      BY <1>16 DEF RegisterData
    <2>2. /\ registered' = registered \cup {session[t]}
          /\ UNCHANGED <<sid, ws_iter, session, allocated>>
          /\ pc' = [pc EXCEPT ![t] = "using"]
      BY <1>16, <2>1 DEF RegisterData
    <2>3. \A u \in Threads \ {t} : pc[u] = "register_data" => session[u] # session[t]
      BY <2>1 DEF OwnedOnce
    <2>4. \A u \in Threads \ {t} : Owned(u)' = Owned(u) /\ Refers(u)'
      BY <2>1, <2>2, <2>3
    <2>5. Owned(t)' = Nil /\ Refers(t)'
      BY <2>1, <2>2
    <2>6. registered' \subseteq allocated' /\ registered \subseteq registered'
      BY <2>1, <2>2
    <2>7. OwnedOnce
      BY <2>1
    <2>8. OwnedOnce'
      <3> HIDE DEF Owned
      <3> QED
        BY <2>4, <2>5, <2>6, <2>7, OwnedStep
    <2> QED
      BY <2>4, <2>5, <2>6, <2>8
  <1>17. CASE DestroyFind(t)
    BY <1>17 DEF DestroyFind, OwnedOnce
  <1>18. CASE DestroyReadPost(t)
    BY <1>18 DEF DestroyReadPost, OwnedOnce
  <1>19. CASE DestroyInvalidate(t)
    BY <1>19 DEF DestroyInvalidate, OwnedOnce
  <1>20. CASE DestroyWritePost(t)
    BY <1>20 DEF DestroyWritePost, OwnedOnce
  <1>21. CASE EndPage(t)
    BY <1>21 DEF EndPage, OwnedOnce
  <1>22. CASE UseAfterFree(t)
    BY <1>22 DEF UseAfterFree, OwnedOnce
  <1> QED
    BY <1>1, <1>2, <1>3, <1>4, <1>5, <1>6, <1>7, <1>8, <1>9, <1>10, <1>11,
       <1>12, <1>13, <1>14, <1>15, <1>16, <1>17, <1>18, <1>19, <1>20, <1>21,
       <1>22
       DEF WebStep, StartStep, DestroyStep

\* websession_destroy lets go of the read lock before it takes the write lock:
\* the session may go to the deleted list meanwhile, but nowhere else.
LEMMA WebDestroying ==
    ASSUME SessionInv, NEW t \in Threads, WebStep(t)
    PROVE  Alive' /\ ~gone' => Destroying'
  <1> USE WebSessionAssumption DEF SessionInv, TypeOK, Places, Destroying,
         Linked, Callers, AfterCleanup, GetData, Goto, Alive, Usable,
         lockVars, listVars, dataVars, pageVars, localVars, endVars
  <1>1. CASE StartCall(t)
    BY <1>1 DEF StartCall
  <1>2. CASE StartFind(t)
    BY <1>2 DEF StartFind, LockHeld, WritePCs, Lock!AcquireRead
  <1>3. CASE StartReadPost(t)
    BY <1>3 DEF StartReadPost
  <1>4. CASE StartCleanup(t)
    BY <1>4 DEF StartCleanup
  <1>5. CASE CleanWriteWait(t)
    BY <1>5 DEF CleanWriteWait
  <1>6. CASE CleanMove(t)
    <2>1. Alive /\ ~gone /\ FirstExpired(t) \in Elements(sess_list) /\ FirstExpired(t) \in Nodes
      BY <1>6, FirstExpiredInside, ListElements DEF CleanMove, Expired
    <2>2. Elements(sess_list') = Elements(sess_list) \ {FirstExpired(t)}
      BY <1>6, <2>1, Unlinked DEF CleanMove, OnePlace
    <2>3. Elements(sess_deleted') = Elements(sess_deleted) \cup {FirstExpired(t)}
      BY <1>6, <2>1, Pushed DEF CleanMove
    <2>4. Linked' = Linked
      BY <2>1, <2>2, <2>3 DEF Linked
    <2>5. \A u \in Threads : pc[u] # "destroy_write_post"
      BY <1>6 DEF CleanMove, LockHeld, WritePCs
    <2> HIDE DEF Linked
    <2> QED
      BY <1>6, <2>1, <2>4, <2>5 DEF CleanMove
  <1>7. CASE CleanWritePost(t)
    BY <1>7 DEF CleanWritePost
  <1>8. CASE CleanDelLock(t)
    BY <1>8 DEF CleanDelLock
  <1>9. CASE CleanPass(t)
    BY <1>9 DEF CleanPass
  <1>10. CASE CleanFree(t)
    BY <1>10 DEF CleanFree
  <1>11. CASE CleanDelUnlock(t)
    BY <1>11 DEF CleanDelUnlock
  <1>12. CASE StartCreate(t)
    <2>1. Alive /\ ~gone' => ~gone /\ OnePlace
      BY <1>12 DEF StartCreate
    <2>2. Alive /\ ~gone => Linked \subseteq allocated
      BY DEF OnePlace
    <2>3. \A m \in allocated : valid_until'[m] = valid_until[m]
      BY <1>12 DEF StartCreate
    <2>4. UNCHANGED <<sess_list, sess_deleted, destroyed, gone>>
      BY <1>12 DEF StartCreate
    <2>5. Linked' = Linked /\ Elements(sess_list') = Elements(sess_list)
      BY <2>4 DEF Linked
    <2>6. Elements(sess_list) \subseteq Linked
      BY DEF Linked
    <2>7. \A u \in Threads :
             pc'[u] \in {"destroy_read_post", "destroy_write_wait", "destroy_write_post"}
               => pc[u] = pc'[u] /\ ws_iter'[u] = ws_iter[u]
      <3>1. \E p \in {"start_write_wait", "start_return"} : pc' = [pc EXCEPT ![t] = p]
        BY <1>12 DEF StartCreate
      <3>2. ws_iter' = ws_iter \/ \E n \in Nodes : ws_iter' = [ws_iter EXCEPT ![t] = n]
        BY <1>12 DEF StartCreate
      <3> QED
        BY <3>1, <3>2
    <2>8. Alive
      BY <1>12 DEF StartCreate
    <2> HIDE DEF Linked
    <2> QED
      BY <2>1, <2>2, <2>3, <2>4, <2>5, <2>6, <2>7, <2>8
  <1>13. CASE StartWriteWait(t)
    BY <1>13 DEF StartWriteWait
  <1>14. CASE StartInsert(t)
    <2>1. Alive /\ ~gone /\ ws_tmp[t] = First(sess_list) /\ ws_iter[t] \in Nodes
      BY <1>14 DEF StartInsert, Locals
    <2>2. From(sess_list, ws_tmp[t]) = sess_list
      BY <2>1, FromFirst DEF OnePlace
    <2>3. Elements(sess_list') = Elements(sess_list) \cup {ws_iter[t]}
      BY <1>14, <2>1, <2>2, Pushed DEF StartInsert
    <2>4. \A u \in Threads : pc[u] # "destroy_write_post"
      BY <1>14 DEF StartInsert, LockHeld, WritePCs
    <2>5. Linked \subseteq Linked'
      BY <1>14, <2>3 DEF StartInsert, Linked
    <2> HIDE DEF Linked
    <2> QED
      BY <1>14, <2>1, <2>4, <2>5 DEF StartInsert
  <1>15. CASE StartReturn(t)
    BY <1>15 DEF StartReturn
  <1>16. CASE RegisterData(t)
    BY <1>16 DEF RegisterData
  <1>17. CASE DestroyFind(t)
    BY <1>17 DEF DestroyFind
  <1>18. CASE DestroyReadPost(t)
    BY <1>18 DEF DestroyReadPost
  <1>19. CASE DestroyInvalidate(t)
    <2>1. \A u \in Threads : pc[u] # "destroy_write_post"
      BY <1>19 DEF DestroyInvalidate, LockHeld, WritePCs, Lock!AcquireWrite
    <2>2. valid_until'[ws_iter[t]] = 0
      BY <1>19, ListElements DEF DestroyInvalidate
    <2> QED
      BY <1>19, <2>1, <2>2 DEF DestroyInvalidate
  <1>20. CASE DestroyWritePost(t)
    BY <1>20 DEF DestroyWritePost
  <1>21. CASE EndPage(t)
    BY <1>21 DEF EndPage
  <1>22. CASE UseAfterFree(t)
    BY <1>22 DEF UseAfterFree
  <1> QED
    BY <1>1, <1>2, <1>3, <1>4, <1>5, <1>6, <1>7, <1>8, <1>9, <1>10, <1>11,
       <1>12, <1>13, <1>14, <1>15, <1>16, <1>17, <1>18, <1>19, <1>20, <1>21,
       <1>22
       DEF WebStep, StartStep, DestroyStep

\* Only a start that finds a session valid makes it valid for longer, and no
\* time is before the 0 of a destroyed one.
LEMMA WebDestroyed ==
    ASSUME SessionInv, NEW t \in Threads, WebStep(t)
    PROVE  DestroyedStaysInvalid'
  <1> USE WebSessionAssumption DEF SessionInv, TypeOK, Places,
         DestroyedStaysInvalid, Callers, AfterCleanup, GetData, Goto, Alive,
         Usable, lockVars, listVars, dataVars, pageVars, localVars, endVars
  <1>1. CASE StartCall(t)
    BY <1>1 DEF StartCall
  <1>2. CASE StartFind(t)
    <2>1. \/ valid_until' = valid_until
          \/ /\ valid_until' = [valid_until EXCEPT ![sid[t]] = now[t] + Ttl]
             /\ sid[t] \in Elements(sess_list) /\ Valid(sid[t], t)
      BY <1>2 DEF StartFind, Elements
    <2>2. Alive /\ now[t] > 0 /\ now[t] \in Nat
      BY <1>2 DEF StartFind, Locals
    <2>3. \A n \in destroyed \cap Elements(sess_list) : valid_until[n] = 0 /\ ~Valid(n, t)
      BY <2>2 DEF Valid
    <2>4. \A n \in destroyed \cap Elements(sess_list) : valid_until'[n] = valid_until[n]
      BY <2>1, <2>3
    <2>5. UNCHANGED <<sess_list, destroyed>>
      BY <1>2 DEF StartFind
    <2>6. Elements(sess_list') = Elements(sess_list)
      BY <2>5 DEF Elements
    <2> QED
      BY <2>3, <2>4, <2>5, <2>6
  <1>3. CASE StartReadPost(t)
    BY <1>3 DEF StartReadPost
  <1>4. CASE StartCleanup(t)
    BY <1>4 DEF StartCleanup
  <1>5. CASE CleanWriteWait(t)
    BY <1>5 DEF CleanWriteWait
  <1>6. CASE CleanMove(t)
    <2>1. Alive /\ ~gone /\ FirstExpired(t) \in Elements(sess_list)
      BY <1>6, FirstExpiredInside DEF CleanMove, Expired
    <2>2. Elements(sess_list') = Elements(sess_list) \ {FirstExpired(t)}
      BY <1>6, <2>1, Unlinked DEF CleanMove, OnePlace
    <2>3. \A n \in Nodes \ {FirstExpired(t)} : valid_until'[n] = valid_until[n]
      BY <1>6 DEF CleanMove
    <2>4. destroyed' = destroyed /\ destroyed \subseteq Nodes
      BY <1>6 DEF CleanMove
    <2> QED
      BY <2>1, <2>2, <2>3, <2>4
  <1>7. CASE CleanWritePost(t)
    BY <1>7 DEF CleanWritePost
  <1>8. CASE CleanDelLock(t)
    BY <1>8 DEF CleanDelLock
  <1>9. CASE CleanPass(t)
    BY <1>9 DEF CleanPass
  <1>10. CASE CleanFree(t)
    BY <1>10 DEF CleanFree
  <1>11. CASE CleanDelUnlock(t)
    BY <1>11 DEF CleanDelUnlock
  <1>12. CASE StartCreate(t)
    <2>1. UNCHANGED <<sess_list, destroyed, gone>> /\ Alive
      BY <1>12 DEF StartCreate
    <2>2. \A m \in allocated : valid_until'[m] = valid_until[m]
      BY <1>12 DEF StartCreate
    <2>3. CASE gone
      <3>1. Elements(sess_list') = {}
        BY <2>1, <2>3 DEF Elements
      <3> QED
        BY <3>1
    <2>4. CASE ~gone
      <3>1. Elements(sess_list) \subseteq allocated
        BY <2>1, <2>4 DEF OnePlace, Linked
      <3>2. Elements(sess_list') = Elements(sess_list)
        BY <2>1 DEF Elements
      <3> QED
        BY <2>1, <2>2, <3>1, <3>2
    <2> QED
      BY <2>3, <2>4
  <1>13. CASE StartWriteWait(t)
    BY <1>13 DEF StartWriteWait
  <1>14. CASE StartInsert(t)
    <2>1. /\ Alive /\ ~gone /\ ws_tmp[t] = First(sess_list) /\ ws_iter[t] \in Nodes
          /\ pc[t] = "start_insert" /\ UNCHANGED <<valid_until, destroyed>>
      BY <1>14 DEF StartInsert, Locals
    <2>2. From(sess_list, ws_tmp[t]) = sess_list
      BY <2>1, FromFirst DEF OnePlace
    <2>3. Elements(sess_list') = Elements(sess_list) \cup {ws_iter[t]}
      BY <1>14, <2>1, <2>2, Pushed DEF StartInsert
    <2>4. ws_iter[t] \notin destroyed
      BY <2>1 DEF OnePlace, Private, Destroying
    <2> QED
      BY <2>1, <2>3, <2>4
  <1>15. CASE StartReturn(t)
    BY <1>15 DEF StartReturn
  <1>16. CASE RegisterData(t)
    BY <1>16 DEF RegisterData
  <1>17. CASE DestroyFind(t)
    BY <1>17 DEF DestroyFind
  <1>18. CASE DestroyReadPost(t)
    BY <1>18 DEF DestroyReadPost
  <1>19. CASE DestroyInvalidate(t)
    BY <1>19 DEF DestroyInvalidate
  <1>20. CASE DestroyWritePost(t)
    BY <1>20 DEF DestroyWritePost, Destroying
  <1>21. CASE EndPage(t)
    BY <1>21 DEF EndPage
  <1>22. CASE UseAfterFree(t)
    BY <1>22 DEF UseAfterFree
  <1> QED
    BY <1>1, <1>2, <1>3, <1>4, <1>5, <1>6, <1>7, <1>8, <1>9, <1>10, <1>11,
       <1>12, <1>13, <1>14, <1>15, <1>16, <1>17, <1>18, <1>19, <1>20, <1>21,
       <1>22
       DEF WebStep, StartStep, DestroyStep

\* CleanMove takes a node from one list to the other, StartCreate makes one,
\* StartInsert links it.
LEMMA WebOnePlace ==
    ASSUME SessionInv, NEW t \in Threads, WebStep(t), Alive', ~gone'
    PROVE  OnePlace'
  <1> USE WebSessionAssumption
  <1>1. CASE ~Relink(t)
    <2>1. /\ UNCHANGED <<sess_list, sess_deleted, allocated>>
          /\ \A u \in Threads : /\ Making(u)' = Making(u)
                                /\ Making(u) => ws_iter'[u] = ws_iter[u]
      BY <1>1, ListsKept
    <2>2. Private' = Private
      BY <2>1 DEF Private, Making
    <2>3. Alive /\ ~gone
      BY <1>1, ListsKept
    <2>4. Linked' = Linked
      BY <2>1 DEF Linked
    <2> QED
      BY <2>1, <2>2, <2>3, <2>4 DEF SessionInv, OnePlace
  <1>2. CASE CleanMove(t)
    <2>1. OnePlace
      BY <1>2 DEF SessionInv, CleanMove, Goto, Usable
    <2> DEFINE n == FirstExpired(t)
    <2>2. n \in Elements(sess_list) /\ n \in Nodes
      BY <1>2, FirstExpiredInside, ListElements DEF SessionInv, TypeOK, CleanMove, Expired
    <2> HIDE DEF n
    <2>3. /\ sess_list' = Without(sess_list, n) /\ sess_deleted' = <<n>> \o sess_deleted
          /\ UNCHANGED <<allocated, ws_iter>> /\ pc' = [pc EXCEPT ![t] = pc[t]]
      BY <1>2 DEF CleanMove, Goto, localVars, pageVars, n
    <2>4. Distinct(sess_list') /\ Elements(sess_list') = Elements(sess_list) \ {n}
      BY <2>1, <2>2, <2>3, Unlinked DEF SessionInv, TypeOK, OnePlace
    <2>5. Distinct(sess_deleted') /\ Elements(sess_deleted') = Elements(sess_deleted) \cup {n}
      BY <2>1, <2>2, <2>3, Pushed DEF SessionInv, TypeOK, OnePlace
    <2>6. \A u \in Threads : Making(u)' = Making(u)
      BY <2>3 DEF SessionInv, TypeOK, Making
    <2>7. Private' = Private
      BY <2>3 DEF SessionInv, TypeOK, Private
    <2> QED
      BY <2>1, <2>2, <2>3, <2>4, <2>5, <2>6, <2>7 DEF OnePlace, Linked
  <1>3. CASE CleanFree(t)
    BY <1>3 DEF CleanFree, Alive
  <1>4. CASE StartCreate(t)
    <2>1. Alive /\ ~gone /\ OnePlace
      BY <1>4 DEF SessionInv, StartCreate, Goto, Alive, endVars
    <2>2. UNCHANGED <<sess_list, sess_deleted>>
      BY <1>4 DEF StartCreate
    <2>3. CASE UNCHANGED <<allocated, ws_iter>> /\ pc' = [pc EXCEPT ![t] = "start_return"]
                 /\ pc[t] = "start_create"
      <3>1. \A u \in Threads : Making(u)' = Making(u)
        BY <2>3 DEF SessionInv, TypeOK, Making, Callers
      <3>2. Private' = Private
        BY <2>3, <3>1 DEF Private, Making
      <3>3. Linked' = Linked
        BY <2>2 DEF Linked
      <3> QED
        BY <2>1, <2>2, <2>3, <3>1, <3>2, <3>3 DEF OnePlace
    <2>4. ASSUME NEW n \in Nodes \ allocated,
                 pc[t] = "start_create", pc' = [pc EXCEPT ![t] = "start_write_wait"],
                 allocated' = allocated \cup {n}, ws_iter' = [ws_iter EXCEPT ![t] = n]
          PROVE  OnePlace'
      <3>1. \A u \in Threads : Making(u)' = (Making(u) \/ u = t)
        BY <2>4 DEF SessionInv, TypeOK, Making, Callers
      <3>2. ~Making(t) /\ ws_iter'[t] = n /\ \A u \in Threads \ {t} : ws_iter'[u] = ws_iter[u]
        BY <2>4 DEF SessionInv, TypeOK, Making
      <3>3. Private' = Private \cup {n}
        BY <3>1, <3>2 DEF Private, Making
      <3>4. \A u \in Threads : Making(u) => ws_iter[u] # n
        BY <2>1, <2>4 DEF OnePlace, Private, Making
      <3>5. Linked' = Linked
        BY <2>2 DEF Linked
      <3>6. n \notin Linked
        BY <2>1, <2>4 DEF OnePlace
      <3>7. IsFiniteSet(allocated')
        BY <2>1, <2>4, FS_AddElement DEF OnePlace
      <3> QED
        BY <2>1, <2>2, <2>4, <3>1, <3>2, <3>3, <3>4, <3>5, <3>6, <3>7 DEF OnePlace
    <2> QED
      BY <1>4, <2>3, <2>4 DEF StartCreate, Goto
  <1>5. CASE StartInsert(t)
    <2>1. /\ Alive /\ ~gone /\ OnePlace /\ pc[t] = "start_insert"
          /\ ws_iter[t] \in Nodes /\ ws_tmp[t] = First(sess_list)
      BY <1>5 DEF SessionInv, TypeOK, Locals, StartInsert, Goto, Usable
    <2> DEFINE n == ws_iter[t]
    <2>2. From(sess_list, ws_tmp[t]) = sess_list
      BY <2>1, FromFirst DEF SessionInv, TypeOK, OnePlace
    <2>3. /\ sess_list' = <<n>> \o sess_list /\ UNCHANGED <<sess_deleted, allocated, ws_iter>>
          /\ pc' = [pc EXCEPT ![t] = "start_return"]
      BY <1>5, <2>2 DEF StartInsert, Goto
    <2>4. n \in Private /\ n \notin Linked
      BY <2>1 DEF OnePlace, Private
    <2>5. Distinct(sess_list') /\ Elements(sess_list') = Elements(sess_list) \cup {n}
      BY <2>1, <2>3, <2>4, Pushed DEF SessionInv, TypeOK, OnePlace, Linked
    <2>6. \A u \in Threads : Making(u)' = (Making(u) /\ u # t)
      BY <2>3 DEF SessionInv, TypeOK, Making, Callers
    <2>7. Making(t) /\ \A u \in Threads \ {t} : Making(u) => ws_iter[u] # n
      BY <2>1 DEF OnePlace, Making
    <2>8. Private' = Private \ {n}
      BY <2>3, <2>6, <2>7 DEF Private, Making
    <2>9. Linked' = Linked \cup {n}
      BY <2>3, <2>5 DEF Linked
    <2>10. Elements(sess_list') \cap Elements(sess_deleted') = {}
      BY <2>1, <2>3, <2>4, <2>5 DEF OnePlace, Linked
    <2> QED
      BY <2>1, <2>3, <2>4, <2>5, <2>6, <2>8, <2>9, <2>10 DEF OnePlace
  <1> QED
    BY <1>1, <1>2, <1>3, <1>4, <1>5 DEF Relink

-----------------------------------------------------------------------------
(***************************************************************************)
(* websession_free and the clock.                                          *)
(***************************************************************************)
LEMMA MainTypes ==
    ASSUME SessionInv, MainStep
    PROVE  TypeOK'
  <1> USE WebSessionAssumption DEF SessionInv, TypeOK, PCs, Callers,
         Lock!AcquireRead, Lock!ReleaseRead, Lock!AcquireWrite,
         Lock!ReleaseWrite, Goto, Alive, Usable, lockVars, listVars, dataVars,
         pageVars, localVars, endVars
  <1>1. CASE FreeCall
    BY <1>1 DEF FreeCall
  <1>2. CASE FreeDelLock
    BY <1>2 DEF FreeDelLock
  <1>3. CASE FreeWriteWait
    BY <1>3 DEF FreeWriteWait
  <1>4. CASE FreeAll
    <2>1. <<>> \in Seq(Nodes)
      BY EmptySeq
    <2> QED
      BY <1>4, <2>1 DEF FreeAll
  <1>5. CASE Tick
    BY <1>5 DEF Tick
  <1> QED
    BY <1>1, <1>2, <1>3, <1>4, <1>5
       DEF MainStep, FreeStep

LEMMA MainLock ==
    ASSUME SessionInv, MainStep
    PROVE  LockHeld'
  <1> USE WebSessionAssumption DEF SessionInv, TypeOK, Places, FreePCs,
         Callers, LockHeld, ReadPCs, WritePCs, Lock!AcquireRead,
         Lock!ReleaseRead, Lock!AcquireWrite, Lock!ReleaseWrite, Goto, Alive,
         Usable, lockVars, listVars, dataVars, pageVars, localVars, endVars
  <1>1. CASE FreeCall
    BY <1>1 DEF FreeCall
  <1>2. CASE FreeDelLock
    BY <1>2 DEF FreeDelLock
  <1>3. CASE FreeWriteWait
    BY <1>3 DEF FreeWriteWait
  <1>4. CASE FreeAll
    BY <1>4 DEF FreeAll
  <1>5. CASE Tick
    BY <1>5 DEF Tick
  <1> QED
    BY <1>1, <1>2, <1>3, <1>4, <1>5
       DEF MainStep, FreeStep

LEMMA MainPlaces ==
    ASSUME SessionInv, MainStep
    PROVE  Places' /\ Locals'
  <1> USE WebSessionAssumption DEF SessionInv, TypeOK, Places, FreePCs,
         Callers, Locals, Goto, Alive, Usable, lockVars, listVars, dataVars,
         pageVars, localVars, endVars
  <1>1. CASE FreeCall
    BY <1>1 DEF FreeCall
  <1>2. CASE FreeDelLock
    BY <1>2 DEF FreeDelLock
  <1>3. CASE FreeWriteWait
    BY <1>3 DEF FreeWriteWait
  <1>4. CASE FreeAll
    BY <1>4 DEF FreeAll, LockHeld, WritePCs
  <1>5. CASE Tick
    BY <1>5 DEF Tick
  <1> QED
    BY <1>1, <1>2, <1>3, <1>4, <1>5
       DEF MainStep, FreeStep

LEMMA MainSameSession ==
    ASSUME SessionInv, MainStep
    PROVE  SameSession'
  <1> USE WebSessionAssumption DEF SessionInv, TypeOK, Places, FreePCs,
         Callers, SameSession, Goto, Alive, Usable, lockVars,
         listVars, dataVars, pageVars, localVars, endVars
  <1>1. CASE FreeCall
    BY <1>1 DEF FreeCall
  <1>2. CASE FreeDelLock
    BY <1>2 DEF FreeDelLock
  <1>3. CASE FreeWriteWait
    BY <1>3 DEF FreeWriteWait
  <1>4. CASE FreeAll
    BY <1>4 DEF FreeAll
  <1>5. CASE Tick
    BY <1>5 DEF Tick
  <1> QED
    BY <1>1, <1>2, <1>3, <1>4, <1>5
       DEF MainStep, FreeStep

\* What is said of the nodes depends on the lists and on the threads.
LEMMA NodesKept ==
    ASSUME UNCHANGED <<listVars, localVars, destroyed>>,
           \A t \in Threads : pc'[t] = pc[t]
    PROVE  /\ OnePlace => OnePlace'
           /\ Shared => Shared'
           /\ Destroying => Destroying'
  <1> USE DEF listVars, localVars, pageVars
  <1>1. Private' = Private
    BY DEF Private
  <1>2. Linked' = Linked /\ Elements(sess_list') = Elements(sess_list)
    BY DEF Linked
  <1>3. \A t \in Threads : /\ Making(t)' = Making(t) /\ Owned(t)' = Owned(t)
                           /\ Refers(t)' = Refers(t)
    BY DEF Making, Owned, Refers
  <1>4. OnePlace => OnePlace'
    BY <1>1, <1>2, <1>3 DEF OnePlace
  <1>5. Shared => Shared'
    BY <1>3 DEF Shared, OwnedOnce
  <1>6. Destroying => Destroying'
    BY <1>2 DEF Destroying
  <1> QED
    BY <1>4, <1>5, <1>6

LEMMA MainLists ==
    ASSUME SessionInv, MainStep
    PROVE  (Alive' /\ ~gone' => OnePlace' /\ Shared' /\ Destroying') /\ DestroyedStaysInvalid'
  <1> USE WebSessionAssumption DEF SessionInv, TypeOK, Places, FreePCs,
         Callers, DestroyedStaysInvalid, Goto, Alive, Usable, lockVars,
         listVars, dataVars, pageVars, localVars, endVars
  <1>1. CASE FreeCall
    <2>1. /\ UNCHANGED <<listVars, localVars, destroyed, gone, crashed, freedLive, noItem>>
          /\ \A t \in Threads : pc'[t] = pc[t]
      BY <1>1 DEF FreeCall
    <2> QED
      BY <2>1, NodesKept
  <1>2. CASE FreeDelLock
    <2>1. /\ UNCHANGED <<listVars, localVars, destroyed, gone, crashed, freedLive, noItem>>
          /\ \A t \in Threads : pc'[t] = pc[t]
      BY <1>2 DEF FreeDelLock
    <2> QED
      BY <2>1, NodesKept
  <1>3. CASE FreeWriteWait
    <2>1. /\ UNCHANGED <<listVars, localVars, destroyed, gone, crashed, freedLive, noItem>>
          /\ \A t \in Threads : pc'[t] = pc[t]
      BY <1>3 DEF FreeWriteWait
    <2> QED
      BY <2>1, NodesKept
  <1>4. CASE FreeAll
    BY <1>4 DEF FreeAll, Elements
  <1>5. CASE Tick
    <2>1. /\ UNCHANGED <<listVars, localVars, destroyed, gone, crashed, freedLive, noItem>>
          /\ \A t \in Threads : pc'[t] = pc[t]
      BY <1>5 DEF Tick
    <2> QED
      BY <2>1, NodesKept
  <1> QED
    BY <1>1, <1>2, <1>3, <1>4, <1>5
       DEF MainStep, FreeStep

-----------------------------------------------------------------------------
(***************************************************************************)
(* The invariant and what follows from it.                                 *)
(***************************************************************************)
LEMMA SessionInvInit == Init => SessionInv
  <1> SUFFICES ASSUME Init PROVE SessionInv
    OBVIOUS
  <1> USE WebSessionAssumption DEF Init
  <1>1. TypeOK
    <2>1. <<>> \in Seq(Nodes)
      BY EmptySeq
    <2>2. pc \in [Callers -> PCs]
      BY DEF PCs
    <2>3. now \in [Threads -> 0..MaxClock] /\ clock \in 1..MaxClock
      OBVIOUS
    <2>4. {sid, ws_iter, ws_prev, ws_tmp, session, sess_vars}
            \subseteq [Threads -> Nodes \cup {Nil}]
      OBVIOUS
    <2>5. readLocks \in 0..MaxReaders /\ valid_until \in [Nodes -> Nat]
      OBVIOUS
    <2>6. {gone, crashed, overlap, freedLive, noItem} \subseteq BOOLEAN
      OBVIOUS
    <2>7. invalid_count \in [Threads -> BOOLEAN] /\ {registered, destroyed} \subseteq SUBSET Nodes
      OBVIOUS
    <2> QED
      BY <2>1, <2>2, <2>3, <2>4, <2>5, <2>6, <2>7 DEF TypeOK
  <1>2. LockHeld
    <2>1. IsFiniteSet(readHolders) /\ Cardinality(readHolders) = 0
      BY FS_EmptySet
    <2> QED
      BY <2>1 DEF LockHeld, ReadPCs, WritePCs, Callers
  <1>3. Places /\ Locals
    BY DEF Places, Locals, FreePCs, Callers
  <1>4. Private = {} /\ Elements(sess_list) = {} /\ Elements(sess_deleted) = {}
    BY DEF Private, Callers, Elements
  <1>5. OnePlace
    <2>1. IsFiniteSet(allocated)
      BY FS_EmptySet
    <2>2. \A t \in Threads : ~Making(t)
      BY DEF Making, Callers
    <2> QED
      BY <1>4, <2>1, <2>2 DEF OnePlace, Linked, Distinct
  <1>6. Shared
    BY DEF Shared, Refers, OwnedOnce, Owned, LooksFor, Callers
  <1>7. Destroying /\ DestroyedStaysInvalid
    BY DEF Destroying, DestroyedStaysInvalid, Callers
  <1>8. SameSession
    BY DEF SameSession, Callers
  <1> QED
    BY <1>1, <1>2, <1>3, <1>5, <1>6, <1>7, <1>8 DEF SessionInv

LEMMA SessionInvWeb ==
    ASSUME SessionInv, NEW t \in Threads, WebStep(t)
    PROVE  SessionInv'
  <1>1. TypeOK' /\ LockHeld' /\ Places' /\ Locals'
    BY WebTypes, WebLock, WebPlaces, WebLocals
  <1>2. Alive' /\ ~gone' => OnePlace' /\ Shared' /\ Destroying'
    BY WebOnePlace, WebShared, WebDestroying
  <1>3. DestroyedStaysInvalid' /\ SameSession'
    BY WebDestroyed, WebSameSession
  <1> QED
    BY <1>1, <1>2, <1>3 DEF SessionInv

LEMMA SessionInvMain ==
    ASSUME SessionInv, MainStep
    PROVE  SessionInv'
  <1>1. TypeOK' /\ LockHeld' /\ Places' /\ Locals'
    BY MainTypes, MainLock, MainPlaces
  <1>2. Alive' /\ ~gone' => OnePlace' /\ Shared' /\ Destroying'
    BY MainLists
  <1>3. DestroyedStaysInvalid' /\ SameSession'
    BY MainLists, MainSameSession
  <1> QED
    BY <1>1, <1>2, <1>3 DEF SessionInv

LEMMA SessionInvStutter ==
    ASSUME SessionInv, UNCHANGED vars
    PROVE  SessionInv'
  <1> USE DEF vars, endVars, lockVars, listVars, localVars, pageVars
  <1>1. TypeOK' /\ LockHeld'
    BY DEF SessionInv, TypeOK, LockHeld
  <1>2. Places' /\ Locals'
    BY DEF SessionInv, Places, Locals, Alive, First, Elements
  <1>3. Alive' /\ ~gone' => OnePlace' /\ Shared' /\ Destroying'
    BY NodesKept DEF SessionInv, Alive
  <1>4. DestroyedStaysInvalid' /\ SameSession'
    BY DEF SessionInv, DestroyedStaysInvalid, SameSession, Alive, Elements
  <1> QED
    BY <1>1, <1>2, <1>3, <1>4 DEF SessionInv

LEMMA SessionInvNext == SessionInv /\ [Next]_vars => SessionInv'
  <1> SUFFICES ASSUME SessionInv, [Next]_vars PROVE SessionInv'
    OBVIOUS
  <1>1. ASSUME NEW t \in Threads, StartStep(t) \/ DestroyStep(t) \/ EndPage(t) \/ UseAfterFree(t)
        PROVE  SessionInv'
    BY <1>1, SessionInvWeb DEF WebStep
  <1>2. CASE FreeStep \/ Tick
    BY <1>2, SessionInvMain DEF MainStep
  <1>3. CASE UNCHANGED vars
    BY <1>3, SessionInvStutter
  <1> QED
    BY <1>1, <1>2, <1>3 DEF Next

\* The inductive invariant holds in every state: sess_lock and sess_del_mutex
\* keep the lists of websession.c in order as long as no session of the live
\* list is freed.
THEOREM SessionInvariant == Spec => []SessionInv
  BY SessionInvInit, SessionInvNext, PTL DEF Spec

\* Every variable of websession.c keeps its type: no null pointer is followed,
\* no walk leaves its list, and no more than max_readers read locks are given.
THEOREM SessionTypeCorrect == Spec => []TypeOK
  BY SessionInvariant, PTL DEF SessionInv

\* What OnePlace says of the nodes, counted.
LEMMA NodesCounted ==
    ASSUME OnePlace, sess_list \in Seq(Nodes), sess_deleted \in Seq(Nodes)
    PROVE  Len(sess_list) + Len(sess_deleted) + Cardinality(Private) = Cardinality(allocated)
  <1>1. /\ IsFiniteSet(Elements(sess_list)) /\ Cardinality(Elements(sess_list)) = Len(sess_list)
        /\ IsFiniteSet(Elements(sess_deleted))
        /\ Cardinality(Elements(sess_deleted)) = Len(sess_deleted)
    BY DistinctCount DEF OnePlace
  <1>2. IsFiniteSet(Private)
    BY FS_Subset DEF OnePlace
  <1>3. Cardinality({}) = 0 /\ Cardinality(Private) \in Nat
    BY <1>2, FS_EmptySet, FS_CardinalityType
  <1>4. IsFiniteSet(Linked) /\ Cardinality(Linked) = Len(sess_list) + Len(sess_deleted)
    <2>1. /\ IsFiniteSet(Elements(sess_list) \cup Elements(sess_deleted))
          /\ Cardinality(Elements(sess_list) \cup Elements(sess_deleted))
               = Cardinality(Elements(sess_list)) + Cardinality(Elements(sess_deleted))
                 - Cardinality(Elements(sess_list) \cap Elements(sess_deleted))
      BY <1>1, FS_Union
    <2>2. Len(sess_list) \in Nat /\ Len(sess_deleted) \in Nat
      BY LenProperties
    <2>3. Cardinality(Elements(sess_list) \cap Elements(sess_deleted)) = 0
      BY <1>3 DEF OnePlace
    <2>4. Cardinality(Elements(sess_list) \cup Elements(sess_deleted))
            = Len(sess_list) + Len(sess_deleted)
      BY <1>1, <2>1, <2>2, <2>3
    <2> QED
      BY <2>1, <2>4 DEF Linked
  <1>5. Cardinality(Linked \cup Private)
          = Cardinality(Linked) + Cardinality(Private) - Cardinality(Linked \cap Private)
    BY <1>2, <1>4, FS_Union
  <1>6. Linked \cap Private = {} /\ allocated = Linked \cup Private
    BY DEF OnePlace
  <1>7. Len(sess_list) \in Nat /\ Len(sess_deleted) \in Nat
    BY LenProperties
  <1>8. Cardinality(Linked \cap Private) = 0
    BY <1>3, <1>6
  <1>9. Cardinality(Linked \cup Private) = Cardinality(Linked) + Cardinality(Private)
    BY <1>3, <1>4, <1>5, <1>7, <1>8
  <1> QED
    BY <1>4, <1>6, <1>9

\* No interleaving of session_start, session_destroy and the clean-up loses a
\* session, links one twice or leaves a freed one linked.
THEOREM ListsStaySound == Spec => []ListsSound
  <1>1. SessionInv => ListsSound
    BY NodesCounted DEF SessionInv, TypeOK, ListsSound, OnePlace, Linked
  <1> QED
    BY <1>1, SessionInvariant, PTL

\* A destroyed session is never valid again, whatever time a session_start
\* that runs at the same time has read.
THEOREM DestroyedForGood == Spec => []DestroyedStaysInvalid
  BY SessionInvariant, PTL DEF SessionInv

\* A page works with the variables of its own session, although the item of
\* data is looked for and registered in two calls.
THEOREM PageHasItsVariables == Spec => []VariablesOfSession
  <1>1. SessionInv => VariablesOfSession
    BY DEF SessionInv, SameSession, VariablesOfSession
  <1> QED
    BY <1>1, SessionInvariant, PTL
=============================================================================
