---------------------------- MODULE ServerProofs ----------------------------
(***************************************************************************)
(* Proofs about ThreadRegister, for every finite set of web threads and    *)
(* every number of looks at the count, and about Server, for every number  *)
(* of web threads, descriptors and signals: the server uses the register   *)
(* as ThreadRegister says, so what is proved of the register holds in the  *)
(* server, and with it that no module is freed under a web thread that was *)
(* waited for; nobody closes another's descriptor, and the main loop does  *)
(* not end, before a signal or a thread that could not be created.         *)
(***************************************************************************)
EXTENDS Server, FiniteSetTheorems, WellFoundedInduction, TLAPS

-----------------------------------------------------------------------------
\* The register.

\* What an orderly end of the loop leaves: every thread that still exists
\* has counted itself down, and once the main thread has had the list none
\* of them has a use for the register.
Drained ==
    freePc \notin {"not_called", "count", "sleep"} /\ ~timedOut /\ ~late =>
        \A t \in Threads :
            \/ pc[t] \in {"none", "ending"}
            \/ pc[t] = "unreg_unlock_list" /\ freePc \in {"lock_count", "lock_list"}

FreedAtTheEnd == freed <=> freePc = "returned"

\* A thread that uses the freed register is one that was not waited for.
CrashExplained == crashed => timedOut \/ late

RegInv ==
    /\ RegTypeOK
    /\ RegisterExclusion
    /\ CountAgrees
    /\ Drained
    /\ FreedAtTheEnd
    /\ CrashExplained

-----------------------------------------------------------------------------
\* What one step of web thread t, of cthread_create, or of the main thread
\* in webthread_free can be.
WebStep(t) == ThreadStep(t) \/ CreateThread(t)
RegMainStep == FreeCall \/ FreeStep

LEMMA CountedFinite ==
    ASSUME NEW S, S \subseteq Threads
    PROVE  IsFiniteSet(S) /\ Cardinality(S) \in Nat
  BY FS_Subset, FS_CardinalityType, ThreadRegisterAssumption

-----------------------------------------------------------------------------
(***************************************************************************)
(* The count.  Only RegisterInsert and UnregisterDecrement change the set  *)
(* of counted threads, each by the thread that makes the step, and each    *)
(* changes the count by one.                                               *)
(***************************************************************************)
\* How a step of thread t changes the set of counted threads.
LEMMA CountedStep ==
    ASSUME RegInv, NEW t \in Threads, WebStep(t)
    PROVE  \/ ulThreadCount' = ulThreadCount /\ Counted' = Counted
           \/ /\ ulThreadCount' = ulThreadCount + 1
              /\ t \notin Counted /\ Counted' = Counted \cup {t}
           \/ /\ ulThreadCount' = ulThreadCount - 1
              /\ t \in Counted /\ Counted' = Counted \ {t}
  <1> USE ThreadRegisterAssumption DEF RegInv, RegTypeOK, CountAgrees,
         Counted, ThreadPCs, MainGoto, Goto, Usable, mutexVars, listVars, freeVars
  <1>1. CASE RegisterLockList(t)
    BY <1>1 DEF RegisterLockList
  <1>2. CASE RegisterLockCount(t)
    BY <1>2 DEF RegisterLockCount
  <1>3. CASE RegisterInsert(t)
    BY <1>3 DEF RegisterInsert
  <1>4. CASE RegisterUnlockList(t)
    BY <1>4 DEF RegisterUnlockList
  <1>5. CASE UnregisterLockList(t)
    BY <1>5 DEF UnregisterLockList
  <1>6. CASE UnregisterFind(t)
    BY <1>6 DEF UnregisterFind
  <1>7. CASE UnregisterLockCount(t)
    BY <1>7 DEF UnregisterLockCount
  <1>8. CASE UnregisterDecrement(t)
    BY <1>8 DEF UnregisterDecrement
  <1>9. CASE UnregisterUnlockList(t)
    BY <1>9 DEF UnregisterUnlockList
  <1>10. CASE EndThread(t)
    BY <1>10 DEF EndThread
  <1>11. CASE UseAfterFree(t)
    BY <1>11 DEF UseAfterFree
  <1>12. CASE CreateThread(t)
    BY <1>12 DEF CreateThread
  <1> QED
    BY <1>1, <1>2, <1>3, <1>4, <1>5, <1>6, <1>7, <1>8, <1>9, <1>10,
       <1>11, <1>12
       DEF WebStep, ThreadStep

LEMMA CountStep ==
    ASSUME RegInv, NEW t \in Threads, WebStep(t)
    PROVE  ulThreadCount' = Cardinality(Counted') /\ ulThreadCount' \in Nat
  <1>1. Counted \subseteq Threads /\ ulThreadCount = Cardinality(Counted)
    BY DEF RegInv, RegTypeOK, CountAgrees, Counted
  <1>2. IsFiniteSet(Counted) /\ Cardinality(Counted) \in Nat
    BY <1>1, CountedFinite
  <1>3. CASE ulThreadCount' = ulThreadCount /\ Counted' = Counted
    BY <1>1, <1>2, <1>3
  <1>4. CASE /\ ulThreadCount' = ulThreadCount + 1
             /\ t \notin Counted /\ Counted' = Counted \cup {t}
    BY <1>1, <1>2, <1>4, FS_AddElement
  <1>5. CASE /\ ulThreadCount' = ulThreadCount - 1
             /\ t \in Counted /\ Counted' = Counted \ {t}
    <2>1. Cardinality(Counted \ {t}) = Cardinality(Counted) - 1
      BY <1>2, <1>5, FS_RemoveElement
    <2>2. IsFiniteSet(Counted') /\ Cardinality(Counted') \in Nat
      BY <1>1, <1>5, CountedFinite
    <2> QED
      BY <1>1, <1>5, <2>1, <2>2
  <1> QED
    BY <1>3, <1>4, <1>5, CountedStep

\* The list keeps the threads that are registered and not unlinked yet.
LEMMA ListedStep ==
    ASSUME RegInv, NEW t \in Threads, WebStep(t)
    PROVE  \A u \in Threads :
               u \in threads' <=> pc'[u] \in {"reg_unlock_list", "serving", "unreg_find"}
  <1> USE ThreadRegisterAssumption DEF RegInv, RegTypeOK, CountAgrees,
         RegisterExclusion, HoldsList, ThreadPCs, MainGoto, Goto, Usable, mutexVars, listVars, freeVars
  <1>1. CASE RegisterLockList(t)
    BY <1>1 DEF RegisterLockList
  <1>2. CASE RegisterLockCount(t)
    BY <1>2 DEF RegisterLockCount
  <1>3. CASE RegisterInsert(t)
    BY <1>3 DEF RegisterInsert
  <1>4. CASE RegisterUnlockList(t)
    BY <1>4 DEF RegisterUnlockList
  <1>5. CASE UnregisterLockList(t)
    BY <1>5 DEF UnregisterLockList
  <1>6. CASE UnregisterFind(t)
    BY <1>6 DEF UnregisterFind
  <1>7. CASE UnregisterLockCount(t)
    BY <1>7 DEF UnregisterLockCount
  <1>8. CASE UnregisterDecrement(t)
    BY <1>8 DEF UnregisterDecrement
  <1>9. CASE UnregisterUnlockList(t)
    BY <1>9 DEF UnregisterUnlockList
  <1>10. CASE EndThread(t)
    BY <1>10 DEF EndThread
  <1>11. CASE UseAfterFree(t)
    BY <1>11 DEF UseAfterFree
  <1>12. CASE CreateThread(t)
    BY <1>12 DEF CreateThread
  <1> QED
    BY <1>1, <1>2, <1>3, <1>4, <1>5, <1>6, <1>7, <1>8, <1>9, <1>10,
       <1>11, <1>12
       DEF WebStep, ThreadStep

-----------------------------------------------------------------------------
(***************************************************************************)
(* Types, and the owners of the two mutexes.                               *)
(***************************************************************************)
LEMMA WebTypes ==
    ASSUME RegInv, NEW t \in Threads, WebStep(t)
    PROVE  RegTypeOK'
  <1> USE ThreadRegisterAssumption, CountStep DEF RegInv, RegTypeOK,
         ThreadPCs, MainGoto, Goto, Usable, mutexVars, listVars, freeVars
  <1>1. CASE RegisterLockList(t)
    BY <1>1 DEF RegisterLockList
  <1>2. CASE RegisterLockCount(t)
    BY <1>2 DEF RegisterLockCount
  <1>3. CASE RegisterInsert(t)
    BY <1>3 DEF RegisterInsert
  <1>4. CASE RegisterUnlockList(t)
    BY <1>4 DEF RegisterUnlockList
  <1>5. CASE UnregisterLockList(t)
    BY <1>5 DEF UnregisterLockList
  <1>6. CASE UnregisterFind(t)
    BY <1>6 DEF UnregisterFind
  <1>7. CASE UnregisterLockCount(t)
    BY <1>7 DEF UnregisterLockCount
  <1>8. CASE UnregisterDecrement(t)
    BY <1>8 DEF UnregisterDecrement
  <1>9. CASE UnregisterUnlockList(t)
    BY <1>9 DEF UnregisterUnlockList
  <1>10. CASE EndThread(t)
    BY <1>10 DEF EndThread
  <1>11. CASE UseAfterFree(t)
    BY <1>11 DEF UseAfterFree
  <1>12. CASE CreateThread(t)
    BY <1>12 DEF CreateThread
  <1> QED
    BY <1>1, <1>2, <1>3, <1>4, <1>5, <1>6, <1>7, <1>8, <1>9, <1>10,
       <1>11, <1>12
       DEF WebStep, ThreadStep

LEMMA WebOwners ==
    ASSUME RegInv, NEW t \in Threads, WebStep(t)
    PROVE  RegisterExclusion'
  <1> USE ThreadRegisterAssumption DEF RegInv, RegTypeOK, RegisterExclusion,
         HoldsList, HoldsCount, ThreadPCs, FreePCs, MainGoto, Goto, Usable, mutexVars, listVars, freeVars
  <1>1. CASE RegisterLockList(t)
    BY <1>1 DEF RegisterLockList
  <1>2. CASE RegisterLockCount(t)
    BY <1>2 DEF RegisterLockCount
  <1>3. CASE RegisterInsert(t)
    BY <1>3 DEF RegisterInsert
  <1>4. CASE RegisterUnlockList(t)
    BY <1>4 DEF RegisterUnlockList
  <1>5. CASE UnregisterLockList(t)
    BY <1>5 DEF UnregisterLockList
  <1>6. CASE UnregisterFind(t)
    BY <1>6 DEF UnregisterFind
  <1>7. CASE UnregisterLockCount(t)
    BY <1>7 DEF UnregisterLockCount
  <1>8. CASE UnregisterDecrement(t)
    BY <1>8 DEF UnregisterDecrement
  <1>9. CASE UnregisterUnlockList(t)
    BY <1>9 DEF UnregisterUnlockList
  <1>10. CASE EndThread(t)
    BY <1>10 DEF EndThread
  <1>11. CASE UseAfterFree(t)
    BY <1>11 DEF UseAfterFree
  <1>12. CASE CreateThread(t)
    BY <1>12 DEF CreateThread
  <1> QED
    BY <1>1, <1>2, <1>3, <1>4, <1>5, <1>6, <1>7, <1>8, <1>9, <1>10,
       <1>11, <1>12
       DEF WebStep, ThreadStep

LEMMA MainTypes ==
    ASSUME RegInv, RegMainStep
    PROVE  RegTypeOK'
  <1> USE ThreadRegisterAssumption DEF RegInv, RegTypeOK, FreePCs,
         MainGoto, Goto, Usable, mutexVars, listVars, freeVars
  <1>1. CASE FreeCall
    BY <1>1 DEF FreeCall
  <1>2. CASE FreeCount
    BY <1>2 DEF FreeCount
  <1>3. CASE FreeSleep
    <2>1. tries' \in 0..MaxTries
      BY <1>3 DEF FreeSleep
    <2>2. freePc' \in FreePCs /\ timedOut' \in BOOLEAN
      BY <1>3 DEF FreeSleep
    <2>3. UNCHANGED <<mutexVars, listVars, pc, freed, crashed, late>>
      BY <1>3 DEF FreeSleep
    <2> QED
      BY <2>1, <2>2, <2>3
  <1>4. CASE FreeLockCount
    BY <1>4 DEF FreeLockCount
  <1>5. CASE FreeLockList
    BY <1>5 DEF FreeLockList
  <1>6. CASE FreeUnlockCount
    BY <1>6 DEF FreeUnlockCount
  <1>7. CASE FreeUnlockList
    BY <1>7 DEF FreeUnlockList
  <1>8. CASE FreeDestroy
    BY <1>8 DEF FreeDestroy
  <1> QED
    BY <1>1, <1>2, <1>3, <1>4, <1>5, <1>6, <1>7, <1>8
       DEF RegMainStep, FreeStep

LEMMA MainOwners ==
    ASSUME RegInv, RegMainStep
    PROVE  RegisterExclusion'
  <1> USE ThreadRegisterAssumption DEF RegInv, RegTypeOK, RegisterExclusion,
         HoldsList, HoldsCount, FreePCs, MainGoto, Goto, Usable, mutexVars, listVars, freeVars
  <1>1. CASE FreeCall
    BY <1>1 DEF FreeCall
  <1>2. CASE FreeCount
    BY <1>2 DEF FreeCount
  <1>3. CASE FreeSleep
    BY <1>3 DEF FreeSleep
  <1>4. CASE FreeLockCount
    BY <1>4 DEF FreeLockCount
  <1>5. CASE FreeLockList
    BY <1>5 DEF FreeLockList
  <1>6. CASE FreeUnlockCount
    BY <1>6 DEF FreeUnlockCount
  <1>7. CASE FreeUnlockList
    BY <1>7 DEF FreeUnlockList
  <1>8. CASE FreeDestroy
    BY <1>8 DEF FreeDestroy
  <1> QED
    BY <1>1, <1>2, <1>3, <1>4, <1>5, <1>6, <1>7, <1>8
       DEF RegMainStep, FreeStep

\* webthread_free changes neither the list nor the count.
LEMMA MainCount ==
    ASSUME RegInv, RegMainStep
    PROVE  CountAgrees'
  <1> USE DEF RegInv, CountAgrees, Counted, MainGoto, Goto, Usable, mutexVars, listVars, freeVars
  <1>1. CASE FreeCall
    BY <1>1 DEF FreeCall
  <1>2. CASE FreeCount
    BY <1>2 DEF FreeCount
  <1>3. CASE FreeSleep
    BY <1>3 DEF FreeSleep
  <1>4. CASE FreeLockCount
    BY <1>4 DEF FreeLockCount
  <1>5. CASE FreeLockList
    BY <1>5 DEF FreeLockList
  <1>6. CASE FreeUnlockCount
    BY <1>6 DEF FreeUnlockCount
  <1>7. CASE FreeUnlockList
    BY <1>7 DEF FreeUnlockList
  <1>8. CASE FreeDestroy
    BY <1>8 DEF FreeDestroy
  <1> QED
    BY <1>1, <1>2, <1>3, <1>4, <1>5, <1>6, <1>7, <1>8
       DEF RegMainStep, FreeStep

-----------------------------------------------------------------------------
(***************************************************************************)
(* The shutdown.  A count of 0 means that no thread is between its         *)
(* registration and its last use of the count; a thread that is not        *)
(* registered yet would make the loop `late'; and what is left, threads    *)
(* about to unlock the list, is waited for by FreeLockList.                *)
(***************************************************************************)
LEMMA NoneCounted ==
    ASSUME RegInv, ulThreadCount = 0, NEW t \in Threads
    PROVE  pc[t] \in {"none", "ending", "unreg_unlock_list",
                      "created", "reg_lock_count", "reg_insert"}
  <1>1. Counted \subseteq Threads /\ Cardinality(Counted) = 0
    BY DEF RegInv, RegTypeOK, CountAgrees, Counted
  <1>2. Counted = {}
    BY <1>1, CountedFinite, FS_EmptySet
  <1>3. t \notin threads /\ pc[t] \notin {"unreg_lock_count", "unreg_decrement"}
    BY <1>2 DEF Counted
  <1> QED
    BY <1>3 DEF RegInv, RegTypeOK, CountAgrees, ThreadPCs

LEMMA WebDrained ==
    ASSUME RegInv, NEW t \in Threads, WebStep(t)
    PROVE  Drained' /\ FreedAtTheEnd' /\ CrashExplained'
  <1> USE DEF RegInv, RegTypeOK, Drained, FreedAtTheEnd, CrashExplained,
         UsesRegister, ThreadPCs, FreePCs, MainGoto, Goto, Usable, mutexVars, listVars, freeVars
  <1>1. CASE RegisterLockList(t)
    BY <1>1 DEF RegisterLockList
  <1>2. CASE RegisterLockCount(t)
    BY <1>2 DEF RegisterLockCount
  <1>3. CASE RegisterInsert(t)
    BY <1>3 DEF RegisterInsert
  <1>4. CASE RegisterUnlockList(t)
    BY <1>4 DEF RegisterUnlockList
  <1>5. CASE UnregisterLockList(t)
    BY <1>5 DEF UnregisterLockList
  <1>6. CASE UnregisterFind(t)
    BY <1>6 DEF UnregisterFind
  <1>7. CASE UnregisterLockCount(t)
    BY <1>7 DEF UnregisterLockCount
  <1>8. CASE UnregisterDecrement(t)
    BY <1>8 DEF UnregisterDecrement
  <1>9. CASE UnregisterUnlockList(t)
    BY <1>9 DEF UnregisterUnlockList
  <1>10. CASE EndThread(t)
    BY <1>10 DEF EndThread
  <1>11. CASE UseAfterFree(t)
    BY <1>11 DEF UseAfterFree
  <1>12. CASE CreateThread(t)
    BY <1>12 DEF CreateThread
  <1> QED
    BY <1>1, <1>2, <1>3, <1>4, <1>5, <1>6, <1>7, <1>8, <1>9, <1>10,
       <1>11, <1>12
       DEF WebStep, ThreadStep

LEMMA MainDrained ==
    ASSUME RegInv, RegMainStep
    PROVE  Drained' /\ FreedAtTheEnd' /\ CrashExplained'
  <1> USE DEF RegInv, RegTypeOK, Drained, FreedAtTheEnd, CrashExplained,
         ThreadPCs, FreePCs, RegisterExclusion, HoldsList, MainGoto, Goto, Usable, mutexVars, listVars, freeVars
  <1>1. CASE FreeCall
    BY <1>1 DEF FreeCall
  <1>2. CASE FreeCount
    BY <1>2, NoneCounted DEF FreeCount, Unregistered
  <1>3. CASE FreeSleep
    BY <1>3 DEF FreeSleep
  <1>4. CASE FreeLockCount
    BY <1>4 DEF FreeLockCount
  <1>5. CASE FreeLockList
    BY <1>5, ThreadRegisterAssumption DEF FreeLockList
  <1>6. CASE FreeUnlockCount
    BY <1>6 DEF FreeUnlockCount
  <1>7. CASE FreeUnlockList
    BY <1>7 DEF FreeUnlockList
  <1>8. CASE FreeDestroy
    BY <1>8 DEF FreeDestroy
  <1> QED
    BY <1>1, <1>2, <1>3, <1>4, <1>5, <1>6, <1>7, <1>8
       DEF RegMainStep, FreeStep

-----------------------------------------------------------------------------
LEMMA RegInvInit == RegInit => RegInv
  <1> SUFFICES ASSUME RegInit PROVE RegInv
    OBVIOUS
  <1>1. Counted = {}
    BY DEF RegInit, Counted
  <1>2. CountAgrees
    BY <1>1, FS_EmptySet DEF RegInit, CountAgrees
  <1>3. RegTypeOK
    <2>1. tries \in 0..MaxTries
      BY ThreadRegisterAssumption DEF RegInit
    <2>2. pc \in [Threads -> ThreadPCs]
      BY DEF RegInit, ThreadPCs
    <2> QED
      BY <2>1, <2>2 DEF RegInit, RegTypeOK, FreePCs
  <1>4. RegisterExclusion
    <2>1. \A t \in Threads : ~HoldsList(t) /\ ~HoldsCount(t)
      BY DEF RegInit, HoldsList, HoldsCount
    <2>2. NoOne \notin Threads /\ NoOne # Main
      BY ThreadRegisterAssumption
    <2> QED
      BY <2>1, <2>2 DEF RegInit, RegisterExclusion
  <1> QED
    BY <1>2, <1>3, <1>4
       DEF RegInit, RegInv, Drained, FreedAtTheEnd, CrashExplained

LEMMA RegInvWeb ==
    ASSUME RegInv, NEW t \in Threads, WebStep(t)
    PROVE  RegInv'
  <1>1. CountAgrees'
    BY CountStep, ListedStep DEF CountAgrees
  <1> QED
    BY <1>1, WebTypes, WebOwners, WebDrained DEF RegInv

LEMMA RegInvMain ==
    ASSUME RegInv, RegMainStep
    PROVE  RegInv'
  BY MainTypes, MainOwners, MainCount, MainDrained DEF RegInv

LEMMA RegInvStutter ==
    ASSUME RegInv, UNCHANGED regVars
    PROVE  RegInv'
  BY DEF regVars, RegInv, RegTypeOK, RegisterExclusion, HoldsList, HoldsCount,
     CountAgrees, Counted, Drained, FreedAtTheEnd, CrashExplained

LEMMA RegInvNext == RegInv /\ [RegNext]_regVars => RegInv'
  <1> SUFFICES ASSUME RegInv, [RegNext]_regVars PROVE RegInv'
    OBVIOUS
  <1>1. ASSUME NEW t \in Threads, ThreadStep(t) \/ CreateThread(t) PROVE RegInv'
    BY <1>1, RegInvWeb DEF WebStep
  <1>2. CASE FreeCall \/ FreeStep
    BY <1>2, RegInvMain DEF RegMainStep
  <1>3. CASE UNCHANGED regVars
    BY <1>3, RegInvStutter
  <1> QED
    BY <1>1, <1>2, <1>3 DEF RegNext

THEOREM RegisterInvariant == RegSpec => []RegInv
  BY RegInvInit, RegInvNext, PTL DEF RegSpec

\* The count never goes below 0 and every program counter stays in range.
THEOREM RegisterTypeCorrect == RegSpec => []RegTypeOK
  BY RegisterInvariant, PTL DEF RegInv

\* Both mutexes exclude: the code between a lock and its unlock runs in one
\* thread at a time.
THEOREM RegisterMutualExclusion == RegSpec => []RegisterExclusion
  BY RegisterInvariant, PTL DEF RegInv

\* The count and the list agree with where the threads are.
THEOREM RegisterCount == RegSpec => []CountAgrees
  BY RegisterInvariant, PTL DEF RegInv

\* Without a timeout and without a thread created too late, webthread_free
\* frees a register nobody uses, and meets no web thread that has the list
\* and wants the count.
THEOREM OrderlyShutdown == RegSpec => []OrderlyFreeIsSafe
  <1>1. RegInv => OrderlyFreeIsSafe
    BY DEF RegInv, Drained, CrashExplained, OrderlyFreeIsSafe, Deadlocked
  <1> QED
    BY <1>1, RegisterInvariant, PTL

-----------------------------------------------------------------------------
\* The server.

\* A set of natural numbers that is not empty has a least one: the lowest
\* free descriptor.
LEMMA LeastOf ==
    ASSUME NEW S, S \subseteq Nat, S # {}
    PROVE  \E m \in S : \A k \in S : m <= k
  <1> DEFINE Below == {p \in Nat \X Nat : p[1] < p[2]}
  <1>1. IsWellFoundedOn(Below, Nat)
    BY NatLessThanWellFounded DEF OpToRel
  <1>2. PICK m \in S : \A k \in S : ~ (<<k, m>> \in Below)
    BY <1>1, WFMin
  <1>3. ASSUME NEW k \in S PROVE m <= k
    <2>1. ~ (<<k, m>> \in Below) /\ k \in Nat /\ m \in Nat
      BY <1>2
    <2>2. ~ (k < m)
      BY <2>1
    <2> QED
      BY <2>1, <2>2
  <1> QED
    BY <1>3

LEMMA RegisterStepAllowed ==
    ASSUME [Next]_vars
    PROVE  [RegNext]_regVars
  <1> USE DEF RegNext
  <1>1. ASSUME Configure PROVE [RegNext]_regVars
    BY <1>1 DEF Configure
  <1>2. ASSUME OpenSocket6 PROVE [RegNext]_regVars
    BY <1>2 DEF OpenSocket6, OpenSocket
  <1>3. ASSUME OpenSocket4 PROVE [RegNext]_regVars
    BY <1>3 DEF OpenSocket4, OpenSocket
  <1>4. ASSUME Listen PROVE [RegNext]_regVars
    BY <1>4 DEF Listen
  <1>5. ASSUME InitModules PROVE [RegNext]_regVars
    BY <1>5 DEF InitModules
  <1>6. ASSUME LoopTest PROVE [RegNext]_regVars
    BY <1>6 DEF LoopTest
  <1>7. ASSUME SelectCall PROVE [RegNext]_regVars
    BY <1>7 DEF SelectCall
  <1>8. ASSUME SelectReturns PROVE [RegNext]_regVars
    BY <1>8 DEF SelectReturns
  <1>9. ASSUME SelectFailed PROVE [RegNext]_regVars
    BY <1>9 DEF SelectFailed
  <1>10. ASSUME AcceptCall PROVE [RegNext]_regVars
    BY <1>10 DEF AcceptCall, acceptFrame, TakeConnection
  <1>11. ASSUME AcceptReturns PROVE [RegNext]_regVars
    BY <1>11 DEF AcceptReturns, acceptFrame, TakeConnection
  <1>12. ASSUME AcceptFailed PROVE [RegNext]_regVars
    BY <1>12 DEF AcceptFailed
  <1>13. ASSUME NEW t \in Threads, StartThread(t) PROVE [RegNext]_regVars
    BY <1>13 DEF StartThread
  <1>14. ASSUME CreateFails PROVE [RegNext]_regVars
    BY <1>14 DEF CreateFails
  <1>15. ASSUME Deinitialize PROVE [RegNext]_regVars
    BY <1>15 DEF Deinitialize
  <1>16. ASSUME FreeThreads PROVE [RegNext]_regVars
    BY <1>16 DEF FreeThreads
  <1>17. ASSUME NEW m \in DOMAIN FreedBefore, FreeModule(m) PROVE [RegNext]_regVars
    BY <1>17 DEF FreeModule
  <1>18. ASSUME Exit PROVE [RegNext]_regVars
    BY <1>18 DEF Exit
  <1>19. ASSUME NEW t \in Threads, RegisterStep(t) PROVE [RegNext]_regVars
    BY <1>19 DEF RegisterStep
  <1>20. ASSUME NEW t \in Threads, OpenFile(t) PROVE [RegNext]_regVars
    BY <1>20 DEF OpenFile
  <1>21. ASSUME NEW t \in Threads, CloseFile(t) PROVE [RegNext]_regVars
    BY <1>21 DEF CloseFile
  <1>22. ASSUME NEW t \in Threads, CloseConnection(t) PROVE [RegNext]_regVars
    BY <1>22 DEF CloseConnection
  <1>23. ASSUME NEW w \in Workers, Signal(w) PROVE [RegNext]_regVars
    BY <1>23 DEF Signal
  <1>24. ASSUME NEW w \in Workers, HandlerClose4(w) PROVE [RegNext]_regVars
    BY <1>24 DEF HandlerClose4, HandlerClose
  <1>25. ASSUME NEW w \in Workers, HandlerClose6(w) PROVE [RegNext]_regVars
    BY <1>25 DEF HandlerClose6, HandlerClose
  <1>26. ASSUME NEW f \in Families, Arrive(f) PROVE [RegNext]_regVars
    BY <1>26 DEF Arrive
  <1>27. ASSUME NEW f \in Families, Reset(f) PROVE [RegNext]_regVars
    BY <1>27 DEF Reset
  <1>28. CASE UNCHANGED vars
    BY <1>28 DEF vars, mainVars
  <1> HIDE DEF RegNext
  <1>29. ASSUME MainStep PROVE [RegNext]_regVars
    BY <1>29, <1>1, <1>2, <1>3, <1>4, <1>5, <1>6, <1>7, <1>8, <1>9,
       <1>10, <1>11, <1>12, <1>13, <1>14, <1>15, <1>16, <1>17, <1>18 DEF
       MainStep
  <1>30. ASSUME NEW t \in Threads,
              RegisterStep(t) \/ OpenFile(t) \/ CloseFile(t) \/ CloseConnection(t)
        PROVE  [RegNext]_regVars
    BY <1>30, <1>19, <1>20, <1>21, <1>22
  <1>31. ASSUME NEW w \in Workers, Signal(w) \/ HandlerStep(w) PROVE [RegNext]_regVars
    BY <1>31, <1>23, <1>24, <1>25 DEF HandlerStep
  <1> QED
    BY <1>28, <1>29, <1>30, <1>31, <1>26, <1>27 DEF Next

\* Every behaviour of the server is one of the register, so that what is proved
\* of the register holds in the server.
LEMMA ServerUsesRegister == Spec => RegSpec
  <1>1. Init => RegInit
    BY DEF Init
  <1> QED
    BY <1>1, RegisterStepAllowed, PTL DEF Spec, RegSpec

\* What the register promises holds while the server runs.
THEOREM ServerRegisterInvariant == Spec => []RegInv
  BY ServerUsesRegister, RegisterInvariant, PTL

\* A shutdown that neither gave up waiting nor missed a thread does not free
\* the register under a thread and does not deadlock.
THEOREM ServerOrderlyShutdown == Spec => []OrderlyFreeIsSafe
  BY ServerUsesRegister, OrderlyShutdown, PTL

-----------------------------------------------------------------------------
(***************************************************************************)
(* The order of start up and shutdown: web threads exist only when every   *)
(* module but scripting is there, and webthread_free is called once, from  *)
(* the clean-up, before any other module is freed.                         *)
(***************************************************************************)
StartPCs == {"start", "sockets6", "sockets4", "listen", "modules"}
LoopPCs == { "loop", "select", "selecting", "select_failed",
             "accept", "accepting", "accept_failed", "create" }

NoThreads == \A t \in Threads : pc[t] = "none"
Complete == {"settings", "log", "commands", "threads", "sessions"} \subseteq initialized

Phases ==
    /\ mainPc \in StartPCs => NoThreads
    /\ mainPc \in StartPCs \ {"start"} => {"settings", "log"} \subseteq initialized
    /\ mainPc \in LoopPCs => Complete
    /\ mainPc = "deinit" => Complete \/ NoThreads
    /\ mainPc \notin {"freeing", "exited"} => freePc = "not_called"
    /\ mainPc = "freeing" =>
          \/ "threads" \in initialized /\ (Complete \/ NoThreads)
          \/ freePc = "returned"
          \/ freePc = "not_called" /\ NoThreads

\* A thread that does not exist makes no step.
LEMMA NoThreadStep ==
    ASSUME NEW t \in Threads, ThreadStep(t)
    PROVE  pc[t] # "none" /\ freePc' = freePc
  BY DEF ThreadStep, RegisterLockList, RegisterLockCount, RegisterInsert,
     RegisterUnlockList, UnregisterLockList, UnregisterFind,
     UnregisterLockCount, UnregisterDecrement, UnregisterUnlockList, EndThread,
     UseAfterFree, UsesRegister, Goto, freeVars

LEMMA FreeStepPC ==
    ASSUME FreeStep
    PROVE  freePc \notin {"not_called", "returned"} /\ pc' = pc
  BY DEF FreeStep, FreeCount, FreeSleep, FreeLockCount, FreeLockList,
     FreeUnlockCount, FreeUnlockList, FreeDestroy, MainGoto, listVars

LEMMA PhasesNext ==
    ASSUME Phases, [Next]_vars
    PROVE  Phases'
  <1> USE DEF Phases, StartPCs, LoopPCs, NoThreads, Complete, At, regVars
  <1>1. ASSUME Configure PROVE Phases'
    BY <1>1 DEF Configure
  <1>2. ASSUME OpenSocket6 PROVE Phases'
    BY <1>2 DEF OpenSocket6, OpenSocket
  <1>3. ASSUME OpenSocket4 PROVE Phases'
    BY <1>3 DEF OpenSocket4, OpenSocket
  <1>4. ASSUME Listen PROVE Phases'
    BY <1>4 DEF Listen
  <1>5. ASSUME InitModules PROVE Phases'
    BY <1>5 DEF InitModules
  <1>6. ASSUME LoopTest PROVE Phases'
    BY <1>6 DEF LoopTest
  <1>7. ASSUME SelectCall PROVE Phases'
    BY <1>7 DEF SelectCall
  <1>8. ASSUME SelectReturns PROVE Phases'
    BY <1>8 DEF SelectReturns
  <1>9. ASSUME SelectFailed PROVE Phases'
    BY <1>9 DEF SelectFailed
  <1>10. ASSUME AcceptCall PROVE Phases'
    BY <1>10 DEF AcceptCall, acceptFrame, TakeConnection
  <1>11. ASSUME AcceptReturns PROVE Phases'
    BY <1>11 DEF AcceptReturns, acceptFrame, TakeConnection
  <1>12. ASSUME AcceptFailed PROVE Phases'
    BY <1>12 DEF AcceptFailed
  <1>13. ASSUME NEW t \in Threads, StartThread(t) PROVE Phases'
    BY <1>13 DEF StartThread, CreateThread, freeVars
  <1>14. ASSUME CreateFails PROVE Phases'
    BY <1>14 DEF CreateFails
  <1>15. ASSUME Deinitialize PROVE Phases'
    BY <1>15 DEF Deinitialize, FreeCall, MainGoto
  <1>16. ASSUME FreeThreads PROVE Phases'
    BY <1>16, FreeStepPC DEF FreeThreads
  <1>17. ASSUME NEW m \in DOMAIN FreedBefore, FreeModule(m) PROVE Phases'
    BY <1>17 DEF FreeModule, FreedBefore
  <1>18. ASSUME Exit PROVE Phases'
    BY <1>18 DEF Exit
  <1>19. ASSUME NEW t \in Threads, RegisterStep(t) PROVE Phases'
    BY <1>19, NoThreadStep DEF RegisterStep, mainVars
  <1>20. ASSUME NEW t \in Threads, OpenFile(t) PROVE Phases'
    BY <1>20 DEF OpenFile, mainVars
  <1>21. ASSUME NEW t \in Threads, CloseFile(t) PROVE Phases'
    BY <1>21 DEF CloseFile, mainVars
  <1>22. ASSUME NEW t \in Threads, CloseConnection(t) PROVE Phases'
    BY <1>22 DEF CloseConnection, mainVars
  <1>23. ASSUME NEW w \in Workers, Signal(w) PROVE Phases'
    BY <1>23 DEF Signal
  <1>24. ASSUME NEW w \in Workers, HandlerClose4(w) PROVE Phases'
    BY <1>24 DEF HandlerClose4, HandlerClose, mainVars
  <1>25. ASSUME NEW w \in Workers, HandlerClose6(w) PROVE Phases'
    BY <1>25 DEF HandlerClose6, HandlerClose, mainVars
  <1>26. ASSUME NEW f \in Families, Arrive(f) PROVE Phases'
    BY <1>26 DEF Arrive, mainVars
  <1>27. ASSUME NEW f \in Families, Reset(f) PROVE Phases'
    BY <1>27 DEF Reset, mainVars
  <1>28. CASE UNCHANGED vars
    BY <1>28 DEF vars, mainVars
  <1> HIDE DEF Phases, StartPCs, LoopPCs, NoThreads, Complete, At,
              regVars
  <1>29. ASSUME MainStep PROVE Phases'
    BY <1>29, <1>1, <1>2, <1>3, <1>4, <1>5, <1>6, <1>7, <1>8, <1>9,
       <1>10, <1>11, <1>12, <1>13, <1>14, <1>15, <1>16, <1>17, <1>18 DEF
       MainStep
  <1>30. ASSUME NEW t \in Threads,
              RegisterStep(t) \/ OpenFile(t) \/ CloseFile(t) \/ CloseConnection(t)
        PROVE  Phases'
    BY <1>30, <1>19, <1>20, <1>21, <1>22
  <1>31. ASSUME NEW w \in Workers, Signal(w) \/ HandlerStep(w) PROVE Phases'
    BY <1>31, <1>23, <1>24, <1>25 DEF HandlerStep
  <1> QED
    BY <1>28, <1>29, <1>30, <1>31, <1>26, <1>27 DEF Next

LEMMA PhasesInit == Init => Phases
  BY DEF Init, RegInit, Phases, StartPCs, LoopPCs, NoThreads

\* No module is freed under a web thread, in every shutdown that neither gave
\* up waiting nor missed a thread that was just started.
THEOREM NoModuleFreedUnderThread == Spec => []ModulesOutliveThreads
  <1>1. RegInv /\ Phases => ModulesOutliveThreads
    BY DEF RegInv, Drained, Phases, NoThreads, Complete, ModulesOutliveThreads
  <1> QED
    BY <1>1, PhasesInit, PhasesNext, ServerRegisterInvariant, PTL DEF Spec

-----------------------------------------------------------------------------
(***************************************************************************)
(* The descriptor table.                                                   *)
(***************************************************************************)
\* open, socket and accept give out a descriptor that is free.
LEMMA LowestIsFree ==
    ASSUME FreeFds # {}
    PROVE  Lowest(FreeFds) \in Fds /\ fdOwner[Lowest(FreeFds)] = Free
  <1>1. FreeFds \subseteq Nat /\ FreeFds \subseteq Fds
    BY ServerAssumption DEF FreeFds, Fds
  <1>2. \E m \in FreeFds : \A k \in FreeFds : m <= k
    BY <1>1, LeastOf
  <1>3. Lowest(FreeFds) \in FreeFds
    BY <1>2 DEF Lowest
  <1> QED
    BY <1>3 DEF FreeFds

\* The owners of a descriptor are told apart.
LEMMA OwnersDiffer ==
    /\ \A f \in Families : Listener(f) # Free /\ Listener(f) # Accepted
    /\ \A f, g \in Families : Listener(f) = Listener(g) => f = g
    /\ Accepted # Free
    /\ \A t \in Threads : Conn(t) # Free /\ Conn(t) # Accepted
    /\ \A t \in Threads : File(t) # Free /\ File(t) # Accepted
    /\ \A t, u \in Threads : Conn(t) # File(u)
    /\ \A t, u \in Threads : Conn(t) = Conn(u) => t = u
    /\ \A t, u \in Threads : File(t) = File(u) => t = u
    /\ \A f \in Families, t \in Threads : Listener(f) # Conn(t) /\ Listener(f) # File(t)
    /\ \A o \in Owners : o # Free => o[1] \in {"listener", "file", "connection"}
  BY ThreadRegisterAssumption DEF Free, Listener, Accepted, Conn, File, Owners, Families

\* They are the owners of the table.
LEMMA OwnersTyped ==
    /\ Free \in Owners /\ Accepted \in Owners
    /\ \A f \in Families : Listener(f) \in Owners
    /\ \A t \in Threads : Conn(t) \in Owners /\ File(t) \in Owners
  BY DEF Owners

\* A descriptor that is closed becomes free.
LEMMA CloseTypes ==
    ASSUME NEW S, Close(S), fdOwner \in [Fds -> Owners], pending \in SUBSET Families
    PROVE  fdOwner' \in [Fds -> Owners] /\ pending' \in SUBSET Families
  BY OwnersTyped DEF Close

-----------------------------------------------------------------------------
(***************************************************************************)
(* Every variable has its type.                                            *)
(***************************************************************************)
LEMMA TypesInit == Init => TypeOK
  <1> SUFFICES ASSUME Init PROVE TypeOK
    OBVIOUS
  <1>1. RegTypeOK
    BY RegInvInit DEF Init, RegInv
  <1>2. /\ signals \in 0..MaxSignals
        /\ mainPc \in MainPCs
        /\ initialized \in SUBSET Modules
    BY ServerAssumption DEF Init, MainPCs
  <1> QED
    BY <1>1, <1>2, OwnersTyped DEF Init, TypeOK

\* A socket gets a descriptor of the table.
LEMMA SocketTypes ==
    ASSUME NEW f \in Families, NEW from, NEW to \in MainPCs,
           TypeOK, RegTypeOK', OpenSocket(f, from, to)
    PROVE  TypeOK'
  <1> USE DEF TypeOK, At, workVars, signalVars
  <1>1. CASE /\ f \in IPv /\ FreeFds # {}
             /\ listenfd' = [listenfd EXCEPT ![f] = Lowest(FreeFds)]
             /\ fdOwner' = [fdOwner EXCEPT ![Lowest(FreeFds)] = Listener(f)]
             /\ UNCHANGED IPv
    <2>1. listenfd' \in [Families -> Fds \cup {NoFd}]
      BY <1>1, LowestIsFree
    <2>2. fdOwner' \in [Fds -> Owners]
      BY <1>1, LowestIsFree, OwnersTyped
    <2>3. UNCHANGED <<main_loop, exit_sig_caught, main_exit_code, addr_set, argFd, IPv,
                      initialized, createFailed, workVars, signalVars, pending, watched>>
      BY <1>1 DEF OpenSocket
    <2>4. mainPc' \in MainPCs
      BY DEF OpenSocket
    <2> QED
      BY <2>1, <2>2, <2>3, <2>4
  <1>2. CASE IPv' = IPv \ {f} /\ UNCHANGED <<listenfd, fdOwner>>
    BY <1>2 DEF OpenSocket
  <1> QED
    BY <1>1, <1>2 DEF OpenSocket

LEMMA TypesNext ==
    ASSUME TypeOK, RegTypeOK', [Next]_vars
    PROVE  TypeOK'
  <1> USE ServerAssumption, OwnersTyped
      DEF TypeOK, MainPCs, Modules, At, mainVars, workVars, signalVars, kernelVars
  <1>1. ASSUME Configure PROVE TypeOK'
    BY <1>1 DEF Configure
  <1>2. ASSUME OpenSocket6 PROVE TypeOK'
    BY <1>2, SocketTypes DEF OpenSocket6, Families
  <1>3. ASSUME OpenSocket4 PROVE TypeOK'
    BY <1>3, SocketTypes DEF OpenSocket4, Families
  <1>4. ASSUME Listen PROVE TypeOK'
    BY <1>4 DEF Listen
  <1>5. ASSUME InitModules PROVE TypeOK'
    BY <1>5 DEF InitModules
  <1>6. ASSUME LoopTest PROVE TypeOK'
    BY <1>6 DEF LoopTest
  <1>7. ASSUME SelectCall PROVE TypeOK'
    BY <1>7, OwnersDiffer DEF SelectCall, OwnerOf
  <1>8. ASSUME SelectReturns PROVE TypeOK'
    BY <1>8 DEF SelectReturns, LetGo
  <1>9. ASSUME SelectFailed PROVE TypeOK'
    BY <1>9, CloseTypes DEF SelectFailed, CloseListeners
  <1>10. ASSUME AcceptCall PROVE TypeOK'
    <2>1. CASE Listening(Family) /\ Family \in pending /\ TakeConnection /\ UNCHANGED watched
      BY <1>10, <2>1, LowestIsFree DEF AcceptCall, acceptFrame, TakeConnection
    <2>2. CASE /\ mainPc' = "accepting"
               /\ watched' = [watched EXCEPT ![Family] = "listener"]
               /\ UNCHANGED <<argFd, fdOwner, pending>>
      BY <1>10, <2>2 DEF AcceptCall, acceptFrame
    <2>3. CASE /\ mainPc' = "accept_failed"
               /\ UNCHANGED <<argFd, fdOwner, pending, watched>>
      BY <1>10, <2>3 DEF AcceptCall, acceptFrame
    <2> QED
      BY <1>10, <2>1, <2>2, <2>3 DEF AcceptCall
  <1>11. ASSUME AcceptReturns PROVE TypeOK'
    BY <1>11, LowestIsFree DEF AcceptReturns, acceptFrame, TakeConnection
  <1>12. ASSUME AcceptFailed PROVE TypeOK'
    BY <1>12, CloseTypes DEF AcceptFailed, CloseListeners
  <1>13. ASSUME NEW t \in Threads, StartThread(t) PROVE TypeOK'
    BY <1>13 DEF StartThread
  <1>14. ASSUME CreateFails PROVE TypeOK'
    BY <1>14, CloseTypes DEF CreateFails, CloseListeners
  <1>15. ASSUME Deinitialize PROVE TypeOK'
    BY <1>15 DEF Deinitialize
  <1>16. ASSUME FreeThreads PROVE TypeOK'
    BY <1>16 DEF FreeThreads
  <1>17. ASSUME NEW m \in DOMAIN FreedBefore, FreeModule(m) PROVE TypeOK'
    BY <1>17 DEF FreeModule
  <1>18. ASSUME Exit PROVE TypeOK'
    BY <1>18 DEF Exit
  <1>19. ASSUME NEW t \in Threads, RegisterStep(t) PROVE TypeOK'
    BY <1>19 DEF RegisterStep
  <1>20. ASSUME NEW t \in Threads, OpenFile(t) PROVE TypeOK'
    BY <1>20, LowestIsFree DEF OpenFile
  <1>21. ASSUME NEW t \in Threads, CloseFile(t) PROVE TypeOK'
    BY <1>21, CloseTypes DEF CloseFile
  <1>22. ASSUME NEW t \in Threads, CloseConnection(t) PROVE TypeOK'
    BY <1>22, CloseTypes DEF CloseConnection
  <1>23. ASSUME NEW w \in Workers, Signal(w) PROVE TypeOK'
    <2>1. signals' \in 0..MaxSignals
      BY <1>23 DEF Signal
    <2>2. mainPc' \in MainPCs
      BY <1>23 DEF Signal
    <2>3. /\ pending' \in SUBSET Families
          /\ watched' \in [Families -> {"nothing", "listener", "file", "connection"}]
      BY <1>23 DEF Signal, LetGo
    <2>4. handler' \in [Workers -> {"none", "close4", "close6"}]
      BY <1>23 DEF Signal
    <2> QED
      BY <1>23, <2>1, <2>2, <2>3, <2>4 DEF Signal
  <1>24. ASSUME NEW w \in Workers, HandlerClose4(w) PROVE TypeOK'
    BY <1>24, CloseTypes DEF HandlerClose4, HandlerClose
  <1>25. ASSUME NEW w \in Workers, HandlerClose6(w) PROVE TypeOK'
    BY <1>25, CloseTypes DEF HandlerClose6, HandlerClose
  <1>26. ASSUME NEW f \in Families, Arrive(f) PROVE TypeOK'
    BY <1>26 DEF Arrive
  <1>27. ASSUME NEW f \in Families, Reset(f) PROVE TypeOK'
    BY <1>27 DEF Reset
  <1>28. CASE UNCHANGED vars
    BY <1>28 DEF vars
  <1> HIDE ServerAssumption, OwnersTyped
      DEF TypeOK, MainPCs, Modules, At, mainVars, workVars, signalVars, kernelVars
  <1>29. ASSUME MainStep PROVE TypeOK'
    BY <1>29, <1>1, <1>2, <1>3, <1>4, <1>5, <1>6, <1>7, <1>8, <1>9,
       <1>10, <1>11, <1>12, <1>13, <1>14, <1>15, <1>16, <1>17, <1>18 DEF MainStep
  <1>30. ASSUME NEW t \in Threads,
              RegisterStep(t) \/ OpenFile(t) \/ CloseFile(t) \/ CloseConnection(t)
        PROVE  TypeOK'
    BY <1>30, <1>19, <1>20, <1>21, <1>22
  <1>31. ASSUME NEW w \in Workers, Signal(w) \/ HandlerStep(w) PROVE TypeOK'
    BY <1>31, <1>23, <1>24, <1>25 DEF HandlerStep
  <1> QED
    BY <1>28, <1>29, <1>30, <1>31, <1>26, <1>27 DEF Next

\* Every behaviour of the server is type correct.
THEOREM ServerTypeCorrect == Spec => []TypeOK
  <1>1. RegInv => RegTypeOK
    BY DEF RegInv
  <1> QED
    BY <1>1, TypesInit, TypesNext, ServerRegisterInvariant, PTL DEF Spec

-----------------------------------------------------------------------------
(***************************************************************************)
(* Who owns a descriptor.  Until a signal arrives, or a thread cannot be   *)
(* created, no descriptor is closed but by its owner.  The argument needs  *)
(* what the variables of the main thread say about each other.             *)
(***************************************************************************)
\* Only the handler clears main_loop, and it sets exit_sig_caught first.
UntilTold == ~exit_sig_caught => main_loop /\ \A w \in Workers : handler[w] = "none"

\* The main thread has a connection of its own from accept to cthread_create.
AcceptedKept == argFd # NoFd <=> mainPc = "create"

\* Every family that is served has a socket, and select waits for no other.
Served ==
    /\ addr_set \subseteq IPv
    /\ mainPc \in StartPCs => addr_set = {}
    /\ mainPc \in {"sockets4", "listen", "modules"} \cup LoopPCs /\ "v6" \in IPv
          => listenfd["v6"] # NoFd
    /\ mainPc \in {"listen", "modules"} \cup LoopPCs /\ "v4" \in IPv
          => listenfd["v4"] # NoFd

\* select fails only when a listener was closed.
SelectReason == mainPc = "select_failed" => exit_sig_caught \/ createFailed

MainInv == UntilTold /\ AcceptedKept /\ Served /\ SelectReason

ServerInv == TypeOK /\ MainInv /\ DescriptorsOwned

LEMMA MainInvInit == Init => MainInv
  BY DEF Init, MainInv, UntilTold, AcceptedKept, Served, SelectReason, StartPCs, LoopPCs

LEMMA MainInvNext ==
    ASSUME ServerInv, [Next]_vars
    PROVE  MainInv'
  <1> USE ServerAssumption
      DEF ServerInv, MainInv, UntilTold, AcceptedKept, Served, SelectReason, StartPCs,
          LoopPCs, TypeOK, At, mainVars, workVars, signalVars, kernelVars, Fds, NoFd
  <1>1. ASSUME Configure PROVE MainInv'
    BY <1>1 DEF Configure
  <1>2. ASSUME OpenSocket6 PROVE MainInv'
    BY <1>2, LowestIsFree DEF OpenSocket6, OpenSocket, Families
  <1>3. ASSUME OpenSocket4 PROVE MainInv'
    BY <1>3, LowestIsFree DEF OpenSocket4, OpenSocket, Families
  <1>4. ASSUME Listen PROVE MainInv'
    BY <1>4 DEF Listen
  <1>5. ASSUME InitModules PROVE MainInv'
    BY <1>5 DEF InitModules
  <1>6. ASSUME LoopTest PROVE MainInv'
    BY <1>6 DEF LoopTest
  <1>7. ASSUME SelectCall PROVE MainInv'
    BY <1>7, OwnersDiffer DEF SelectCall, DescriptorsOwned, Listening, Families
  <1>8. ASSUME SelectReturns PROVE MainInv'
    BY <1>8 DEF SelectReturns, LetGo
  <1>9. ASSUME SelectFailed PROVE MainInv'
    BY <1>9 DEF SelectFailed
  <1>10. ASSUME AcceptCall PROVE MainInv'
    BY <1>10, LowestIsFree DEF AcceptCall, acceptFrame, TakeConnection
  <1>11. ASSUME AcceptReturns PROVE MainInv'
    BY <1>11, LowestIsFree DEF AcceptReturns, acceptFrame, TakeConnection
  <1>12. ASSUME AcceptFailed PROVE MainInv'
    BY <1>12 DEF AcceptFailed
  <1>13. ASSUME NEW t \in Threads, StartThread(t) PROVE MainInv'
    BY <1>13 DEF StartThread
  <1>14. ASSUME CreateFails PROVE MainInv'
    BY <1>14 DEF CreateFails
  <1>15. ASSUME Deinitialize PROVE MainInv'
    BY <1>15 DEF Deinitialize
  <1>16. ASSUME FreeThreads PROVE MainInv'
    BY <1>16 DEF FreeThreads
  <1>17. ASSUME NEW m \in DOMAIN FreedBefore, FreeModule(m) PROVE MainInv'
    BY <1>17 DEF FreeModule
  <1>18. ASSUME Exit PROVE MainInv'
    BY <1>18 DEF Exit
  <1>19. ASSUME NEW t \in Threads, RegisterStep(t) PROVE MainInv'
    BY <1>19 DEF RegisterStep
  <1>20. ASSUME NEW t \in Threads, OpenFile(t) PROVE MainInv'
    BY <1>20 DEF OpenFile
  <1>21. ASSUME NEW t \in Threads, CloseFile(t) PROVE MainInv'
    BY <1>21 DEF CloseFile
  <1>22. ASSUME NEW t \in Threads, CloseConnection(t) PROVE MainInv'
    BY <1>22 DEF CloseConnection
  <1>23. ASSUME NEW w \in Workers, Signal(w) PROVE MainInv'
    BY <1>23 DEF Signal, LetGo
  <1>24. ASSUME NEW w \in Workers, HandlerClose4(w) PROVE MainInv'
    BY <1>24 DEF HandlerClose4, HandlerClose
  <1>25. ASSUME NEW w \in Workers, HandlerClose6(w) PROVE MainInv'
    BY <1>25 DEF HandlerClose6, HandlerClose
  <1>26. ASSUME NEW f \in Families, Arrive(f) PROVE MainInv'
    BY <1>26 DEF Arrive
  <1>27. ASSUME NEW f \in Families, Reset(f) PROVE MainInv'
    BY <1>27 DEF Reset
  <1>28. CASE UNCHANGED vars
    BY <1>28 DEF vars
  <1> HIDE ServerAssumption
      DEF ServerInv, MainInv, UntilTold, AcceptedKept, Served, SelectReason, StartPCs,
          LoopPCs, TypeOK, At, mainVars, workVars, signalVars, kernelVars, Fds, NoFd
  <1>29. ASSUME MainStep PROVE MainInv'
    BY <1>29, <1>1, <1>2, <1>3, <1>4, <1>5, <1>6, <1>7, <1>8, <1>9,
       <1>10, <1>11, <1>12, <1>13, <1>14, <1>15, <1>16, <1>17, <1>18 DEF MainStep
  <1>30. ASSUME NEW t \in Threads,
              RegisterStep(t) \/ OpenFile(t) \/ CloseFile(t) \/ CloseConnection(t)
        PROVE  MainInv'
    BY <1>30, <1>19, <1>20, <1>21, <1>22
  <1>31. ASSUME NEW w \in Workers, Signal(w) \/ HandlerStep(w) PROVE MainInv'
    BY <1>31, <1>23, <1>24, <1>25 DEF HandlerStep
  <1> QED
    BY <1>28, <1>29, <1>30, <1>31, <1>26, <1>27 DEF Next

LEMMA OwnedInit == Init => DescriptorsOwned
  BY OwnersDiffer, ServerAssumption DEF Init, DescriptorsOwned, Fds, NoFd

\* A descriptor that was free changes nobody else's.
LEMMA GivenOut ==
    ASSUME TypeOK, NEW d \in Fds, NEW o \in Owners, fdOwner[d] = Free,
           fdOwner' = [fdOwner EXCEPT ![d] = o]
    PROVE  /\ OwnerOf(d)' = o
           /\ \A fd : OwnerOf(fd) # Free => OwnerOf(fd)' = OwnerOf(fd)
           /\ \A fd \in Fds : fd # d => fdOwner'[fd] = fdOwner[fd]
  BY DEF OwnerOf, TypeOK

\* A connection that is accepted is the main thread's.
LEMMA TakenOwned ==
    ASSUME ServerInv, TakeConnection, mainPc # "create", UNCHANGED acceptFrame
    PROVE  DescriptorsOwned'
  <1> USE DEF DescriptorsOwned, ServerInv, workVars
  <1>1. CASE UNCHANGED <<argFd, fdOwner>>
    BY <1>1 DEF acceptFrame, OwnerOf, Listening
  <1>2. CASE /\ FreeFds # {} /\ argFd' = Lowest(FreeFds)
             /\ fdOwner' = [fdOwner EXCEPT ![Lowest(FreeFds)] = Accepted]
    <2>1. PICK d \in Fds : d = Lowest(FreeFds) /\ fdOwner[d] = Free
      BY <1>2, LowestIsFree
    <2>2. fdOwner' = [fdOwner EXCEPT ![d] = Accepted] /\ argFd' = d
      BY <1>2, <2>1
    <2>3. /\ OwnerOf(d)' = Accepted
          /\ \A fd : OwnerOf(fd) # Free => OwnerOf(fd)' = OwnerOf(fd)
          /\ \A fd \in Fds : fd # d => fdOwner'[fd] = fdOwner[fd]
      BY <2>1, <2>2, GivenOut, OwnersTyped
    <2>4. UNCHANGED <<work, connFd, fileFd, listenfd, exit_sig_caught, createFailed, IPv>>
      BY DEF acceptFrame
    <2>5. argFd = NoFd /\ NoFd \notin Fds
      BY ServerAssumption DEF MainInv, AcceptedKept, NoFd, Fds
    <2> SUFFICES ASSUME ~exit_sig_caught, ~createFailed
                 PROVE  DescriptorsOwned'
      BY <2>4
    <2>6. \A t \in Threads : /\ work'[t] # "closed" => OwnerOf(connFd[t])' = Conn(t)
                             /\ work'[t] = "file" => OwnerOf(fileFd[t])' = File(t)
      BY <2>3, <2>4, OwnersDiffer DEF OwnerOf
    <2>7. \A fd \in Fds : fdOwner'[fd] = Accepted <=> fd = argFd'
      BY <2>1, <2>2, <2>3, <2>5 DEF OwnerOf
    <2>8. \A f \in IPv' : listenfd'[f] # NoFd => Listening(f)'
      BY <2>3, <2>4, OwnersDiffer DEF Listening, OwnerOf, TypeOK
    <2> QED
      BY <2>6, <2>7, <2>8
  <1> QED
    BY <1>1, <1>2 DEF TakeConnection

\* A new socket is a listener.
LEMMA SocketOwned ==
    ASSUME ServerInv, NEW f \in Families, NEW from, NEW to, OpenSocket(f, from, to)
    PROVE  DescriptorsOwned'
  <1> USE DEF DescriptorsOwned, ServerInv, workVars
  <1>1. CASE IPv' = IPv \ {f} /\ UNCHANGED <<listenfd, fdOwner>>
    BY <1>1 DEF OpenSocket, OwnerOf, Listening
  <1>2. CASE /\ f \in IPv /\ FreeFds # {}
             /\ listenfd' = [listenfd EXCEPT ![f] = Lowest(FreeFds)]
             /\ fdOwner' = [fdOwner EXCEPT ![Lowest(FreeFds)] = Listener(f)]
             /\ UNCHANGED IPv
    <2>1. PICK d \in Fds : d = Lowest(FreeFds) /\ fdOwner[d] = Free
      BY <1>2, LowestIsFree
    <2>2. /\ listenfd' = [listenfd EXCEPT ![f] = d]
          /\ fdOwner' = [fdOwner EXCEPT ![d] = Listener(f)]
      BY <1>2, <2>1
    <2>3. /\ OwnerOf(d)' = Listener(f)
          /\ \A fd : OwnerOf(fd) # Free => OwnerOf(fd)' = OwnerOf(fd)
          /\ \A fd \in Fds : fd # d => fdOwner'[fd] = fdOwner[fd]
      BY <2>1, <2>2, GivenOut, OwnersTyped
    <2>4. UNCHANGED <<work, connFd, fileFd, argFd, exit_sig_caught, createFailed, IPv>>
      BY <1>2 DEF OpenSocket
    <2> SUFFICES ASSUME ~exit_sig_caught, ~createFailed
                 PROVE  DescriptorsOwned'
      BY <2>4
    <2>6. \A t \in Threads : /\ work'[t] # "closed" => OwnerOf(connFd[t])' = Conn(t)
                             /\ work'[t] = "file" => OwnerOf(fileFd[t])' = File(t)
      BY <2>3, <2>4, OwnersDiffer DEF OwnerOf
    <2>7. \A fd \in Fds : fdOwner'[fd] = Accepted <=> fd = argFd'
      BY <2>1, <2>2, <2>3, <2>4, OwnersDiffer DEF OwnerOf
    <2>8. \A g \in IPv' : listenfd'[g] # NoFd => Listening(g)'
      <3> SUFFICES ASSUME NEW g \in IPv, listenfd'[g] # NoFd PROVE Listening(g)'
        BY <2>4
      <3>1. CASE g = f
        BY <3>1, <2>2, <2>3 DEF Listening, OwnerOf, TypeOK
      <3>2. CASE g # f
        <4>1. listenfd'[g] = listenfd[g] /\ Listening(g) /\ g \in Families
          BY <3>2, <2>2 DEF TypeOK
        <4> QED
          BY <4>1, <2>3, OwnersDiffer DEF Listening, OwnerOf
      <3> QED
        BY <3>1, <3>2
    <2> QED
      BY <2>6, <2>7, <2>8
  <1> QED
    BY <1>1, <1>2 DEF OpenSocket

\* The connection becomes the web thread's.
LEMMA StartOwned ==
    ASSUME ServerInv, NEW t \in Threads, StartThread(t)
    PROVE  DescriptorsOwned'
  <1> USE DEF ServerInv, DescriptorsOwned
  <1>1. /\ work' = [work EXCEPT ![t] = "request"]
        /\ connFd' = [connFd EXCEPT ![t] = argFd]
        /\ argFd' = NoFd
        /\ UNCHANGED <<fileFd, listenfd, exit_sig_caught, createFailed, IPv>>
    BY DEF StartThread
  <1> SUFFICES ASSUME ~exit_sig_caught, ~createFailed
               PROVE  DescriptorsOwned'
    BY <1>1
  <1>2. argFd \in Fds /\ fdOwner[argFd] = Accepted /\ NoFd \notin Fds
    BY ServerAssumption DEF MainInv, AcceptedKept, StartThread, At, TypeOK, Fds, NoFd
  <1>3. fdOwner' = [fdOwner EXCEPT ![argFd] = Conn(t)]
    BY <1>2 DEF StartThread, OwnerOf
  <1>4. /\ OwnerOf(argFd') # Accepted
        /\ fdOwner'[argFd] = Conn(t)
        /\ \A fd \in Fds : fd # argFd => fdOwner'[fd] = fdOwner[fd]
    BY <1>1, <1>2, <1>3, OwnersDiffer DEF OwnerOf, TypeOK
  <1>5. \A fd : OwnerOf(fd) # Accepted => OwnerOf(fd)' = OwnerOf(fd)
    BY <1>2, <1>4 DEF OwnerOf
  <1>6. ASSUME NEW u \in Threads
        PROVE  /\ work'[u] # "closed" => OwnerOf(connFd[u])' = Conn(u)
               /\ work'[u] = "file" => OwnerOf(fileFd[u])' = File(u)
    <2>1. CASE u = t
      <3>1. work'[u] = "request" /\ connFd'[u] = argFd
        BY <2>1, <1>1 DEF TypeOK
      <3> QED
        BY <3>1, <2>1, <1>2, <1>4 DEF OwnerOf
    <2>2. CASE u # t
      <3>1. work'[u] = work[u] /\ connFd'[u] = connFd[u] /\ fileFd'[u] = fileFd[u]
        BY <2>2, <1>1 DEF TypeOK
      <3> QED
        BY <3>1, <1>5, OwnersDiffer DEF OwnerOf
    <2> QED
      BY <2>1, <2>2
  <1>7. \A fd \in Fds : fdOwner'[fd] = Accepted <=> fd = argFd'
    BY <1>1, <1>2, <1>4, OwnersDiffer
  <1>8. \A f \in IPv' : listenfd'[f] # NoFd => Listening(f)'
    BY <1>1, <1>5, OwnersDiffer DEF Listening, OwnerOf, TypeOK
  <1> QED
    BY <1>6, <1>7, <1>8

LEMMA OwnedNext ==
    ASSUME ServerInv, [Next]_vars
    PROVE  DescriptorsOwned'
  <1> USE OwnersDiffer
      DEF ServerInv, MainInv, UntilTold, AcceptedKept, DescriptorsOwned, OwnerOf,
          Listening, TypeOK, At, mainVars, workVars, signalVars, kernelVars
  <1>1. ASSUME Configure PROVE DescriptorsOwned'
    BY <1>1 DEF Configure
  <1>2. ASSUME OpenSocket6 PROVE DescriptorsOwned'
    BY <1>2, SocketOwned DEF OpenSocket6, Families
  <1>3. ASSUME OpenSocket4 PROVE DescriptorsOwned'
    BY <1>3, SocketOwned DEF OpenSocket4, Families
  <1>4. ASSUME Listen PROVE DescriptorsOwned'
    BY <1>4 DEF Listen
  <1>5. ASSUME InitModules PROVE DescriptorsOwned'
    BY <1>5 DEF InitModules
  <1>6. ASSUME LoopTest PROVE DescriptorsOwned'
    BY <1>6 DEF LoopTest
  <1>7. ASSUME SelectCall PROVE DescriptorsOwned'
    BY <1>7 DEF SelectCall
  <1>8. ASSUME SelectReturns PROVE DescriptorsOwned'
    BY <1>8 DEF SelectReturns, LetGo
  <1>9. ASSUME SelectFailed PROVE DescriptorsOwned'
    BY <1>9 DEF SelectFailed
  <1>10. ASSUME AcceptCall PROVE DescriptorsOwned'
    <2>1. CASE TakeConnection
      BY <1>10, <2>1, TakenOwned DEF AcceptCall
    <2>2. CASE UNCHANGED <<argFd, fdOwner>>
      BY <1>10, <2>2 DEF AcceptCall, acceptFrame
    <2> QED
      BY <1>10, <2>1, <2>2 DEF AcceptCall
  <1>11. ASSUME AcceptReturns PROVE DescriptorsOwned'
    BY <1>11, TakenOwned DEF AcceptReturns
  <1>12. ASSUME AcceptFailed PROVE DescriptorsOwned'
    BY <1>12 DEF AcceptFailed
  <1>13. ASSUME NEW t \in Threads, StartThread(t) PROVE DescriptorsOwned'
    BY <1>13, StartOwned
  <1>14. ASSUME CreateFails PROVE DescriptorsOwned'
    BY <1>14 DEF CreateFails
  <1>15. ASSUME Deinitialize PROVE DescriptorsOwned'
    BY <1>15 DEF Deinitialize
  <1>16. ASSUME FreeThreads PROVE DescriptorsOwned'
    BY <1>16 DEF FreeThreads
  <1>17. ASSUME NEW m \in DOMAIN FreedBefore, FreeModule(m) PROVE DescriptorsOwned'
    BY <1>17 DEF FreeModule
  <1>18. ASSUME Exit PROVE DescriptorsOwned'
    BY <1>18 DEF Exit
  <1>19. ASSUME NEW t \in Threads, RegisterStep(t) PROVE DescriptorsOwned'
    BY <1>19 DEF RegisterStep
  <1>20. ASSUME NEW t \in Threads, OpenFile(t) PROVE DescriptorsOwned'
    BY <1>20, LowestIsFree DEF OpenFile
  <1>21. ASSUME NEW t \in Threads, CloseFile(t) PROVE DescriptorsOwned'
    BY <1>21 DEF CloseFile, Close
  <1>22. ASSUME NEW t \in Threads, CloseConnection(t) PROVE DescriptorsOwned'
    BY <1>22 DEF CloseConnection, Close
  <1>23. ASSUME NEW w \in Workers, Signal(w) PROVE DescriptorsOwned'
    BY <1>23 DEF Signal, LetGo
  <1>24. ASSUME NEW w \in Workers, HandlerClose4(w) PROVE DescriptorsOwned'
    BY <1>24 DEF HandlerClose4, HandlerClose
  <1>25. ASSUME NEW w \in Workers, HandlerClose6(w) PROVE DescriptorsOwned'
    BY <1>25 DEF HandlerClose6, HandlerClose
  <1>26. ASSUME NEW f \in Families, Arrive(f) PROVE DescriptorsOwned'
    BY <1>26 DEF Arrive
  <1>27. ASSUME NEW f \in Families, Reset(f) PROVE DescriptorsOwned'
    BY <1>27 DEF Reset
  <1>28. CASE UNCHANGED vars
    BY <1>28 DEF vars
  <1> HIDE OwnersDiffer
      DEF ServerInv, MainInv, UntilTold, AcceptedKept, DescriptorsOwned, OwnerOf,
          Listening, TypeOK, At, mainVars, workVars, signalVars, kernelVars
  <1>29. ASSUME MainStep PROVE DescriptorsOwned'
    BY <1>29, <1>1, <1>2, <1>3, <1>4, <1>5, <1>6, <1>7, <1>8, <1>9,
       <1>10, <1>11, <1>12, <1>13, <1>14, <1>15, <1>16, <1>17, <1>18 DEF MainStep
  <1>30. ASSUME NEW t \in Threads,
              RegisterStep(t) \/ OpenFile(t) \/ CloseFile(t) \/ CloseConnection(t)
        PROVE  DescriptorsOwned'
    BY <1>30, <1>19, <1>20, <1>21, <1>22
  <1>31. ASSUME NEW w \in Workers, Signal(w) \/ HandlerStep(w) PROVE DescriptorsOwned'
    BY <1>31, <1>23, <1>24, <1>25 DEF HandlerStep
  <1> QED
    BY <1>28, <1>29, <1>30, <1>31, <1>26, <1>27 DEF Next

\* The descriptors and the main thread are as ServerInv says in every reachable
\* state, for every number of threads, descriptors and signals.
THEOREM ServerInvariant == Spec => []ServerInv
  <1>1. Init => ServerInv
    BY TypesInit, MainInvInit, OwnedInit DEF ServerInv
  <1>2. ServerInv /\ RegTypeOK' /\ [Next]_vars => ServerInv'
    BY TypesNext, MainInvNext, OwnedNext DEF ServerInv
  <1>3. RegInv => RegTypeOK
    BY DEF RegInv
  <1> QED
    BY <1>1, <1>2, <1>3, ServerRegisterInvariant, PTL DEF Spec

\* Until a signal or a failed cthread_create, the descriptors the threads use
\* are their own, and an accepted connection is not lost.
THEOREM DescriptorsKept == Spec => []DescriptorsOwned
  BY ServerInvariant, PTL DEF ServerInv

\* No error of select or accept ends the main loop.
THEOREM ServerServesOn == Spec => ServesUntilTold
  <1> DEFINE Told == exit_sig_caught \/ createFailed
             Ends == /\ mainPc \in {"select_failed", "accept_failed", "loop"}
                     /\ mainPc' = "deinit"
  <1>1. ServerInv /\ [Next]_vars => (Ends => Told)
    <2> SUFFICES ASSUME ServerInv, [Next]_vars, Ends, ~Told
                 PROVE  FALSE
      OBVIOUS
    <2>1. mainPc # "select_failed" /\ main_loop
      BY DEF ServerInv, MainInv, SelectReason, UntilTold
    <2> QED
      BY <2>1 DEF Next, MainStep, HandlerStep, At, vars, mainVars, Configure,
         OpenSocket6, OpenSocket4, OpenSocket, Listen, InitModules, LoopTest,
         SelectCall, SelectReturns, SelectFailed, AcceptCall, AcceptReturns,
         AcceptFailed, TakeConnection, StartThread, CreateFails, Deinitialize,
         FreeThreads, FreeModule, Exit, RegisterStep, OpenFile, CloseFile,
         CloseConnection, Signal, HandlerClose4, HandlerClose6, HandlerClose,
         Arrive, Reset
  <1> QED
    BY <1>1, ServerInvariant, PTL DEF Spec, ServesUntilTold
=============================================================================
