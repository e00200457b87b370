---------------------------- MODULE RWLockProofs ----------------------------
(***************************************************************************)
(* Proofs about RWLock for every finite set of threads, every number of    *)
(* read locks and any number of interrupted waits.                         *)
(***************************************************************************)
EXTENDS RWLock, FiniteSetTheorems, TLAPS

(***************************************************************************)
(* Counting claims.  The claimed tokens are a set of pairs, so adding a    *)
(* token to one thread's claim adds one element to the set.                *)
(***************************************************************************)
Cells == Threads \X (1..MaxReaders)

ClaimsOf(f) == { c \in Cells : c[2] <= f[c[1]] }

LEMMA ClaimsFinite ==
    ASSUME NEW f
    PROVE  IsFiniteSet(ClaimsOf(f)) /\ Cardinality(ClaimsOf(f)) \in Nat
  <1>1. IsFiniteSet(1..MaxReaders)
    BY FS_Interval, RWLockAssumption
  <1>2. IsFiniteSet(Cells)
    BY <1>1, FS_Product, RWLockAssumption DEF Cells
  <1>3. IsFiniteSet(ClaimsOf(f))
    BY <1>2, FS_Subset DEF ClaimsOf
  <1> QED
    BY <1>3, FS_CardinalityType

\* One more token on one thread's claim is one more claimed token.
LEMMA OneMoreClaim ==
    ASSUME NEW f \in [Threads -> 0..MaxReaders],
           NEW g \in [Threads -> 0..MaxReaders],
           NEW t \in Threads,
           g[t] = f[t] + 1,
           \A u \in Threads \ {t} : g[u] = f[u]
    PROVE  Cardinality(ClaimsOf(g)) = Cardinality(ClaimsOf(f)) + 1
  <1> DEFINE new == <<t, g[t]>>
  <1>1. new \in Cells /\ new \notin ClaimsOf(f)
    BY RWLockAssumption DEF Cells, ClaimsOf
  <1>2. ClaimsOf(g) = ClaimsOf(f) \cup {new}
    <2>1. ASSUME NEW c \in Cells
          PROVE  c[2] <= g[c[1]] <=> c[2] <= f[c[1]] \/ c = new
      <3>1. c[1] \in Threads /\ c[2] \in 1..MaxReaders /\ c = <<c[1], c[2]>>
        BY DEF Cells
      <3>2. CASE c[1] = t
        BY <3>1, <3>2, RWLockAssumption
      <3>3. CASE c[1] # t
        BY <3>1, <3>3
      <3> QED
        BY <3>2, <3>3
    <2> QED
      BY <2>1, <1>1 DEF ClaimsOf
  <1>3. IsFiniteSet(ClaimsOf(f))
    BY ClaimsFinite
  <1> HIDE DEF new
  <1> QED
    BY <1>1, <1>2, <1>3, FS_AddElement

\* What a step of thread t does to the number of claimed tokens depends only
\* on how it changes t's own claim.
LEMMA ClaimsAfterStep ==
    ASSUME TypeOK, TypeOK', NEW t \in Threads,
           \A u \in Threads \ {t} : pc'[u] = pc[u] /\ i'[u] = i[u]
    PROVE  /\ Cardinality(Claims) \in Nat
           /\ Claimed(t)' = Claimed(t)
                => Cardinality(Claims)' = Cardinality(Claims)
           /\ Claimed(t)' = Claimed(t) + 1
                => Cardinality(Claims)' = Cardinality(Claims) + 1
           /\ Claimed(t)' = Claimed(t) - 1
                => Cardinality(Claims)' = Cardinality(Claims) - 1
  <1> DEFINE f == [u \in Threads |-> Claimed(u)]
             g == [u \in Threads |-> Claimed(u)']
  <1>1. f \in [Threads -> 0..MaxReaders]
    BY RWLockAssumption DEF TypeOK, Claimed
  <1>2. g \in [Threads -> 0..MaxReaders]
    BY RWLockAssumption DEF TypeOK, Claimed
  <1>3. \A u \in Threads \ {t} : g[u] = f[u]
    BY DEF Claimed
  <1>4. Claims = ClaimsOf(f) /\ Claims' = ClaimsOf(g)
    BY DEF Claims, ClaimsOf, Cells
  <1>5. f[t] = Claimed(t) /\ g[t] = Claimed(t)' /\ f[t] \in Nat /\ g[t] \in Nat
    BY <1>1, <1>2
  <1> HIDE DEF f, g
  <1>6. Cardinality(Claims) \in Nat /\ Cardinality(Claims') \in Nat
    BY <1>4, ClaimsFinite
  <1>7. Claimed(t)' = Claimed(t) => f = g
    BY <1>1, <1>2, <1>3, <1>5
  <1>8. Claimed(t)' = Claimed(t) + 1
          => Cardinality(ClaimsOf(g)) = Cardinality(ClaimsOf(f)) + 1
    BY <1>1, <1>2, <1>3, <1>5, OneMoreClaim
  <1>9. Claimed(t)' = Claimed(t) - 1
          => Cardinality(ClaimsOf(f)) = Cardinality(ClaimsOf(g)) + 1
    BY <1>1, <1>2, <1>3, <1>5, OneMoreClaim
  <1> QED
    BY <1>4, <1>6, <1>7, <1>8, <1>9

-----------------------------------------------------------------------------
(***************************************************************************)
(* The inductive invariant.  TypeOK and TokensConserved need WriteOwned    *)
(* (only the holder of `write' posts it, so it stays below 2), and all     *)
(* need to know where a loop counter is meaningful: it is 0 outside the    *)
(* loops of the write functions, and positive while tokens are undone.     *)
(***************************************************************************)
LoopPCs == { "wr_wait_readers", "wr_try_readers", "wr_try_undo_write",
             "wr_try_undo_readers", "wr_post_readers" }

LoopCounters ==
    \A t \in Threads : /\ pc[t] \notin LoopPCs => i[t] = 0
                       /\ pc[t] = "wr_try_undo_readers" => i[t] > 0

IndInv == TypeOK /\ LoopCounters /\ WriteOwned /\ TokensConserved

\* A step of one thread leaves the control state of the others alone.
LEMMA OthersUnchanged ==
    ASSUME TypeOK, NEW t \in Threads, Call(t) \/ Step(t) \/ Interrupt(t)
    PROVE  \A u \in Threads \ {t} : pc'[u] = pc[u] /\ i'[u] = i[u]
  <1>1. CASE ReadWaitCall(t)
    BY <1>1 DEF TypeOK, ReadWaitCall, Goto, semVars, signalVars
  <1>2. CASE ReadTryWrite(t)
    BY <1>2 DEF TypeOK, ReadTryWrite, Goto, semVars, signalVars
  <1>3. CASE WriteWaitCall(t)
    BY <1>3 DEF TypeOK, WriteWaitCall, Goto, semVars, signalVars
  <1>4. CASE WriteTryWrite(t)
    BY <1>4 DEF TypeOK, WriteTryWrite, Goto, semVars, signalVars
  <1>5. CASE ReadWaitWrite(t)
    BY <1>5 DEF TypeOK, ReadWaitWrite, Goto, semVars, signalVars
  <1>6. CASE ReadWaitReaders(t)
    BY <1>6 DEF TypeOK, ReadWaitReaders, Goto, semVars, signalVars
  <1>7. CASE ReadPostWrite(t)
    BY <1>7 DEF TypeOK, ReadPostWrite, Goto, semVars, signalVars
  <1>8. CASE ReadTryReaders(t)
    BY <1>8 DEF TypeOK, ReadTryReaders, Goto, semVars, signalVars
  <1>9. CASE ReadTryUndo(t)
    BY <1>9 DEF TypeOK, ReadTryUndo, Goto, semVars, signalVars
  <1>10. CASE ReadPost(t)
    BY <1>10 DEF TypeOK, ReadPost, Goto, semVars, signalVars
  <1>11. CASE WriteWaitWrite(t)
    BY <1>11 DEF TypeOK, WriteWaitWrite, Goto, semVars, signalVars
  <1>12. CASE WriteWaitReaders(t)
    BY <1>12 DEF TypeOK, WriteWaitReaders, Goto, CountToken, semVars,
       signalVars
  <1>13. CASE WriteTryReaders(t)
    BY <1>13 DEF TypeOK, WriteTryReaders, Goto, CountToken, semVars,
       signalVars
  <1>14. CASE WriteTryUndoWrite(t)
    BY <1>14 DEF TypeOK, WriteTryUndoWrite, Goto, semVars, signalVars
  <1>15. CASE WriteTryUndoReaders(t)
    BY <1>15 DEF TypeOK, WriteTryUndoReaders, Goto, semVars, signalVars
  <1>16. CASE WritePostWrite(t)
    BY <1>16 DEF TypeOK, WritePostWrite, Goto, semVars, signalVars
  <1>17. CASE WritePostReaders(t)
    BY <1>17 DEF TypeOK, WritePostReaders, Goto, semVars, signalVars
  <1>18. CASE InterruptReadWaitWrite(t)
    BY <1>18 DEF TypeOK, InterruptReadWaitWrite, Goto, Signal, semVars,
       signalVars
  <1>19. CASE InterruptReadWaitReaders(t)
    BY <1>19 DEF TypeOK, InterruptReadWaitReaders, Goto, Signal, semVars,
       signalVars
  <1>20. CASE InterruptWriteWaitWrite(t)
    BY <1>20 DEF TypeOK, InterruptWriteWaitWrite, Goto, Signal, semVars,
       signalVars
  <1>21. CASE InterruptWriteWaitReaders(t)
    BY <1>21 DEF TypeOK, InterruptWriteWaitReaders, Goto, CountToken, Signal,
       semVars, signalVars
  <1> QED
    BY <1>1, <1>2, <1>3, <1>4, <1>5, <1>6, <1>7, <1>8, <1>9, <1>10, <1>11,
       <1>12, <1>13, <1>14, <1>15, <1>16, <1>17, <1>18, <1>19, <1>20, <1>21
       DEF Call, Step, Interrupt

\* Types and loop counters survive every step.
LEMMA TypesStep ==
    ASSUME IndInv, NEW t \in Threads, Call(t) \/ Step(t) \/ Interrupt(t)
    PROVE  TypeOK' /\ LoopCounters'
  <1> USE RWLockAssumption DEF IndInv, TypeOK, LoopCounters, LoopPCs, PCs
  <1>1. CASE ReadWaitCall(t)
    BY <1>1 DEF ReadWaitCall, Goto, semVars, signalVars
  <1>2. CASE ReadTryWrite(t)
    BY <1>2 DEF ReadTryWrite, Goto, semVars, signalVars
  <1>3. CASE WriteWaitCall(t)
    BY <1>3 DEF WriteWaitCall, Goto, semVars, signalVars
  <1>4. CASE WriteTryWrite(t)
    BY <1>4 DEF WriteTryWrite, Goto, semVars, signalVars
  <1>5. CASE ReadWaitWrite(t)
    BY <1>5 DEF ReadWaitWrite, Goto, semVars, signalVars
  <1>6. CASE ReadWaitReaders(t)
    BY <1>6 DEF ReadWaitReaders, Goto, semVars, signalVars
  <1>7. CASE ReadPostWrite(t)
    BY <1>7 DEF ReadPostWrite, Goto, semVars, signalVars, WriteOwned,
       HoldsWrite
  <1>8. CASE ReadTryReaders(t)
    BY <1>8 DEF ReadTryReaders, Goto, semVars, signalVars
  <1>9. CASE ReadTryUndo(t)
    BY <1>9 DEF ReadTryUndo, Goto, semVars, signalVars, WriteOwned, HoldsWrite
  <1>10. CASE ReadPost(t)
    BY <1>10 DEF ReadPost, Goto, semVars, signalVars
  <1>11. CASE WriteWaitWrite(t)
    BY <1>11 DEF WriteWaitWrite, Goto, semVars, signalVars
  <1>12. CASE WriteWaitReaders(t)
    BY <1>12 DEF WriteWaitReaders, Goto, CountToken, semVars, signalVars
  <1>13. CASE WriteTryReaders(t)
    BY <1>13 DEF WriteTryReaders, Goto, CountToken, semVars, signalVars
  <1>14. CASE WriteTryUndoWrite(t)
    BY <1>14 DEF WriteTryUndoWrite, Goto, semVars, signalVars, WriteOwned,
       HoldsWrite
  <1>15. CASE WriteTryUndoReaders(t)
    BY <1>15 DEF WriteTryUndoReaders, Goto, semVars, signalVars
  <1>16. CASE WritePostWrite(t)
    BY <1>16 DEF WritePostWrite, Goto, semVars, signalVars, WriteOwned,
       HoldsWrite
  <1>17. CASE WritePostReaders(t)
    BY <1>17 DEF WritePostReaders, Goto, semVars, signalVars
  <1>18. CASE InterruptReadWaitWrite(t)
    BY <1>18 DEF InterruptReadWaitWrite, Goto, Signal, semVars, signalVars
  <1>19. CASE InterruptReadWaitReaders(t)
    BY <1>19 DEF InterruptReadWaitReaders, Goto, Signal, semVars, signalVars
  <1>20. CASE InterruptWriteWaitWrite(t)
    BY <1>20 DEF InterruptWriteWaitWrite, Goto, Signal, semVars, signalVars
  <1>21. CASE InterruptWriteWaitReaders(t)
    BY <1>21 DEF InterruptWriteWaitReaders, Goto, CountToken, Signal, semVars,
       signalVars
  <1> QED
    BY <1>1, <1>2, <1>3, <1>4, <1>5, <1>6, <1>7, <1>8, <1>9, <1>10, <1>11,
       <1>12, <1>13, <1>14, <1>15, <1>16, <1>17, <1>18, <1>19, <1>20, <1>21
       DEF Call, Step, Interrupt

\* Semaphore `write' keeps its single owner.
LEMMA OwnerStep ==
    ASSUME IndInv, NEW t \in Threads, Call(t) \/ Step(t) \/ Interrupt(t)
    PROVE  WriteOwned'
  <1> USE DEF IndInv, TypeOK, WriteOwned, HoldsWrite, PCs
  <1>1. CASE ReadWaitCall(t)
    BY <1>1 DEF ReadWaitCall, Goto, semVars, signalVars
  <1>2. CASE ReadTryWrite(t)
    BY <1>2 DEF ReadTryWrite, Goto, semVars, signalVars
  <1>3. CASE WriteWaitCall(t)
    BY <1>3 DEF WriteWaitCall, Goto, semVars, signalVars
  <1>4. CASE WriteTryWrite(t)
    BY <1>4 DEF WriteTryWrite, Goto, semVars, signalVars
  <1>5. CASE ReadWaitWrite(t)
    BY <1>5 DEF ReadWaitWrite, Goto, semVars, signalVars
  <1>6. CASE ReadWaitReaders(t)
    BY <1>6 DEF ReadWaitReaders, Goto, semVars, signalVars
  <1>7. CASE ReadPostWrite(t)
    BY <1>7 DEF ReadPostWrite, Goto, semVars, signalVars
  <1>8. CASE ReadTryReaders(t)
    BY <1>8 DEF ReadTryReaders, Goto, semVars, signalVars
  <1>9. CASE ReadTryUndo(t)
    BY <1>9 DEF ReadTryUndo, Goto, semVars, signalVars
  <1>10. CASE ReadPost(t)
    BY <1>10 DEF ReadPost, Goto, semVars, signalVars
  <1>11. CASE WriteWaitWrite(t)
    BY <1>11 DEF WriteWaitWrite, Goto, semVars, signalVars
  <1>12. CASE WriteWaitReaders(t)
    BY <1>12 DEF WriteWaitReaders, Goto, CountToken, semVars, signalVars
  <1>13. CASE WriteTryReaders(t)
    BY <1>13 DEF WriteTryReaders, Goto, CountToken, semVars, signalVars
  <1>14. CASE WriteTryUndoWrite(t)
    BY <1>14 DEF WriteTryUndoWrite, Goto, semVars, signalVars
  <1>15. CASE WriteTryUndoReaders(t)
    BY <1>15 DEF WriteTryUndoReaders, Goto, semVars, signalVars
  <1>16. CASE WritePostWrite(t)
    BY <1>16 DEF WritePostWrite, Goto, semVars, signalVars
  <1>17. CASE WritePostReaders(t)
    BY <1>17 DEF WritePostReaders, Goto, semVars, signalVars
  <1>18. CASE InterruptReadWaitWrite(t)
    BY <1>18 DEF InterruptReadWaitWrite, Goto, Signal, semVars, signalVars
  <1>19. CASE InterruptReadWaitReaders(t)
    BY <1>19 DEF InterruptReadWaitReaders, Goto, Signal, semVars, signalVars
  <1>20. CASE InterruptWriteWaitWrite(t)
    BY <1>20 DEF InterruptWriteWaitWrite, Goto, Signal, semVars, signalVars
  <1>21. CASE InterruptWriteWaitReaders(t)
    BY <1>21 DEF InterruptWriteWaitReaders, Goto, CountToken, Signal, semVars,
       signalVars
  <1> QED
    BY <1>1, <1>2, <1>3, <1>4, <1>5, <1>6, <1>7, <1>8, <1>9, <1>10, <1>11,
       <1>12, <1>13, <1>14, <1>15, <1>16, <1>17, <1>18, <1>19, <1>20, <1>21
       DEF Call, Step, Interrupt

\* The tokens are conserved: what a step takes from or gives to `readers', it
\* adds to or takes from the claim of its thread.
LEMMA TokensStep ==
    ASSUME IndInv, NEW t \in Threads, Call(t) \/ Step(t) \/ Interrupt(t)
    PROVE  TokensConserved'
  <1>a. /\ TypeOK /\ TypeOK' /\ LoopCounters /\ LoopCounters'
        /\ \A u \in Threads \ {t} : pc'[u] = pc[u] /\ i'[u] = i[u]
    BY TypesStep, OthersUnchanged DEF IndInv
  <1>b. /\ Cardinality(Claims) \in Nat
        /\ Claimed(t)' = Claimed(t)
             => Cardinality(Claims)' = Cardinality(Claims)
        /\ Claimed(t)' = Claimed(t) + 1
             => Cardinality(Claims)' = Cardinality(Claims) + 1
        /\ Claimed(t)' = Claimed(t) - 1
             => Cardinality(Claims)' = Cardinality(Claims) - 1
    BY <1>a, ClaimsAfterStep
  <1>c. readers + Cardinality(Claims) = MaxReaders + phantom
    BY DEF IndInv, TokensConserved
  <1> USE RWLockAssumption DEF TypeOK, LoopCounters, LoopPCs, TokensConserved
  <1>1. CASE ReadWaitCall(t)
    <2>1. Claimed(t)' = Claimed(t)
      BY <1>a, <1>1 DEF Claimed, ReadWaitCall, Goto, semVars, signalVars
    <2> QED
      BY <1>a, <1>b, <1>c, <1>1, <2>1 DEF ReadWaitCall, semVars, signalVars
  <1>2. CASE ReadTryWrite(t)
    <2>1. Claimed(t)' = Claimed(t)
      BY <1>a, <1>2 DEF Claimed, ReadTryWrite, Goto, semVars, signalVars
    <2> QED
      BY <1>a, <1>b, <1>c, <1>2, <2>1 DEF ReadTryWrite, semVars, signalVars
  <1>3. CASE WriteWaitCall(t)
    <2>1. Claimed(t)' = Claimed(t)
      BY <1>a, <1>3 DEF Claimed, WriteWaitCall, Goto, semVars, signalVars
    <2> QED
      BY <1>a, <1>b, <1>c, <1>3, <2>1 DEF WriteWaitCall, semVars, signalVars
  <1>4. CASE WriteTryWrite(t)
    <2>1. Claimed(t)' = Claimed(t)
      BY <1>a, <1>4 DEF Claimed, WriteTryWrite, Goto, semVars, signalVars
    <2> QED
      BY <1>a, <1>b, <1>c, <1>4, <2>1 DEF WriteTryWrite, semVars, signalVars
  <1>5. CASE ReadWaitWrite(t)
    <2>1. Claimed(t)' = Claimed(t)
      BY <1>a, <1>5 DEF Claimed, ReadWaitWrite, Goto, semVars, signalVars
    <2> QED
      BY <1>a, <1>b, <1>c, <1>5, <2>1 DEF ReadWaitWrite, semVars, signalVars
  <1>6. CASE ReadWaitReaders(t)
    <2>1. Claimed(t)' = Claimed(t) + 1
      BY <1>a, <1>6 DEF Claimed, ReadWaitReaders, Goto, semVars, signalVars
    <2> QED
      BY <1>a, <1>b, <1>c, <1>6, <2>1 DEF ReadWaitReaders, semVars, signalVars
  <1>7. CASE ReadPostWrite(t)
    <2>1. Claimed(t)' = Claimed(t)
      BY <1>a, <1>7 DEF Claimed, ReadPostWrite, Goto, semVars, signalVars
    <2> QED
      BY <1>a, <1>b, <1>c, <1>7, <2>1 DEF ReadPostWrite, semVars, signalVars
  <1>8. CASE ReadTryReaders(t)
    <2>1. CASE readers > 0
      <3>1. Claimed(t)' = Claimed(t) + 1
        BY <1>a, <1>8, <2>1 DEF Claimed, ReadTryReaders, Goto, semVars,
           signalVars
      <3> QED
        BY <1>a, <1>b, <1>c, <1>8, <2>1, <3>1 DEF ReadTryReaders, semVars,
           signalVars
    <2>2. CASE readers = 0
      <3>1. Claimed(t)' = Claimed(t)
        BY <1>a, <1>8, <2>2 DEF Claimed, ReadTryReaders, Goto, semVars,
           signalVars
      <3> QED
        BY <1>a, <1>b, <1>c, <1>8, <2>2, <3>1 DEF ReadTryReaders, semVars,
           signalVars
    <2> QED
      BY <1>a, <2>1, <2>2
  <1>9. CASE ReadTryUndo(t)
    <2>1. Claimed(t)' = Claimed(t)
      BY <1>a, <1>9 DEF Claimed, ReadTryUndo, Goto, semVars, signalVars
    <2> QED
      BY <1>a, <1>b, <1>c, <1>9, <2>1 DEF ReadTryUndo, semVars, signalVars
  <1>10. CASE ReadPost(t)
    <2>1. Claimed(t)' = Claimed(t) - 1
      BY <1>a, <1>10 DEF Claimed, ReadPost, Goto, semVars, signalVars
    <2> QED
      BY <1>a, <1>b, <1>c, <1>10, <2>1 DEF ReadPost, semVars, signalVars
  <1>11. CASE WriteWaitWrite(t)
    <2>1. Claimed(t)' = Claimed(t)
      BY <1>a, <1>11 DEF Claimed, WriteWaitWrite, Goto, semVars, signalVars
    <2> QED
      BY <1>a, <1>b, <1>c, <1>11, <2>1 DEF WriteWaitWrite, semVars, signalVars
  <1>12. CASE WriteWaitReaders(t)
    <2>1. Claimed(t)' = Claimed(t) + 1
      BY <1>a, <1>12 DEF Claimed, WriteWaitReaders, Goto, CountToken, semVars,
         signalVars
    <2> QED
      BY <1>a, <1>b, <1>c, <1>12, <2>1 DEF WriteWaitReaders, CountToken,
         semVars, signalVars
  <1>13. CASE WriteTryReaders(t)
    <2>1. CASE readers > 0
      <3>1. Claimed(t)' = Claimed(t) + 1
        BY <1>a, <1>13, <2>1 DEF Claimed, WriteTryReaders, Goto, CountToken,
           semVars, signalVars
      <3> QED
        BY <1>a, <1>b, <1>c, <1>13, <2>1, <3>1 DEF WriteTryReaders,
           CountToken, semVars, signalVars
    <2>2. CASE readers = 0
      <3>1. Claimed(t)' = Claimed(t)
        BY <1>a, <1>13, <2>2 DEF Claimed, WriteTryReaders, Goto, CountToken,
           semVars, signalVars
      <3> QED
        BY <1>a, <1>b, <1>c, <1>13, <2>2, <3>1 DEF WriteTryReaders,
           CountToken, semVars, signalVars
    <2> QED
      BY <1>a, <2>1, <2>2
  <1>14. CASE WriteTryUndoWrite(t)
    <2>1. Claimed(t)' = Claimed(t)
      BY <1>a, <1>14 DEF Claimed, WriteTryUndoWrite, Goto, semVars, signalVars
    <2> QED
      BY <1>a, <1>b, <1>c, <1>14, <2>1 DEF WriteTryUndoWrite, semVars,
         signalVars
  <1>15. CASE WriteTryUndoReaders(t)
    <2>1. Claimed(t)' = Claimed(t) - 1
      BY <1>a, <1>15 DEF Claimed, WriteTryUndoReaders, Goto, semVars,
         signalVars
    <2> QED
      BY <1>a, <1>b, <1>c, <1>15, <2>1 DEF WriteTryUndoReaders, semVars,
         signalVars
  <1>16. CASE WritePostWrite(t)
    <2>1. Claimed(t)' = Claimed(t)
      BY <1>a, <1>16 DEF Claimed, WritePostWrite, Goto, semVars, signalVars
    <2> QED
      BY <1>a, <1>b, <1>c, <1>16, <2>1 DEF WritePostWrite, semVars, signalVars
  <1>17. CASE WritePostReaders(t)
    <2>1. Claimed(t)' = Claimed(t) - 1
      BY <1>a, <1>17 DEF Claimed, WritePostReaders, Goto, semVars, signalVars
    <2> QED
      BY <1>a, <1>b, <1>c, <1>17, <2>1 DEF WritePostReaders, semVars,
         signalVars
  <1>18. CASE InterruptReadWaitWrite(t)
    <2>1. Claimed(t)' = Claimed(t)
      BY <1>a, <1>18 DEF Claimed, InterruptReadWaitWrite, Goto, Signal,
         semVars, signalVars
    <2> QED
      BY <1>a, <1>b, <1>c, <1>18, <2>1 DEF InterruptReadWaitWrite, Signal,
         semVars, signalVars
  <1>19. CASE InterruptReadWaitReaders(t)
    <2>1. Claimed(t)' = Claimed(t)
      BY <1>a, <1>19 DEF Claimed, InterruptReadWaitReaders, Goto, Signal,
         semVars, signalVars
    <2> QED
      BY <1>a, <1>b, <1>c, <1>19, <2>1 DEF InterruptReadWaitReaders, Signal,
         semVars, signalVars
  <1>20. CASE InterruptWriteWaitWrite(t)
    <2>1. Claimed(t)' = Claimed(t)
      BY <1>a, <1>20 DEF Claimed, InterruptWriteWaitWrite, Goto, Signal,
         semVars, signalVars
    <2> QED
      BY <1>a, <1>b, <1>c, <1>20, <2>1 DEF InterruptWriteWaitWrite, Signal,
         semVars, signalVars
  <1>21. CASE InterruptWriteWaitReaders(t)
    <2>1. Claimed(t)' = Claimed(t) + 1
      BY <1>a, <1>21 DEF Claimed, InterruptWriteWaitReaders, Goto, CountToken,
         Signal, semVars, signalVars
    <2> QED
      BY <1>a, <1>b, <1>c, <1>21, <2>1 DEF InterruptWriteWaitReaders,
         CountToken, Signal, semVars, signalVars
  <1> QED
    BY <1>1, <1>2, <1>3, <1>4, <1>5, <1>6, <1>7, <1>8, <1>9, <1>10, <1>11,
       <1>12, <1>13, <1>14, <1>15, <1>16, <1>17, <1>18, <1>19, <1>20, <1>21
       DEF Call, Step, Interrupt


LEMMA IndInvInit == Init => IndInv
  <1> SUFFICES ASSUME Init PROVE IndInv
    OBVIOUS
  <1>1. 0 \in 0..MaxReaders - 1 /\ MaxReaders \in Nat /\ 1 \in 0..1
    BY RWLockAssumption
  <1>2. TypeOK
    BY <1>1 DEF Init, TypeOK, PCs
  <1>3. LoopCounters
    BY DEF Init, LoopCounters, LoopPCs
  <1>4. WriteOwned
    BY DEF Init, WriteOwned, HoldsWrite
  <1>5. Claims = {}
    BY RWLockAssumption DEF Init, Claims, Claimed
  <1>6. TokensConserved
    BY <1>5, FS_EmptySet, RWLockAssumption DEF Init, TokensConserved
  <1> QED
    BY <1>2, <1>3, <1>4, <1>6 DEF IndInv

LEMMA IndInvNext == IndInv /\ [Next]_vars => IndInv'
  <1> SUFFICES ASSUME IndInv, [Next]_vars PROVE IndInv'
    OBVIOUS
  <1>1. CASE Next
    <2>1. PICK t \in Threads : Call(t) \/ Step(t) \/ Interrupt(t)
      BY <1>1 DEF Next
    <2> QED
      BY <2>1, TypesStep, OwnerStep, TokensStep DEF IndInv
  <1>2. CASE UNCHANGED vars
    BY <1>2 DEF vars, IndInv, TypeOK, LoopCounters, WriteOwned, HoldsWrite,
       TokensConserved, Claims, Claimed
  <1> QED
    BY <1>1, <1>2

THEOREM Invariant == Spec => []IndInv
  BY IndInvInit, IndInvNext, PTL DEF Spec

\* The semaphores and the control state keep their types; in particular
\* `write' never counts above 1, whatever interleaving posts it.
THEOREM TypeCorrect == Spec => []TypeOK
  BY Invariant, PTL DEF IndInv

\* No interleaving of the six functions loses or makes a token.
THEOREM TokenConservation == Spec => []TokensConserved
  BY Invariant, PTL DEF IndInv

\* Semaphore `write' has exactly one owner while it is taken.
THEOREM WriteOwnership == Spec => []WriteOwned
  BY Invariant, PTL DEF IndInv

-----------------------------------------------------------------------------
(***************************************************************************)
(* Mutual exclusion follows from counting: a writer claims every token     *)
(* there is, so one more claim would make more tokens than max_readers.    *)
(***************************************************************************)
LEMMA ClaimedCells ==
    ASSUME TypeOK
    PROVE  /\ Claims \in SUBSET Cells /\ IsFiniteSet(Claims)
           /\ IsFiniteSet(Cells) /\ Cardinality(Claims) \in Nat
  <1>1. IsFiniteSet(Cells)
    <2>1. IsFiniteSet(1..MaxReaders)
      BY FS_Interval, RWLockAssumption
    <2> QED
      BY <2>1, FS_Product, RWLockAssumption DEF Cells
  <1>2. Claims \in SUBSET Cells
    BY DEF Claims, Cells
  <1> QED
    BY <1>1, <1>2, FS_Subset, FS_CardinalityType

\* While a thread writes and no write_wait was cut short, no other thread
\* claims a token.
LEMMA WriterClaimsAll ==
    ASSUME IndInv, phantom = 0, NEW w \in Threads, pc[w] = "writing",
           NEW u \in Threads, u # w
    PROVE  Claimed(u) <= 0
  <1> SUFFICES ASSUME Claimed(u) > 0 PROVE FALSE
    BY RWLockAssumption DEF IndInv, TypeOK, Claimed
  <1> DEFINE row == {w} \X (1..MaxReaders)
             more == row \cup {<<u, 1>>}
  <1>1. IsFiniteSet({w}) /\ Cardinality({w}) = 1
    BY FS_Singleton
  <1>2. /\ IsFiniteSet(1..MaxReaders)
        /\ Cardinality(1..MaxReaders) = MaxReaders
    BY FS_Interval, RWLockAssumption
  <1>3. IsFiniteSet(row) /\ Cardinality(row) = MaxReaders
    <2>1. /\ IsFiniteSet(row)
          /\ Cardinality(row) = Cardinality({w}) * Cardinality(1..MaxReaders)
      BY <1>1, <1>2, FS_Product
    <2> QED
      BY <1>1, <1>2, <2>1, RWLockAssumption
  <1>4. <<u, 1>> \notin row
    OBVIOUS
  <1>5. Cardinality(more) = MaxReaders + 1
    BY <1>3, <1>4, FS_AddElement
  <1>6. more \in SUBSET Claims
    BY RWLockAssumption DEF Claims, Claimed, IndInv, TypeOK
  <1>7. Cardinality(more) <= Cardinality(Claims)
    BY <1>6, ClaimedCells, FS_Subset DEF IndInv
  <1> QED
    BY <1>5, <1>7, ClaimedCells, RWLockAssumption
       DEF IndInv, TypeOK, TokensConserved

\* At most max_readers threads hold the lock for reading.
LEMMA ReadersBounded ==
    ASSUME IndInv, phantom = 0
    PROVE  /\ IsFiniteSet(ReadHolders)
           /\ Cardinality(ReadHolders) + readers <= MaxReaders
  <1>1. IsFiniteSet(ReadHolders)
    BY FS_Subset, RWLockAssumption DEF ReadHolders
  <1> DEFINE f == [r \in ReadHolders |-> <<r, 1>>]
  <1>2. f \in Injection(ReadHolders, Claims)
    BY RWLockAssumption
       DEF Injection, IsInjective, ReadHolders, HoldsRead, Claims, Claimed
  <1>3. Cardinality(ReadHolders) <= Cardinality(Claims)
    BY <1>1, <1>2, ClaimedCells, FS_Injection DEF IndInv
  <1> QED
    BY <1>1, <1>3, FS_CardinalityType, ClaimedCells, RWLockAssumption
       DEF IndInv, TypeOK, TokensConserved

LEMMA IndInvExclusion == IndInv => Exclusion
  <1> SUFFICES ASSUME IndInv PROVE Exclusion
    OBVIOUS
  <1>1. ASSUME NEW t \in Threads, NEW u \in Threads,
               pc[t] = "writing", pc[u] = "writing"
        PROVE  t = u
    BY <1>1 DEF IndInv, WriteOwned, HoldsWrite
  <1>2. ASSUME phantom = 0, NEW t \in Threads, NEW u \in Threads,
               pc[t] = "writing", HoldsRead(u)
        PROVE  FALSE
    <2>1. u # t /\ Claimed(u) = 1
      BY <1>2 DEF HoldsRead, Claimed
    <2> QED
      BY <1>2, <2>1, WriterClaimsAll
  <1>3. phantom = 0 => Cardinality(ReadHolders) <= MaxReaders
    BY ReadersBounded, FS_CardinalityType, RWLockAssumption DEF IndInv, TypeOK
  <1> QED
    BY <1>1, <1>2, <1>3 DEF Exclusion, ReadHolders

\* The lock excludes: two threads never write at once, and before the first
\* interrupted write_wait nobody reads while a thread writes and at most
\* max_readers threads read.
THEOREM MutualExclusion == Spec => []Exclusion
  BY Invariant, IndInvExclusion, PTL

\* A reader gets the lock only with `write' in its own hand, so a writer that
\* has `write' is not overtaken.
THEOREM WriterNotOvertaken == Spec => NoReaderAdmittedPastWriter
  <1>1. IndInv /\ [Next]_vars =>
          [\A w, r \in Threads :
             pc[w] \in {"wr_wait_readers", "writing"} /\ HoldsRead(r)'
               => HoldsRead(r)]_vars
    <2> SUFFICES ASSUME IndInv, Next,
                        NEW w \in Threads, NEW r \in Threads,
                        pc[w] \in {"wr_wait_readers", "writing"},
                        HoldsRead(r)', ~HoldsRead(r)
                 PROVE  FALSE
      BY DEF vars
    <2>1. PICK t \in Threads : Call(t) \/ Step(t) \/ Interrupt(t)
      BY DEF Next
    <2>2. t = r
      BY <2>1, OthersUnchanged DEF IndInv, HoldsRead
    <2>3. pc[r] \in {"rd_wait_readers", "rd_try_readers"}
      <3>1. Call(r) => FALSE
        BY DEF Call, ReadWaitCall, ReadTryWrite, WriteWaitCall, WriteTryWrite,
           Goto, HoldsRead, IndInv, TypeOK
      <3>2. Interrupt(r) => FALSE
        BY DEF Interrupt, InterruptReadWaitWrite, InterruptReadWaitReaders,
           InterruptWriteWaitWrite, InterruptWriteWaitReaders, CountToken,
           Goto, HoldsRead, IndInv, TypeOK
      <3>3. Step(r)
        BY <2>1, <2>2, <3>1, <3>2
      <3> QED
        BY <3>3 DEF Step, ReadWaitWrite, ReadWaitReaders, ReadPostWrite,
           ReadTryReaders, ReadTryUndo, ReadPost, WriteWaitWrite,
           WriteWaitReaders, WriteTryReaders, WriteTryUndoWrite,
           WriteTryUndoReaders, WritePostWrite, WritePostReaders, CountToken,
           Goto, HoldsRead, IndInv, TypeOK
    <2>4. HoldsWrite(r) /\ HoldsWrite(w)
      BY <2>3 DEF HoldsWrite
    <2> QED
      BY <2>3, <2>4 DEF IndInv, WriteOwned
  <1> QED
    BY <1>1, Invariant, PTL DEF Spec, NoReaderAdmittedPastWriter

-----------------------------------------------------------------------------
(***************************************************************************)
(* The two semaphores implement the abstract lock until a signal           *)
(* interrupts a wait.  A reader acquires when it takes its token, a writer *)
(* when it takes its last one; everything else is invisible to callers.    *)
(***************************************************************************)
LEMMA PhantomsCounted == Spec => [](phantom <= signals)
  <1>1. Init => phantom <= signals
    BY DEF Init
  <1>2. TypeOK /\ phantom <= signals /\ [Next]_vars => (phantom <= signals)'
    <2> SUFFICES ASSUME TypeOK, phantom <= signals, [Next]_vars
                 PROVE  (phantom <= signals)'
      OBVIOUS
    <2>1. CASE UNCHANGED vars
      BY <2>1 DEF vars
    <2>2. ASSUME NEW t \in Threads, Interrupt(t)
          PROVE  (phantom <= signals)'
      BY <2>2 DEF TypeOK, Interrupt, InterruptReadWaitWrite,
         InterruptReadWaitReaders, InterruptWriteWaitWrite,
         InterruptWriteWaitReaders, Signal
    <2>3. ASSUME NEW t \in Threads, Call(t) \/ Step(t)
          PROVE  (phantom <= signals)'
      BY <2>3 DEF Call, Step, ReadWaitCall, ReadTryWrite, WriteWaitCall,
         WriteTryWrite, ReadWaitWrite, ReadWaitReaders, ReadPostWrite,
         ReadTryReaders, ReadTryUndo, ReadPost, WriteWaitWrite,
         WriteWaitReaders, WriteTryReaders, WriteTryUndoWrite,
         WriteTryUndoReaders, WritePostWrite, WritePostReaders, signalVars
    <2> QED
      BY <2>1, <2>2, <2>3 DEF Next
  <1> QED
    BY <1>1, <1>2, TypeCorrect, PTL DEF Spec

\* A thread that takes a reader token becomes a reader of the abstract lock.
LEMMA TokenIsAcquireRead ==
    ASSUME IndInv, phantom = 0, NEW t \in Threads,
           pc[t] \in {"rd_wait_readers", "rd_try_readers"}, readers > 0,
           pc' = [pc EXCEPT ![t] = "rd_post_write"]
    PROVE  Abstract!AcquireRead(t)
  <1>1. WriteHolders = {} /\ WriteHolders' = {}
    BY DEF IndInv, TypeOK, WriteOwned, HoldsWrite, WriteHolders
  <1>2. t \notin ReadHolders /\ ReadHolders' = ReadHolders \cup {t}
    BY DEF IndInv, TypeOK, ReadHolders, HoldsRead
  <1>3. Cardinality(ReadHolders') = Cardinality(ReadHolders) + 1
    BY <1>2, ReadersBounded, FS_AddElement
  <1>4. ReadLocks > 0 /\ ReadLocks' = ReadLocks - 1
    BY <1>3, ReadersBounded, FS_CardinalityType, RWLockAssumption
       DEF IndInv, TypeOK, ReadLocks
  <1> QED
    BY <1>1, <1>2, <1>4 DEF Abstract!AcquireRead

\* The view of the callers: what a step hides from them.
Hidden == UNCHANGED <<ReadHolders, WriteHolders, ReadLocks>>

LEMMA HiddenStep ==
    ASSUME UNCHANGED <<ReadHolders, WriteHolders>>
    PROVE  Hidden
  BY DEF Hidden, ReadLocks

\* One more iteration of a writer's loop is invisible, or its acquisition.
LEMMA CountTokenIsAcquireWrite ==
    ASSUME IndInv, IndInv', phantom' = 0, NEW t \in Threads,
           NEW loop \in {"wr_wait_readers", "wr_try_readers"},
           CountToken(t, loop)
    PROVE  Abstract!AcquireWrite(t) \/ Hidden
  <1>1. pc[t] = loop /\ UNCHANGED ReadHolders
    BY DEF CountToken, Goto, IndInv, TypeOK, ReadHolders, HoldsRead
  <1>2. CASE i[t] + 1 # MaxReaders
    <2>1. UNCHANGED WriteHolders
      BY <1>1, <1>2 DEF CountToken, Goto, IndInv, TypeOK, WriteHolders
    <2> QED
      BY <1>1, <2>1, HiddenStep
  <1>3. CASE i[t] + 1 = MaxReaders
    <2>1. pc' = [pc EXCEPT ![t] = "writing"]
      BY <1>3 DEF CountToken, Goto
    <2>2. WriteHolders = {} /\ WriteHolders' = {t}
      <3>1. HoldsWrite(t) /\ pc[t] # "writing"
        BY <1>1 DEF HoldsWrite
      <3>2. \A u \in Threads : pc[u] # "writing"
        BY <3>1 DEF IndInv, WriteOwned, HoldsWrite
      <3> QED
        BY <2>1, <3>2 DEF IndInv, TypeOK, WriteHolders
    <2>3. Exclusion'
      BY IndInvExclusion, PTL
    <2>4. ReadHolders' = {}
      BY <2>2, <2>3 DEF Exclusion, ReadHolders, WriteHolders
    <2>5. UNCHANGED ReadLocks
      BY <1>1 DEF ReadLocks
    <2> QED
      BY <1>1, <2>2, <2>4, <2>5 DEF Abstract!AcquireWrite
  <1> QED
    BY <1>2, <1>3

LEMMA StepImplements ==
    ASSUME IndInv, IndInv', phantom = 0, phantom' = 0, signals' = 0,
           NEW t \in Threads, Call(t) \/ Step(t) \/ Interrupt(t)
    PROVE  Abstract!AbsNext \/ Hidden
  <1> USE DEF IndInv, TypeOK
  <1>1. CASE Call(t)
    <2>1. UNCHANGED <<ReadHolders, WriteHolders>>
      BY <1>1 DEF Call, ReadWaitCall, ReadTryWrite, WriteWaitCall,
         WriteTryWrite, Goto, ReadHolders, WriteHolders, HoldsRead
    <2> QED
      BY <2>1, HiddenStep
  <1>2. Interrupt(t) => FALSE
    BY DEF Interrupt, InterruptReadWaitWrite, InterruptReadWaitReaders,
       InterruptWriteWaitWrite, InterruptWriteWaitReaders, Signal
  <1>3. CASE ReadWaitReaders(t)
    BY <1>3, TokenIsAcquireRead
       DEF ReadWaitReaders, Goto, Abstract!AbsNext
  <1>4. CASE ReadTryReaders(t)
    <2>1. CASE readers > 0
      BY <1>4, <2>1, TokenIsAcquireRead
         DEF ReadTryReaders, Goto, Abstract!AbsNext
    <2>2. CASE readers = 0
      <3>1. UNCHANGED <<ReadHolders, WriteHolders>>
        BY <1>4, <2>2
           DEF ReadTryReaders, Goto, ReadHolders, WriteHolders, HoldsRead
      <3> QED
        BY <3>1, HiddenStep
    <2> QED
      BY <2>1, <2>2
  <1>5. CASE ReadPost(t)
    <2>1. t \in ReadHolders /\ ReadHolders' = ReadHolders \ {t}
      BY <1>5 DEF ReadPost, Goto, ReadHolders, HoldsRead
    <2>2. UNCHANGED WriteHolders
      BY <1>5 DEF ReadPost, Goto, WriteHolders
    <2>3. Cardinality(ReadHolders') = Cardinality(ReadHolders) - 1
      BY <2>1, ReadersBounded, FS_RemoveElement
    <2>4. ReadLocks' = ReadLocks + 1
      BY <2>3, ReadersBounded, FS_CardinalityType, RWLockAssumption
         DEF ReadLocks
    <2> QED
      BY <2>1, <2>2, <2>4 DEF Abstract!AbsNext, Abstract!ReleaseRead
  <1>6. CASE WriteWaitReaders(t)
    BY <1>6, CountTokenIsAcquireWrite DEF WriteWaitReaders, Abstract!AbsNext
  <1>7. CASE WriteTryReaders(t)
    <2>1. CASE readers > 0
      BY <1>7, <2>1, CountTokenIsAcquireWrite
         DEF WriteTryReaders, Abstract!AbsNext
    <2>2. CASE readers = 0
      <3>1. UNCHANGED <<ReadHolders, WriteHolders>>
        BY <1>7, <2>2
           DEF WriteTryReaders, Goto, ReadHolders, WriteHolders, HoldsRead
      <3> QED
        BY <3>1, HiddenStep
    <2> QED
      BY <2>1, <2>2
  <1>8. CASE WritePostWrite(t)
    <2>1. WriteHolders = {t} /\ WriteHolders' = {}
      <3>1. pc[t] = "writing" /\ HoldsWrite(t)
        BY <1>8 DEF WritePostWrite, Goto, HoldsWrite
      <3>2. \A u \in Threads : pc[u] = "writing" => u = t
        BY <3>1 DEF WriteOwned, HoldsWrite
      <3> QED
        BY <1>8, <3>1, <3>2 DEF WritePostWrite, Goto, WriteHolders
    <2>2. UNCHANGED ReadHolders
      BY <1>8 DEF WritePostWrite, Goto, ReadHolders, HoldsRead
    <2>3. UNCHANGED ReadLocks
      BY <2>2 DEF ReadLocks
    <2> QED
      BY <2>1, <2>2, <2>3 DEF Abstract!AbsNext, Abstract!ReleaseWrite
  <1>9. CASE \/ ReadWaitWrite(t) \/ ReadPostWrite(t) \/ ReadTryUndo(t)
             \/ WriteWaitWrite(t) \/ WriteTryUndoWrite(t)
             \/ WriteTryUndoReaders(t) \/ WritePostReaders(t)
    <2>1. UNCHANGED <<ReadHolders, WriteHolders>>
      BY <1>9 DEF ReadWaitWrite, ReadPostWrite, ReadTryUndo, WriteWaitWrite,
         WriteTryUndoWrite, WriteTryUndoReaders, WritePostReaders, Goto,
         ReadHolders, WriteHolders, HoldsRead
    <2> QED
      BY <2>1, HiddenStep
  <1> QED
    BY <1>1, <1>2, <1>3, <1>4, <1>5, <1>6, <1>7, <1>8, <1>9 DEF Step

\* Only an interrupted wait is counted in `signals', and none is uncounted.
LEMMA SignalsMonotone ==
    ASSUME TypeOK, NEW t \in Threads, Call(t) \/ Step(t) \/ Interrupt(t),
           signals' = 0
    PROVE  signals = 0
  BY DEF Call, Step, Interrupt, ReadWaitCall, ReadTryWrite, WriteWaitCall,
     WriteTryWrite, ReadWaitWrite, ReadWaitReaders, ReadPostWrite,
     ReadTryReaders, ReadTryUndo, ReadPost, WriteWaitWrite, WriteWaitReaders,
     WriteTryReaders, WriteTryUndoWrite, WriteTryUndoReaders, WritePostWrite,
     WritePostReaders, InterruptReadWaitWrite, InterruptReadWaitReaders,
     InterruptWriteWaitWrite, InterruptWriteWaitReaders, Signal, signalVars,
     TypeOK

\* Until a signal interrupts a wait, the semaphores implement the lock of
\* AbstractRWLock: every step is one of its steps, or a stutter.
THEOREM Refinement == Spec => ImplementsAbstract
  <1>1. Init => Abstract!AbsInit
    <2> SUFFICES ASSUME Init PROVE Abstract!AbsInit
      OBVIOUS
    <2>1. ReadHolders = {} /\ WriteHolders = {}
      BY DEF Init, ReadHolders, WriteHolders, HoldsRead
    <2>2. ReadLocks = MaxReaders
      BY <2>1, FS_EmptySet, RWLockAssumption DEF ReadLocks
    <2> QED
      BY <2>1, <2>2 DEF Abstract!AbsInit
  <1>2. IndInv /\ IndInv' /\ phantom <= signals /\ (phantom <= signals)'
            /\ [Next]_vars
          => [signals' = 0 => Abstract!AbsNext]_(Abstract!absVars)
    <2>1. ASSUME IndInv, IndInv', phantom <= signals, (phantom <= signals)',
                 UNCHANGED vars
          PROVE  Hidden
      BY <2>1, HiddenStep DEF vars, ReadHolders, WriteHolders, HoldsRead
    <2>2. ASSUME IndInv, IndInv', phantom <= signals, (phantom <= signals)',
                 Next, signals' = 0
          PROVE  Abstract!AbsNext \/ Hidden
      <3>1. PICK t \in Threads : Call(t) \/ Step(t) \/ Interrupt(t)
        BY <2>2 DEF Next
      <3>2. signals = 0
        BY <2>2, <3>1, SignalsMonotone DEF IndInv
      <3>3. phantom = 0 /\ phantom' = 0
        BY <2>2, <3>2 DEF IndInv, TypeOK
      <3> QED
        BY <2>2, <3>1, <3>3, StepImplements
    <2>3. IndInv /\ IndInv' /\ phantom <= signals /\ (phantom <= signals)'
            /\ [Next]_vars
          => (signals' = 0 => Abstract!AbsNext) \/ Hidden
      BY <2>1, <2>2
    <2> QED
      BY <2>3 DEF Hidden, Abstract!absVars
  <1> QED
    BY <1>1, <1>2, Invariant, PhantomsCounted, PTL
       DEF Spec, ImplementsAbstract
=============================================================================
