-------------------------- MODULE VIPChannelProofs --------------------------
(***************************************************************************)
(* Proofs about the VIP channel, for every finite set of passengers.       *)
(***************************************************************************)
EXTENDS VIPChannel, HelperTheorems

\* A count is zero exactly when nobody is counted.
LEMMA ZeroMeansNobody ==
    ASSUME NEW L
    PROVE  /\ IsFiniteSet(At(L)) /\ Cardinality(At(L)) \in Nat
           /\ Cardinality(At(L)) = 0 <=> At(L) = {}
<1>1. At(L) \in SUBSET Passenger
  BY DEF At, ThreadsAt
<1>2. IsFiniteSet(At(L))
  BY <1>1, VIPChannelAssumption, FS_Subset
<1> QED
  BY <1>2, FS_CardinalityType, FS_EmptySet

\* The counter c, at its next value d, follows a thread that goes from one
\* label to another: it counts the threads at the labels of L.
Follows(c, d, L, from, to) ==
    \/ from \notin L /\ to \in L    /\ d = c + 1
    \/ from \in L    /\ to \notin L /\ d = c - 1
    \/ (from \in L <=> to \in L)    /\ d = c

\* A count that follows the thread that moves stays exact.
LEMMA CountStaysExact ==
    ASSUME NEW p \in Passenger, NEW L, NEW c, NEW d, pc \in [Passenger -> Labels],
           pc' = [pc EXCEPT ![p] = pc'[p]],
           c = Cardinality(At(L)), Follows(c, d, L, pc[p], pc'[p])
    PROVE  d = Cardinality(At(L)')
<1> DEFINE to == pc'[p]
<1>1. Moved(Passenger, pc, pc', p, to)
  BY DEF Moved
<1>2. IsFiniteSet(Passenger)
  BY VIPChannelAssumption
<1> HIDE DEF to
<1>3. pc[p] \notin L /\ to \in L => Cardinality(At(L)') = Cardinality(At(L)) + 1
  BY <1>1, <1>2, OneThreadMoves DEF At
<1>4. pc[p] \in L /\ to \notin L => Cardinality(At(L)') = Cardinality(At(L)) - 1
  BY <1>1, <1>2, OneThreadMoves DEF At
<1>5. (pc[p] \in L <=> to \in L) => Cardinality(At(L)') = Cardinality(At(L))
  BY <1>1, <1>2, OneThreadMoves DEF At
<1> QED
  BY <1>3, <1>4, <1>5 DEF Follows, to

\* A step whose counts follow the thread keeps CountsExact.
LEMMA CountsFollow ==
    ASSUME IInv, NEW p \in Passenger, pc' = [pc EXCEPT ![p] = pc'[p]],
           Follows(VIP_LR_count, VIP_LR_count', LRCountedLabels, pc[p], pc'[p]),
           Follows(VIP_RL_count, VIP_RL_count', RLCountedLabels, pc[p], pc'[p])
    PROVE  CountsExact' /\ VIP_LR_count' \in Nat /\ VIP_RL_count' \in Nat
<1>1. VIP_LR_count' = Cardinality(At(LRCountedLabels)')
  BY CountStaysExact DEF IInv, TypeOK, CountsExact
<1>2. VIP_RL_count' = Cardinality(At(RLCountedLabels)')
  BY CountStaysExact DEF IInv, TypeOK, CountsExact
<1>3. Cardinality(At(LRCountedLabels)') \in Nat /\ Cardinality(At(RLCountedLabels)') \in Nat
  BY VIPChannelAssumption, ThreadSetsFinite DEF At
<1> QED
  BY <1>1, <1>2, <1>3 DEF CountsExact

-----------------------------------------------------------------------------

\* Nobody is at the channel when the threads start.
LEMMA InitIInv == Init => IInv
<1> SUFFICES ASSUME Init PROVE IInv
  OBVIOUS
<1> USE DEF Init, InitChannel
<1>1. TypeOK
  <2>1. pc \in [Passenger -> Labels] /\ reg \in [Passenger -> Int]
    BY DEF Labels
  <2>2. /\ VIP_waiting_mutex \in BOOLEAN /\ VIP_priority_mutex \in BOOLEAN
        /\ VIP_LR_mutex \in BOOLEAN /\ VIP_RL_mutex \in BOOLEAN
    BY Zenon
  <2>3. VIP_LR_waiting \in Int /\ VIP_LR_count \in Nat /\ VIP_RL_count \in Nat
    BY SMT
  <2> QED
    BY ONLY <2>1, <2>2, <2>3 DEF TypeOK
<1>2. InLR = {} /\ InRL = {} /\ LROn = {} /\ RLOn = {}
  BY DEF InLR, InRL, LROn, RLOn, At, ThreadsAt
<1>3. At(LRCountedLabels) = {} /\ At(RLCountedLabels) = {}
  BY DEF LRCountedLabels, RLCountedLabels, At, ThreadsAt
<1>4. CountsExact
  BY <1>3, FS_EmptySet DEF CountsExact
<1> QED
  BY <1>1, <1>2, <1>4 DEF IInv, MutexOwners, OneDirection

\* Every step of every passenger preserves the invariant.
LEMMA NextIInv == IInv /\ [Next]_vars => IInv'
<1> SUFFICES ASSUME IInv, [Next]_vars PROVE IInv'
  OBVIOUS
<1> USE DEF mutexes, counts, race, channel
<1>1. ASSUME NEW p \in Passenger, LRStart(p) PROVE IInv'
  <2>1. /\ pc' = [pc EXCEPT ![p] = pc'[p]]
        /\ Follows(VIP_LR_count, VIP_LR_count', LRCountedLabels, pc[p], pc'[p])
        /\ Follows(VIP_RL_count, VIP_RL_count', RLCountedLabels, pc[p], pc'[p])
    BY <1>1 DEF IInv, TypeOK, LRStart, Goto, Follows, LRCountedLabels, RLCountedLabels
  <2>2. CountsExact' /\ VIP_LR_count' \in Nat /\ VIP_RL_count' \in Nat
    BY <2>1, CountsFollow
  <2>3. TypeOK'
    BY <1>1, <2>2 DEF IInv, TypeOK, LRStart, Goto, Lock, Unlock, Labels, LRLabels, RLLabels
  <2>4. MutexOwners' /\ OneDirection'
    BY <1>1 DEF IInv, TypeOK, MutexOwners, OneDirection, LRStart, Goto, Lock, Unlock,
         InLR, InRL, LROn, RLOn, At, ThreadsAt
  <2> QED
    BY <2>2, <2>3, <2>4 DEF IInv
<1>2. ASSUME NEW p \in Passenger, LRLoad(p) PROVE IInv'
  <2>1. /\ pc' = [pc EXCEPT ![p] = pc'[p]]
        /\ Follows(VIP_LR_count, VIP_LR_count', LRCountedLabels, pc[p], pc'[p])
        /\ Follows(VIP_RL_count, VIP_RL_count', RLCountedLabels, pc[p], pc'[p])
    BY <1>2 DEF IInv, TypeOK, LRLoad, Goto, Follows, LRCountedLabels, RLCountedLabels
  <2>2. CountsExact' /\ VIP_LR_count' \in Nat /\ VIP_RL_count' \in Nat
    BY <2>1, CountsFollow
  <2>3. TypeOK'
    BY <1>2, <2>2 DEF IInv, TypeOK, LRLoad, Goto, Lock, Unlock, Labels, LRLabels, RLLabels
  <2>4. MutexOwners' /\ OneDirection'
    BY <1>2 DEF IInv, TypeOK, MutexOwners, OneDirection, LRLoad, Goto, Lock, Unlock,
         InLR, InRL, LROn, RLOn, At, ThreadsAt
  <2> QED
    BY <2>2, <2>3, <2>4 DEF IInv
<1>3. ASSUME NEW p \in Passenger, LRStore(p) PROVE IInv'
  <2>1. /\ pc' = [pc EXCEPT ![p] = pc'[p]]
        /\ Follows(VIP_LR_count, VIP_LR_count', LRCountedLabels, pc[p], pc'[p])
        /\ Follows(VIP_RL_count, VIP_RL_count', RLCountedLabels, pc[p], pc'[p])
    BY <1>3 DEF IInv, TypeOK, LRStore, Goto, Follows, LRCountedLabels, RLCountedLabels
  <2>2. CountsExact' /\ VIP_LR_count' \in Nat /\ VIP_RL_count' \in Nat
    BY <2>1, CountsFollow
  <2>3. TypeOK'
    BY <1>3, <2>2 DEF IInv, TypeOK, LRStore, Goto, Lock, Unlock, Labels, LRLabels, RLLabels
  <2>4. MutexOwners' /\ OneDirection'
    BY <1>3 DEF IInv, TypeOK, MutexOwners, OneDirection, LRStore, Goto, Lock, Unlock,
         InLR, InRL, LROn, RLOn, At, ThreadsAt
  <2> QED
    BY <2>2, <2>3, <2>4 DEF IInv
<1>4. ASSUME NEW p \in Passenger, LRTest(p) PROVE IInv'
  <2>1. /\ pc' = [pc EXCEPT ![p] = pc'[p]]
        /\ Follows(VIP_LR_count, VIP_LR_count', LRCountedLabels, pc[p], pc'[p])
        /\ Follows(VIP_RL_count, VIP_RL_count', RLCountedLabels, pc[p], pc'[p])
    BY <1>4 DEF IInv, TypeOK, LRTest, Goto, Follows, LRCountedLabels, RLCountedLabels
  <2>2. CountsExact' /\ VIP_LR_count' \in Nat /\ VIP_RL_count' \in Nat
    BY <2>1, CountsFollow
  <2>3. TypeOK'
    BY <1>4, <2>2 DEF IInv, TypeOK, LRTest, Goto, Lock, Unlock, Labels, LRLabels, RLLabels
  <2>4. MutexOwners' /\ OneDirection'
    BY <1>4 DEF IInv, TypeOK, MutexOwners, OneDirection, LRTest, Goto, Lock, Unlock,
         InLR, InRL, LROn, RLOn, At, ThreadsAt
  <2> QED
    BY <2>2, <2>3, <2>4 DEF IInv
<1>5. ASSUME NEW p \in Passenger, LRClose(p) PROVE IInv'
  <2>1. /\ pc' = [pc EXCEPT ![p] = pc'[p]]
        /\ Follows(VIP_LR_count, VIP_LR_count', LRCountedLabels, pc[p], pc'[p])
        /\ Follows(VIP_RL_count, VIP_RL_count', RLCountedLabels, pc[p], pc'[p])
    BY <1>5 DEF IInv, TypeOK, LRClose, Goto, Follows, LRCountedLabels, RLCountedLabels
  <2>2. CountsExact' /\ VIP_LR_count' \in Nat /\ VIP_RL_count' \in Nat
    BY <2>1, CountsFollow
  <2>3. TypeOK'
    BY <1>5, <2>2 DEF IInv, TypeOK, LRClose, Goto, Lock, Unlock, Labels, LRLabels, RLLabels
  <2>4. MutexOwners' /\ OneDirection'
    BY <1>5 DEF IInv, TypeOK, MutexOwners, OneDirection, LRClose, Goto, Lock, Unlock,
         InLR, InRL, LROn, RLOn, At, ThreadsAt
  <2> QED
    BY <2>2, <2>3, <2>4 DEF IInv
<1>6. ASSUME NEW p \in Passenger, LRWaiting(p) PROVE IInv'
  <2>1. /\ pc' = [pc EXCEPT ![p] = pc'[p]]
        /\ Follows(VIP_LR_count, VIP_LR_count', LRCountedLabels, pc[p], pc'[p])
        /\ Follows(VIP_RL_count, VIP_RL_count', RLCountedLabels, pc[p], pc'[p])
    BY <1>6 DEF IInv, TypeOK, LRWaiting, Goto, Follows, LRCountedLabels, RLCountedLabels
  <2>2. CountsExact' /\ VIP_LR_count' \in Nat /\ VIP_RL_count' \in Nat
    BY <2>1, CountsFollow
  <2>3. TypeOK'
    BY <1>6, <2>2 DEF IInv, TypeOK, LRWaiting, Goto, Lock, Unlock, Labels, LRLabels, RLLabels
  <2>4. MutexOwners' /\ OneDirection'
    BY <1>6 DEF IInv, TypeOK, MutexOwners, OneDirection, LRWaiting, Goto, Lock, Unlock,
         InLR, InRL, LROn, RLOn, At, ThreadsAt
  <2> QED
    BY <2>2, <2>3, <2>4 DEF IInv
<1>7. ASSUME NEW p \in Passenger, LRLock(p) PROVE IInv'
  <2>1. /\ pc' = [pc EXCEPT ![p] = pc'[p]]
        /\ Follows(VIP_LR_count, VIP_LR_count', LRCountedLabels, pc[p], pc'[p])
        /\ Follows(VIP_RL_count, VIP_RL_count', RLCountedLabels, pc[p], pc'[p])
    BY <1>7 DEF IInv, TypeOK, LRLock, Goto, Follows, LRCountedLabels, RLCountedLabels
  <2>2. CountsExact' /\ VIP_LR_count' \in Nat /\ VIP_RL_count' \in Nat
    BY <2>1, CountsFollow
  <2>3. TypeOK'
    BY <1>7, <2>2 DEF IInv, TypeOK, LRLock, Goto, Lock, Unlock, Labels, LRLabels, RLLabels
  <2>4. MutexOwners' /\ OneDirection'
    BY <1>7 DEF IInv, TypeOK, MutexOwners, OneDirection, LRLock, Goto, Lock, Unlock,
         InLR, InRL, LROn, RLOn, At, ThreadsAt
  <2> QED
    BY <2>2, <2>3, <2>4 DEF IInv
<1>8. ASSUME NEW p \in Passenger, LRDownLoad(p) PROVE IInv'
  <2>1. /\ pc' = [pc EXCEPT ![p] = pc'[p]]
        /\ Follows(VIP_LR_count, VIP_LR_count', LRCountedLabels, pc[p], pc'[p])
        /\ Follows(VIP_RL_count, VIP_RL_count', RLCountedLabels, pc[p], pc'[p])
    BY <1>8 DEF IInv, TypeOK, LRDownLoad, Goto, Follows, LRCountedLabels, RLCountedLabels
  <2>2. CountsExact' /\ VIP_LR_count' \in Nat /\ VIP_RL_count' \in Nat
    BY <2>1, CountsFollow
  <2>3. TypeOK'
    BY <1>8, <2>2 DEF IInv, TypeOK, LRDownLoad, Goto, Lock, Unlock, Labels, LRLabels, RLLabels
  <2>4. MutexOwners' /\ OneDirection'
    BY <1>8 DEF IInv, TypeOK, MutexOwners, OneDirection, LRDownLoad, Goto, Lock, Unlock,
         InLR, InRL, LROn, RLOn, At, ThreadsAt
  <2> QED
    BY <2>2, <2>3, <2>4 DEF IInv
<1>9. ASSUME NEW p \in Passenger, LRDownStore(p) PROVE IInv'
  <2>1. /\ pc' = [pc EXCEPT ![p] = pc'[p]]
        /\ Follows(VIP_LR_count, VIP_LR_count', LRCountedLabels, pc[p], pc'[p])
        /\ Follows(VIP_RL_count, VIP_RL_count', RLCountedLabels, pc[p], pc'[p])
    BY <1>9 DEF IInv, TypeOK, LRDownStore, Goto, Follows, LRCountedLabels, RLCountedLabels
  <2>2. CountsExact' /\ VIP_LR_count' \in Nat /\ VIP_RL_count' \in Nat
    BY <2>1, CountsFollow
  <2>3. TypeOK'
    BY <1>9, <2>2 DEF IInv, TypeOK, LRDownStore, Goto, Lock, Unlock, Labels, LRLabels, RLLabels
  <2>4. MutexOwners' /\ OneDirection'
    BY <1>9 DEF IInv, TypeOK, MutexOwners, OneDirection, LRDownStore, Goto, Lock, Unlock,
         InLR, InRL, LROn, RLOn, At, ThreadsAt
  <2> QED
    BY <2>2, <2>3, <2>4 DEF IInv
<1>10. ASSUME NEW p \in Passenger, LRDownTest(p) PROVE IInv'
  <2>1. /\ pc' = [pc EXCEPT ![p] = pc'[p]]
        /\ Follows(VIP_LR_count, VIP_LR_count', LRCountedLabels, pc[p], pc'[p])
        /\ Follows(VIP_RL_count, VIP_RL_count', RLCountedLabels, pc[p], pc'[p])
    BY <1>10 DEF IInv, TypeOK, LRDownTest, Goto, Follows, LRCountedLabels, RLCountedLabels
  <2>2. CountsExact' /\ VIP_LR_count' \in Nat /\ VIP_RL_count' \in Nat
    BY <2>1, CountsFollow
  <2>3. TypeOK'
    BY <1>10, <2>2 DEF IInv, TypeOK, LRDownTest, Goto, Lock, Unlock, Labels, LRLabels, RLLabels
  <2>4. MutexOwners' /\ OneDirection'
    BY <1>10 DEF IInv, TypeOK, MutexOwners, OneDirection, LRDownTest, Goto, Lock, Unlock,
         InLR, InRL, LROn, RLOn, At, ThreadsAt
  <2> QED
    BY <2>2, <2>3, <2>4 DEF IInv
<1>11. ASSUME NEW p \in Passenger, LROpen(p) PROVE IInv'
  <2>1. /\ pc' = [pc EXCEPT ![p] = pc'[p]]
        /\ Follows(VIP_LR_count, VIP_LR_count', LRCountedLabels, pc[p], pc'[p])
        /\ Follows(VIP_RL_count, VIP_RL_count', RLCountedLabels, pc[p], pc'[p])
    BY <1>11 DEF IInv, TypeOK, LROpen, Goto, Follows, LRCountedLabels, RLCountedLabels
  <2>2. CountsExact' /\ VIP_LR_count' \in Nat /\ VIP_RL_count' \in Nat
    BY <2>1, CountsFollow
  <2>3. TypeOK'
    BY <1>11, <2>2 DEF IInv, TypeOK, LROpen, Goto, Lock, Unlock, Labels, LRLabels, RLLabels
  <2>4. MutexOwners' /\ OneDirection'
    BY <1>11 DEF IInv, TypeOK, MutexOwners, OneDirection, LROpen, Goto, Lock, Unlock,
         InLR, InRL, LROn, RLOn, At, ThreadsAt
  <2> QED
    BY <2>2, <2>3, <2>4 DEF IInv
<1>12. ASSUME NEW p \in Passenger, LRCount(p) PROVE IInv'
  <2>1. /\ pc' = [pc EXCEPT ![p] = pc'[p]]
        /\ Follows(VIP_LR_count, VIP_LR_count', LRCountedLabels, pc[p], pc'[p])
        /\ Follows(VIP_RL_count, VIP_RL_count', RLCountedLabels, pc[p], pc'[p])
    BY <1>12 DEF IInv, TypeOK, LRCount, Goto, Follows, LRCountedLabels, RLCountedLabels
  <2>2. CountsExact' /\ VIP_LR_count' \in Nat /\ VIP_RL_count' \in Nat
    BY <2>1, CountsFollow
  <2>3. TypeOK'
    BY <1>12, <2>2 DEF IInv, TypeOK, LRCount, Goto, Lock, Unlock, Labels, LRLabels, RLLabels
  <2>4. At(LRCountedLabels) = LROn
    BY <1>12 DEF IInv, TypeOK, MutexOwners, LRCount, Goto, LRCountedLabels, LROn, InLR, At, ThreadsAt
  <2>5. VIP_LR_count = 0 <=> LROn = {}
    BY <2>4, ZeroMeansNobody DEF IInv, CountsExact
  <2>6. pc'[p] = IF LROn = {} THEN "lr_block" ELSE "lr_unlock"
    BY <1>12, <2>5 DEF IInv, TypeOK, LRCount
  <2>7. MutexOwners' /\ OneDirection'
    BY <1>12, <2>6 DEF IInv, TypeOK, MutexOwners, OneDirection, LRCount, InLR, InRL, LROn, RLOn, At, ThreadsAt
  <2> QED
    BY <2>2, <2>3, <2>7 DEF IInv
<1>13. ASSUME NEW p \in Passenger, LRBlock(p) PROVE IInv'
  <2>1. /\ pc' = [pc EXCEPT ![p] = pc'[p]]
        /\ Follows(VIP_LR_count, VIP_LR_count', LRCountedLabels, pc[p], pc'[p])
        /\ Follows(VIP_RL_count, VIP_RL_count', RLCountedLabels, pc[p], pc'[p])
    BY <1>13 DEF IInv, TypeOK, LRBlock, Goto, Follows, LRCountedLabels, RLCountedLabels
  <2>2. CountsExact' /\ VIP_LR_count' \in Nat /\ VIP_RL_count' \in Nat
    BY <2>1, CountsFollow
  <2>3. TypeOK'
    BY <1>13, <2>2 DEF IInv, TypeOK, LRBlock, Goto, Lock, Unlock, Labels, LRLabels, RLLabels
  <2>4. MutexOwners' /\ OneDirection'
    BY <1>13 DEF IInv, TypeOK, MutexOwners, OneDirection, LRBlock, Goto, Lock, Unlock,
         InLR, InRL, LROn, RLOn, At, ThreadsAt
  <2> QED
    BY <2>2, <2>3, <2>4 DEF IInv
<1>14. ASSUME NEW p \in Passenger, LRUnlock(p) PROVE IInv'
  <2>1. /\ pc' = [pc EXCEPT ![p] = pc'[p]]
        /\ Follows(VIP_LR_count, VIP_LR_count', LRCountedLabels, pc[p], pc'[p])
        /\ Follows(VIP_RL_count, VIP_RL_count', RLCountedLabels, pc[p], pc'[p])
    BY <1>14 DEF IInv, TypeOK, LRUnlock, Goto, Follows, LRCountedLabels, RLCountedLabels
  <2>2. CountsExact' /\ VIP_LR_count' \in Nat /\ VIP_RL_count' \in Nat
    BY <2>1, CountsFollow
  <2>3. TypeOK'
    BY <1>14, <2>2 DEF IInv, TypeOK, LRUnlock, Goto, Lock, Unlock, Labels, LRLabels, RLLabels
  <2>4. MutexOwners' /\ OneDirection'
    BY <1>14 DEF IInv, TypeOK, MutexOwners, OneDirection, LRUnlock, Goto, Lock, Unlock,
         InLR, InRL, LROn, RLOn, At, ThreadsAt
  <2> QED
    BY <2>2, <2>3, <2>4 DEF IInv
<1>15. ASSUME NEW p \in Passenger, LRCrossed(p) PROVE IInv'
  <2>1. /\ pc' = [pc EXCEPT ![p] = pc'[p]]
        /\ Follows(VIP_LR_count, VIP_LR_count', LRCountedLabels, pc[p], pc'[p])
        /\ Follows(VIP_RL_count, VIP_RL_count', RLCountedLabels, pc[p], pc'[p])
    BY <1>15 DEF IInv, TypeOK, LRCrossed, Goto, Follows, LRCountedLabels, RLCountedLabels
  <2>2. CountsExact' /\ VIP_LR_count' \in Nat /\ VIP_RL_count' \in Nat
    BY <2>1, CountsFollow
  <2>3. TypeOK'
    BY <1>15, <2>2 DEF IInv, TypeOK, LRCrossed, Goto, Lock, Unlock, Labels, LRLabels, RLLabels
  <2>4. MutexOwners' /\ OneDirection'
    BY <1>15 DEF IInv, TypeOK, MutexOwners, OneDirection, LRCrossed, Goto, Lock, Unlock,
         InLR, InRL, LROn, RLOn, At, ThreadsAt
  <2> QED
    BY <2>2, <2>3, <2>4 DEF IInv
<1>16. ASSUME NEW p \in Passenger, LRLeave(p) PROVE IInv'
  <2>1. /\ pc' = [pc EXCEPT ![p] = pc'[p]]
        /\ Follows(VIP_LR_count, VIP_LR_count', LRCountedLabels, pc[p], pc'[p])
        /\ Follows(VIP_RL_count, VIP_RL_count', RLCountedLabels, pc[p], pc'[p])
    BY <1>16 DEF IInv, TypeOK, LRLeave, Goto, Follows, LRCountedLabels, RLCountedLabels
  <2>2. CountsExact' /\ VIP_LR_count' \in Nat /\ VIP_RL_count' \in Nat
    BY <2>1, CountsFollow
  <2>3. TypeOK'
    BY <1>16, <2>2 DEF IInv, TypeOK, LRLeave, Goto, Lock, Unlock, Labels, LRLabels, RLLabels
  <2>4. At(LRCountedLabels)' = LROn'
    BY <1>16 DEF IInv, TypeOK, MutexOwners, LRLeave, Goto, LRCountedLabels, LROn, InLR, At, ThreadsAt
  <2>5. Cardinality(At(LRCountedLabels)') = 0 <=> At(LRCountedLabels)' = {}
    <3>1. At(LRCountedLabels)' = {} <=> \A t \in Passenger : pc'[t] \notin LRCountedLabels
      BY DEF At, ThreadsAt
    <3> QED
      BY <3>1, VIPChannelAssumption, ThreadSetsFinite DEF At
  <2>6. VIP_LR_count' = 0 <=> LROn' = {}
    BY <2>2, <2>4, <2>5 DEF CountsExact
  <2>7. MutexOwners' /\ OneDirection'
    BY <1>16, <2>6 DEF IInv, TypeOK, MutexOwners, OneDirection, LRLeave, Goto, InLR, InRL, LROn, RLOn, At, ThreadsAt
  <2> QED
    BY <2>2, <2>3, <2>7 DEF IInv
<1>17. ASSUME NEW p \in Passenger, LRExit(p, "away") PROVE IInv'
  <2>1. /\ pc' = [pc EXCEPT ![p] = pc'[p]]
        /\ Follows(VIP_LR_count, VIP_LR_count', LRCountedLabels, pc[p], pc'[p])
        /\ Follows(VIP_RL_count, VIP_RL_count', RLCountedLabels, pc[p], pc'[p])
    BY <1>17 DEF IInv, TypeOK, LRExit, Goto, Follows, LRCountedLabels, RLCountedLabels
  <2>2. CountsExact' /\ VIP_LR_count' \in Nat /\ VIP_RL_count' \in Nat
    BY <2>1, CountsFollow
  <2>3. TypeOK'
    BY <1>17, <2>2 DEF IInv, TypeOK, LRExit, Goto, Lock, Unlock, Labels, LRLabels, RLLabels
  <2>4. MutexOwners' /\ OneDirection'
    BY <1>17 DEF IInv, TypeOK, MutexOwners, OneDirection, LRExit, Goto, Lock, Unlock,
         InLR, InRL, LROn, RLOn, At, ThreadsAt
  <2> QED
    BY <2>2, <2>3, <2>4 DEF IInv
<1>18. ASSUME NEW p \in Passenger, RLStart(p) PROVE IInv'
  <2>1. /\ pc' = [pc EXCEPT ![p] = pc'[p]]
        /\ Follows(VIP_LR_count, VIP_LR_count', LRCountedLabels, pc[p], pc'[p])
        /\ Follows(VIP_RL_count, VIP_RL_count', RLCountedLabels, pc[p], pc'[p])
    BY <1>18 DEF IInv, TypeOK, RLStart, Goto, Follows, LRCountedLabels, RLCountedLabels
  <2>2. CountsExact' /\ VIP_LR_count' \in Nat /\ VIP_RL_count' \in Nat
    BY <2>1, CountsFollow
  <2>3. TypeOK'
    BY <1>18, <2>2 DEF IInv, TypeOK, RLStart, Goto, Lock, Unlock, Labels, LRLabels, RLLabels
  <2>4. MutexOwners' /\ OneDirection'
    BY <1>18 DEF IInv, TypeOK, MutexOwners, OneDirection, RLStart, Goto, Lock, Unlock,
         InLR, InRL, LROn, RLOn, At, ThreadsAt
  <2> QED
    BY <2>2, <2>3, <2>4 DEF IInv
<1>19. ASSUME NEW p \in Passenger, RLGate(p) PROVE IInv'
  <2>1. /\ pc' = [pc EXCEPT ![p] = pc'[p]]
        /\ Follows(VIP_LR_count, VIP_LR_count', LRCountedLabels, pc[p], pc'[p])
        /\ Follows(VIP_RL_count, VIP_RL_count', RLCountedLabels, pc[p], pc'[p])
    BY <1>19 DEF IInv, TypeOK, RLGate, Goto, Follows, LRCountedLabels, RLCountedLabels
  <2>2. CountsExact' /\ VIP_LR_count' \in Nat /\ VIP_RL_count' \in Nat
    BY <2>1, CountsFollow
  <2>3. TypeOK'
    BY <1>19, <2>2 DEF IInv, TypeOK, RLGate, Goto, Lock, Unlock, Labels, LRLabels, RLLabels
  <2>4. MutexOwners' /\ OneDirection'
    BY <1>19 DEF IInv, TypeOK, MutexOwners, OneDirection, RLGate, Goto, Lock, Unlock,
         InLR, InRL, LROn, RLOn, At, ThreadsAt
  <2> QED
    BY <2>2, <2>3, <2>4 DEF IInv
<1>20. ASSUME NEW p \in Passenger, RLLock(p) PROVE IInv'
  <2>1. /\ pc' = [pc EXCEPT ![p] = pc'[p]]
        /\ Follows(VIP_LR_count, VIP_LR_count', LRCountedLabels, pc[p], pc'[p])
        /\ Follows(VIP_RL_count, VIP_RL_count', RLCountedLabels, pc[p], pc'[p])
    BY <1>20 DEF IInv, TypeOK, RLLock, Goto, Follows, LRCountedLabels, RLCountedLabels
  <2>2. CountsExact' /\ VIP_LR_count' \in Nat /\ VIP_RL_count' \in Nat
    BY <2>1, CountsFollow
  <2>3. TypeOK'
    BY <1>20, <2>2 DEF IInv, TypeOK, RLLock, Goto, Lock, Unlock, Labels, LRLabels, RLLabels
  <2>4. MutexOwners' /\ OneDirection'
    BY <1>20 DEF IInv, TypeOK, MutexOwners, OneDirection, RLLock, Goto, Lock, Unlock,
         InLR, InRL, LROn, RLOn, At, ThreadsAt
  <2> QED
    BY <2>2, <2>3, <2>4 DEF IInv
<1>21. ASSUME NEW p \in Passenger, RLCount(p) PROVE IInv'
  <2>1. /\ pc' = [pc EXCEPT ![p] = pc'[p]]
        /\ Follows(VIP_LR_count, VIP_LR_count', LRCountedLabels, pc[p], pc'[p])
        /\ Follows(VIP_RL_count, VIP_RL_count', RLCountedLabels, pc[p], pc'[p])
    BY <1>21 DEF IInv, TypeOK, RLCount, Goto, Follows, LRCountedLabels, RLCountedLabels
  <2>2. CountsExact' /\ VIP_LR_count' \in Nat /\ VIP_RL_count' \in Nat
    BY <2>1, CountsFollow
  <2>3. TypeOK'
    BY <1>21, <2>2 DEF IInv, TypeOK, RLCount, Goto, Lock, Unlock, Labels, LRLabels, RLLabels
  <2>4. At(RLCountedLabels) = RLOn
    BY <1>21 DEF IInv, TypeOK, MutexOwners, RLCount, Goto, RLCountedLabels, RLOn, InRL, At, ThreadsAt
  <2>5. VIP_RL_count = 0 <=> RLOn = {}
    BY <2>4, ZeroMeansNobody DEF IInv, CountsExact
  <2>6. pc'[p] = IF RLOn = {} THEN "rl_block" ELSE "rl_unlock"
    BY <1>21, <2>5 DEF IInv, TypeOK, RLCount
  <2>7. MutexOwners' /\ OneDirection'
    BY <1>21, <2>6 DEF IInv, TypeOK, MutexOwners, OneDirection, RLCount, InLR, InRL, LROn, RLOn, At, ThreadsAt
  <2> QED
    BY <2>2, <2>3, <2>7 DEF IInv
<1>22. ASSUME NEW p \in Passenger, RLBlock(p) PROVE IInv'
  <2>1. /\ pc' = [pc EXCEPT ![p] = pc'[p]]
        /\ Follows(VIP_LR_count, VIP_LR_count', LRCountedLabels, pc[p], pc'[p])
        /\ Follows(VIP_RL_count, VIP_RL_count', RLCountedLabels, pc[p], pc'[p])
    BY <1>22 DEF IInv, TypeOK, RLBlock, Goto, Follows, LRCountedLabels, RLCountedLabels
  <2>2. CountsExact' /\ VIP_LR_count' \in Nat /\ VIP_RL_count' \in Nat
    BY <2>1, CountsFollow
  <2>3. TypeOK'
    BY <1>22, <2>2 DEF IInv, TypeOK, RLBlock, Goto, Lock, Unlock, Labels, LRLabels, RLLabels
  <2>4. MutexOwners' /\ OneDirection'
    BY <1>22 DEF IInv, TypeOK, MutexOwners, OneDirection, RLBlock, Goto, Lock, Unlock,
         InLR, InRL, LROn, RLOn, At, ThreadsAt
  <2> QED
    BY <2>2, <2>3, <2>4 DEF IInv
<1>23. ASSUME NEW p \in Passenger, RLUnlock(p) PROVE IInv'
  <2>1. /\ pc' = [pc EXCEPT ![p] = pc'[p]]
        /\ Follows(VIP_LR_count, VIP_LR_count', LRCountedLabels, pc[p], pc'[p])
        /\ Follows(VIP_RL_count, VIP_RL_count', RLCountedLabels, pc[p], pc'[p])
    BY <1>23 DEF IInv, TypeOK, RLUnlock, Goto, Follows, LRCountedLabels, RLCountedLabels
  <2>2. CountsExact' /\ VIP_LR_count' \in Nat /\ VIP_RL_count' \in Nat
    BY <2>1, CountsFollow
  <2>3. TypeOK'
    BY <1>23, <2>2 DEF IInv, TypeOK, RLUnlock, Goto, Lock, Unlock, Labels, LRLabels, RLLabels
  <2>4. MutexOwners' /\ OneDirection'
    BY <1>23 DEF IInv, TypeOK, MutexOwners, OneDirection, RLUnlock, Goto, Lock, Unlock,
         InLR, InRL, LROn, RLOn, At, ThreadsAt
  <2> QED
    BY <2>2, <2>3, <2>4 DEF IInv
<1>24. ASSUME NEW p \in Passenger, RLCrossed(p) PROVE IInv'
  <2>1. /\ pc' = [pc EXCEPT ![p] = pc'[p]]
        /\ Follows(VIP_LR_count, VIP_LR_count', LRCountedLabels, pc[p], pc'[p])
        /\ Follows(VIP_RL_count, VIP_RL_count', RLCountedLabels, pc[p], pc'[p])
    BY <1>24 DEF IInv, TypeOK, RLCrossed, Goto, Follows, LRCountedLabels, RLCountedLabels
  <2>2. CountsExact' /\ VIP_LR_count' \in Nat /\ VIP_RL_count' \in Nat
    BY <2>1, CountsFollow
  <2>3. TypeOK'
    BY <1>24, <2>2 DEF IInv, TypeOK, RLCrossed, Goto, Lock, Unlock, Labels, LRLabels, RLLabels
  <2>4. MutexOwners' /\ OneDirection'
    BY <1>24 DEF IInv, TypeOK, MutexOwners, OneDirection, RLCrossed, Goto, Lock, Unlock,
         InLR, InRL, LROn, RLOn, At, ThreadsAt
  <2> QED
    BY <2>2, <2>3, <2>4 DEF IInv
<1>25. ASSUME NEW p \in Passenger, RLLeave(p) PROVE IInv'
  <2>1. /\ pc' = [pc EXCEPT ![p] = pc'[p]]
        /\ Follows(VIP_LR_count, VIP_LR_count', LRCountedLabels, pc[p], pc'[p])
        /\ Follows(VIP_RL_count, VIP_RL_count', RLCountedLabels, pc[p], pc'[p])
    BY <1>25 DEF IInv, TypeOK, RLLeave, Goto, Follows, LRCountedLabels, RLCountedLabels
  <2>2. CountsExact' /\ VIP_LR_count' \in Nat /\ VIP_RL_count' \in Nat
    BY <2>1, CountsFollow
  <2>3. TypeOK'
    BY <1>25, <2>2 DEF IInv, TypeOK, RLLeave, Goto, Lock, Unlock, Labels, LRLabels, RLLabels
  <2>4. At(RLCountedLabels)' = RLOn'
    BY <1>25 DEF IInv, TypeOK, MutexOwners, RLLeave, Goto, RLCountedLabels, RLOn, InRL, At, ThreadsAt
  <2>5. Cardinality(At(RLCountedLabels)') = 0 <=> At(RLCountedLabels)' = {}
    <3>1. At(RLCountedLabels)' = {} <=> \A t \in Passenger : pc'[t] \notin RLCountedLabels
      BY DEF At, ThreadsAt
    <3> QED
      BY <3>1, VIPChannelAssumption, ThreadSetsFinite DEF At
  <2>6. VIP_RL_count' = 0 <=> RLOn' = {}
    BY <2>2, <2>4, <2>5 DEF CountsExact
  <2>7. MutexOwners' /\ OneDirection'
    BY <1>25, <2>6 DEF IInv, TypeOK, MutexOwners, OneDirection, RLLeave, Goto, InLR, InRL, LROn, RLOn, At, ThreadsAt
  <2> QED
    BY <2>2, <2>3, <2>7 DEF IInv
<1>26. ASSUME NEW p \in Passenger, RLExit(p, "away") PROVE IInv'
  <2>1. /\ pc' = [pc EXCEPT ![p] = pc'[p]]
        /\ Follows(VIP_LR_count, VIP_LR_count', LRCountedLabels, pc[p], pc'[p])
        /\ Follows(VIP_RL_count, VIP_RL_count', RLCountedLabels, pc[p], pc'[p])
    BY <1>26 DEF IInv, TypeOK, RLExit, Goto, Follows, LRCountedLabels, RLCountedLabels
  <2>2. CountsExact' /\ VIP_LR_count' \in Nat /\ VIP_RL_count' \in Nat
    BY <2>1, CountsFollow
  <2>3. TypeOK'
    BY <1>26, <2>2 DEF IInv, TypeOK, RLExit, Goto, Lock, Unlock, Labels, LRLabels, RLLabels
  <2>4. MutexOwners' /\ OneDirection'
    BY <1>26 DEF IInv, TypeOK, MutexOwners, OneDirection, RLExit, Goto, Lock, Unlock,
         InLR, InRL, LROn, RLOn, At, ThreadsAt
  <2> QED
    BY <2>2, <2>3, <2>4 DEF IInv
<1>27. ASSUME NEW p \in Passenger, Arrive(p) PROVE IInv'
  <2>1. /\ pc' = [pc EXCEPT ![p] = pc'[p]]
        /\ Follows(VIP_LR_count, VIP_LR_count', LRCountedLabels, pc[p], pc'[p])
        /\ Follows(VIP_RL_count, VIP_RL_count', RLCountedLabels, pc[p], pc'[p])
    BY <1>27 DEF IInv, TypeOK, Arrive, Goto, Follows, LRCountedLabels, RLCountedLabels
  <2>2. CountsExact' /\ VIP_LR_count' \in Nat /\ VIP_RL_count' \in Nat
    BY <2>1, CountsFollow
  <2>3. TypeOK'
    BY <1>27, <2>2 DEF IInv, TypeOK, Arrive, Goto, Lock, Unlock, Labels, LRLabels, RLLabels
  <2>4. MutexOwners' /\ OneDirection'
    BY <1>27 DEF IInv, TypeOK, MutexOwners, OneDirection, Arrive, Goto, Lock, Unlock,
         InLR, InRL, LROn, RLOn, At, ThreadsAt
  <2> QED
    BY <2>2, <2>3, <2>4 DEF IInv
<1>28. CASE UNCHANGED vars
  BY <1>28 DEF IInv, TypeOK, CountsExact, MutexOwners, OneDirection, vars, InLR, InRL, LROn, RLOn, At, ThreadsAt
<1> QED
  BY <1>1, <1>2, <1>3, <1>4, <1>5, <1>6, <1>7, <1>8, <1>9, <1>10, <1>11, <1>12, <1>13, <1>14, <1>15, <1>16, <1>17, <1>18, <1>19, <1>20, <1>21, <1>22, <1>23, <1>24, <1>25, <1>26, <1>27, <1>28
     DEF Next, Walk, VIP_channel_LR, VIP_channel_RL

\* The invariant holds in every reachable state.
THEOREM Invariance == Spec => []IInv
BY InitIInv, NextIInv, PTL DEF Spec

\* The variables of the channel keep their types; the two counts are never
\* negative.
THEOREM TypeCorrect == Spec => []TypeOK
<1>1. IInv => TypeOK
  BY DEF IInv
<1> QED
  BY <1>1, Invariance, PTL

\* Passengers never walk in both directions at the same time, whatever the
\* race on VIP_LR_waiting does to the gate.
THEOREM AlwaysOneDirection == Spec => []OneDirection
<1>1. IInv => OneDirection
  BY DEF IInv
<1> QED
  BY <1>1, Invariance, PTL

\* Each mutex has one owner, a thread or the passengers of a direction, and the
\* counts that decide when it changes hands are exact.
THEOREM AlwaysOwned == Spec => [](CountsExact /\ MutexOwners)
<1>1. IInv => CountsExact /\ MutexOwners
  BY DEF IInv
<1> QED
  BY <1>1, Invariance, PTL

-----------------------------------------------------------------------------

\* The channel implements the abstract one-lane walkway: every step of a thread
\* enters an empty or like-minded walkway, leaves it, or is invisible.
THEOREM ImplementsLane == Spec => LaneSpec
<1> DEFINE lane == [p \in Passenger |-> IF p \in LROn THEN "LR"
                                       ELSE IF p \in RLOn THEN "RL" ELSE "off"]
<1>1. Init => Lane!Init
  BY DEF Init, Lane!Init, LROn, RLOn, At, ThreadsAt
<1>2. IInv /\ IInv' /\ [Next]_vars => [Lane!Next]_lane
  <2> SUFFICES ASSUME IInv, IInv', [Next]_vars PROVE Lane!Next \/ lane' = lane
    OBVIOUS
  <2>1. CASE UNCHANGED vars
    BY <2>1 DEF vars, LROn, RLOn, At, ThreadsAt
  <2>2. CASE Next
    <3>1. PICK p \in Passenger : Arrive(p) \/ Walk(p)
      BY <2>2 DEF Next
    <3>2. \A q \in Passenger : q # p => pc'[q] = pc[q]
      BY <3>1 DEF IInv, TypeOK, Arrive, Walk, VIP_channel_LR, VIP_channel_RL, Goto,
         LRStart, LRLoad, LRStore, LRTest, LRClose, LRWaiting, LRLock, LRDownLoad,
         LRDownStore, LRDownTest, LROpen, LRCount, LRBlock, LRUnlock, LRCrossed,
         LRLeave, LRExit, RLStart, RLGate, RLLock, RLCount, RLBlock, RLUnlock,
         RLCrossed, RLLeave, RLExit
    <3>3. /\ p \in LROn /\ p \in LROn' => lane'[p] = lane[p]
          /\ p \notin LROn \/ p \notin RLOn'
          /\ p \notin RLOn \/ p \notin LROn'
      BY <3>1 DEF IInv, TypeOK, Arrive, Walk, VIP_channel_LR, VIP_channel_RL, Goto,
         LRStart, LRLoad, LRStore, LRTest, LRClose, LRWaiting, LRLock, LRDownLoad,
         LRDownStore, LRDownTest, LROpen, LRCount, LRBlock, LRUnlock, LRCrossed,
         LRLeave, LRExit, RLStart, RLGate, RLLock, RLCount, RLBlock, RLUnlock,
         RLCrossed, RLLeave, RLExit, LROn, RLOn, At, ThreadsAt
    <3>4. \A q \in Passenger : q # p => lane'[q] = lane[q]
      BY <3>2 DEF LROn, RLOn, At, ThreadsAt
    <3>5. lane' = [lane EXCEPT ![p] = lane'[p]]
      BY <3>4
    <3>6. CASE lane'[p] = lane[p]
      BY <3>5, <3>6
    <3>7. CASE lane[p] # "off" /\ lane'[p] = "off"
      BY <3>5, <3>7 DEF Lane!Next, Lane!Leave
    <3>8. CASE lane[p] = "off" /\ lane'[p] # "off"
      <4>1. CASE lane'[p] = "LR"
        <5>1. RLOn' = {}
          BY <4>1 DEF IInv, OneDirection
        <5>2. \A q \in Passenger : lane[q] # "RL"
          BY <3>4, <3>8, <5>1
        <5> QED
          BY <3>5, <3>8, <4>1, <5>2 DEF Lane!Next, Lane!Enter, Lane!Opposite
      <4>2. CASE lane'[p] = "RL"
        <5>1. LROn' = {}
          BY <4>2 DEF IInv, OneDirection
        <5>2. \A q \in Passenger : lane[q] # "LR"
          BY <3>4, <3>8, <5>1
        <5> QED
          BY <3>5, <3>8, <4>2, <5>2 DEF Lane!Next, Lane!Enter, Lane!Opposite
      <4> QED
        BY <3>8, <4>1, <4>2
    <3> QED
      BY <3>3, <3>6, <3>7, <3>8
  <2> QED
    BY <2>1, <2>2
<1> QED
  BY <1>1, <1>2, Invariance, PTL DEF Spec, LaneSpec, Lane!Spec
=============================================================================
