--------------------------- MODULE CheckInProofs ----------------------------
(***************************************************************************)
(* Proofs about the kiosks, for every finite set of passengers and every   *)
(* number M > 0 of kiosks.                                                 *)
(***************************************************************************)
EXTENDS CheckIn, HelperTheorems

\* The effect of a step of thread p on the numbers the invariant speaks of.
LEMMA AtAfterStep ==
    ASSUME NEW p \in Passenger, NEW from, NEW to, NEW L,
           pc \in [Passenger -> Labels], Goto(p, from, to)
    PROVE  /\ IsFiniteSet(At(L)) /\ Cardinality(At(L)) \in Nat
           /\ from \notin L /\ to \in L =>
                Cardinality(At(L)') = Cardinality(At(L)) + 1
           /\ from \in L /\ to \notin L =>
                Cardinality(At(L)') = Cardinality(At(L)) - 1
           /\ (from \in L <=> to \in L) =>
                Cardinality(At(L)') = Cardinality(At(L))
<1>1. pc[p] = from /\ Moved(Passenger, pc, pc', p, to)
  BY DEF Goto, Moved
<1>2. IsFiniteSet(Passenger)
  BY CheckInAssumption
<1>3. IsFiniteSet(At(L)) /\ Cardinality(At(L)) \in Nat
  BY <1>1, <1>2, OneThreadMoves DEF At
<1>4. from \notin L /\ to \in L => Cardinality(At(L)') = Cardinality(At(L)) + 1
  BY <1>1, <1>2, OneThreadMoves DEF At
<1>5. from \in L /\ to \notin L => Cardinality(At(L)') = Cardinality(At(L)) - 1
  BY <1>1, <1>2, OneThreadMoves DEF At
<1>6. (from \in L <=> to \in L) => Cardinality(At(L)') = Cardinality(At(L))
  BY <1>1, <1>2, OneThreadMoves DEF At
<1> QED
  BY <1>3, <1>4, <1>5, <1>6

\* The pigeonhole argument: a passenger that the semaphore has admitted and
\* that holds no kiosk yet leaves one of the M kiosks free.
LEMMA FreeKioskExists ==
    ASSUME IInv, NEW p \in Passenger, pc[p] = "ci_find"
    PROVE  \E k \in 0 .. M - 1 : ~kiosks[k]
<1> SUFFICES ASSUME \A k \in 0 .. M - 1 : kiosks[k]
             PROVE  FALSE
  OBVIOUS
<1>1. M \in Nat \ {0} /\ IsFiniteSet(Passenger)
  BY CheckInAssumption
<1>2. /\ Served \in SUBSET Passenger /\ Inside \in SUBSET Passenger
      /\ p \notin Served /\ Served \cup {p} \in SUBSET Inside
  BY DEF Served, Inside, InsideLabels, At, ThreadsAt
<1>3. IsFiniteSet(Served) /\ IsFiniteSet(Inside)
  BY <1>1, <1>2, FS_Subset
<1>4. Cardinality(Served) \in Nat /\ Cardinality(Inside) \in Nat
  BY <1>3, FS_CardinalityType
<1>5. Cardinality(Served \cup {p}) = Cardinality(Served) + 1
  BY <1>2, <1>3, FS_AddElement
<1>6. Cardinality(Served \cup {p}) <= Cardinality(Inside)
  BY <1>2, <1>3, FS_Subset
<1>7. Cardinality(Inside) <= M
  BY <1>1, <1>4 DEF IInv, CountersAgree, TypeOK
<1> DEFINE f == [q \in Served |-> assigned_kiosk[q]]
<1>8. f \in Surjection(Served, 0 .. M - 1)
  <2>1. f \in [Served -> 0 .. M - 1]
    BY <1>2 DEF IInv, TypeOK, KiosksMatchPassengers
  <2>2. \A k \in 0 .. M - 1 : \E q \in Served : f[q] = k
    BY DEF IInv, KiosksMatchPassengers
  <2> QED
    BY <2>1, <2>2 DEF Surjection
<1>9. Cardinality(0 .. M - 1) <= Cardinality(Served)
  BY <1>3, <1>8, FS_Surjection
<1>10. Cardinality(0 .. M - 1) = M
  <2>1. 0 \in Int /\ M - 1 \in Int /\ ~(0 > M - 1) /\ (M - 1) - 0 + 1 = M
    BY <1>1
  <2> QED
    BY <2>1, FS_Interval
<1> QED
  BY <1>1, <1>4, <1>5, <1>6, <1>7, <1>9, <1>10

\* The invariant holds when the threads start.
LEMMA InitIInv == Init => IInv
<1> SUFFICES ASSUME Init PROVE IInv
  OBVIOUS
<1> USE CheckInAssumption DEF Init, InitPool
<1>1. TypeOK
  <2>1. pc \in [Passenger -> Labels]
    BY DEF Labels
  <2>2. M \in 0 .. M /\ 0 \in 0 .. M /\ -1 \in -1 .. M - 1
    OBVIOUS
  <2> QED
    BY <2>1, <2>2 DEF TypeOK
<1>2. /\ Inside = {} /\ Locked = {} /\ Counted = {} /\ Served = {}
      /\ At({"ci_take"}) = {}
  BY DEF Inside, InsideLabels, Locked, Counted, CountedLabels, Served, At, ThreadsAt
<1>3. CountersAgree
  BY <1>2, FS_EmptySet DEF CountersAgree
<1> QED
  BY <1>1, <1>2, <1>3 DEF IInv, MutexOK, KioskFound, KiosksMatchPassengers

\* Which of the labels of check_in count for the semaphore and the counter.
LEMMA LabelSets ==
    /\ "ci_start" \notin InsideLabels /\ "ci_start" \notin CountedLabels
    /\ "ci_lock"   \in InsideLabels   /\ "ci_lock" \notin CountedLabels
    /\ "ci_find"   \in InsideLabels   /\ "ci_find" \notin CountedLabels
    /\ "ci_take"   \in InsideLabels   /\ "ci_take"   \in CountedLabels
    /\ "ci_serve"  \in InsideLabels   /\ "ci_serve"  \in CountedLabels
    /\ "ci_vacate" \in InsideLabels   /\ "ci_vacate" \in CountedLabels
    /\ "ci_post"   \in InsideLabels   /\ "ci_post" \notin CountedLabels
    /\ "ci_done" \notin InsideLabels  /\ "ci_done" \notin CountedLabels
BY DEF InsideLabels, CountedLabels

\* The numbers the counters are compared with are naturals, and everyone
\* counted has passed the semaphore.
LEMMA Sizes ==
    ASSUME NEW f
    PROVE  /\ Cardinality(ThreadsAt(Passenger, f, InsideLabels)) \in Nat
           /\ Cardinality(ThreadsAt(Passenger, f, CountedLabels)) \in Nat
           /\ Cardinality(ThreadsAt(Passenger, f, CountedLabels))
                <= Cardinality(ThreadsAt(Passenger, f, InsideLabels))
<1> DEFINE I == ThreadsAt(Passenger, f, InsideLabels)
           C == ThreadsAt(Passenger, f, CountedLabels)
<1>1. I \in SUBSET Passenger /\ C \in SUBSET I
  BY DEF ThreadsAt, InsideLabels, CountedLabels
<1> HIDE DEF I, C
<1>2. IsFiniteSet(I)
  BY <1>1, CheckInAssumption, FS_Subset
<1>3. IsFiniteSet(C) /\ Cardinality(C) <= Cardinality(I)
  BY <1>1, <1>2, FS_Subset
<1> QED
  BY <1>2, <1>3, FS_CardinalityType DEF I, C

\* Every step of every thread preserves the invariant.
LEMMA NextIInv == IInv /\ [Next]_vars => IInv'
<1> SUFFICES ASSUME IInv, [Next]_vars PROVE IInv'
  OBVIOUS
<1> USE CheckInAssumption
<1>1. /\ Cardinality(Inside) \in Nat /\ Cardinality(Counted) \in Nat
      /\ Cardinality(Inside') \in Nat /\ Cardinality(Counted') \in Nat
      /\ Cardinality(Counted') <= Cardinality(Inside')
  BY Sizes DEF Inside, Counted, At
<1>2. ASSUME NEW p \in Passenger, Claim(p) PROVE IInv'
  <2>1. Goto(p, "ci_start", "ci_lock") /\ pc \in [Passenger -> Labels]
    BY <1>2 DEF Claim, IInv, TypeOK
  <2>2. Cardinality(Inside') = Cardinality(Inside) + 1 /\ Cardinality(Counted') = Cardinality(Counted)
    BY <2>1, LabelSets, AtAfterStep DEF Inside, Counted
  <2>3. CountersAgree'
    BY <1>2, <1>1, <2>2 DEF IInv, TypeOK, CountersAgree, Claim
  <2>4. TypeOK'
    BY <1>2, <1>1, <2>3 DEF IInv, TypeOK, CountersAgree, Claim, Goto, Labels
  <2>5. MutexOK' /\ KioskFound' /\ KiosksMatchPassengers'
    BY <1>2 DEF IInv, TypeOK, MutexOK, KioskFound, KiosksMatchPassengers,
                Claim, Goto, Locked, Served, At, ThreadsAt
  <2> QED
    BY <2>3, <2>4, <2>5 DEF IInv
<1>3. ASSUME NEW p \in Passenger, LockIn(p) PROVE IInv'
  <2>1. Goto(p, "ci_lock", "ci_find") /\ pc \in [Passenger -> Labels]
    BY <1>3 DEF LockIn, IInv, TypeOK
  <2>2. Cardinality(Inside') = Cardinality(Inside) /\ Cardinality(Counted') = Cardinality(Counted)
    BY <2>1, LabelSets, AtAfterStep DEF Inside, Counted
  <2>3. CountersAgree'
    BY <1>3, <1>1, <2>2 DEF IInv, TypeOK, CountersAgree, LockIn
  <2>4. TypeOK'
    BY <1>3, <1>1, <2>3 DEF IInv, TypeOK, CountersAgree, LockIn, Goto, Labels
  <2>5. MutexOK' /\ KioskFound' /\ KiosksMatchPassengers'
    BY <1>3 DEF IInv, TypeOK, MutexOK, KioskFound, KiosksMatchPassengers,
                LockIn, Goto, Locked, Served, At, ThreadsAt
  <2> QED
    BY <2>3, <2>4, <2>5 DEF IInv
<1>4. ASSUME NEW p \in Passenger, Find(p) PROVE IInv'
  <2>1. Goto(p, "ci_find", "ci_take") /\ pc \in [Passenger -> Labels]
    BY <1>4 DEF Find, IInv, TypeOK
  <2>2. Cardinality(Inside') = Cardinality(Inside) /\ Cardinality(Counted') = Cardinality(Counted) + 1
    BY <2>1, LabelSets, AtAfterStep DEF Inside, Counted
  <2>3. CountersAgree'
    BY <1>4, <1>1, <2>2 DEF IInv, TypeOK, CountersAgree, Find
  <2>4. /\ get_idx(kiosks, M, FALSE) \in 0 .. M - 1
        /\ kiosks[get_idx(kiosks, M, FALSE)] = FALSE
    <3>1. \E k \in 0 .. M - 1 : kiosks[k] = FALSE
      BY <2>1, FreeKioskExists DEF Goto, IInv, TypeOK
    <3>2. M \in Nat
      OBVIOUS
    <3> QED
      BY <3>1, <3>2, GetIdxCorrect
  <2>5. check_in_count' \in 0 .. M
    BY <1>4, <1>1, <2>3 DEF IInv, TypeOK, CountersAgree, Find
  <2> DEFINE i == get_idx(kiosks, M, FALSE)
  <2>6. assigned_kiosk' = [assigned_kiosk EXCEPT ![p] = i]
    BY <1>4 DEF Find
  <2>7. i \in 0 .. M - 1 /\ kiosks[i] = FALSE
    BY <2>4
  <2> HIDE DEF i
  <2>8. /\ assigned_kiosk' \in [Passenger -> -1 .. M - 1]
        /\ assigned_kiosk'[p] \in 0 .. M - 1
        /\ kiosks[assigned_kiosk'[p]] = FALSE
        /\ \A q \in Passenger : q # p => assigned_kiosk'[q] = assigned_kiosk[q]
    BY <2>6, <2>7 DEF IInv, TypeOK
  <2>9. TypeOK'
    BY <1>4, <2>5, <2>8 DEF IInv, TypeOK, Find, Goto, Labels
  <2>10. \A q \in Passenger : pc'[q] = IF q = p THEN "ci_take" ELSE pc[q]
    BY <2>1 DEF Goto
  <2>11. MutexOK'
    BY <1>4, <2>1, <2>10 DEF IInv, MutexOK, Find, Goto, Locked, At, ThreadsAt
  <2>12. KioskFound'
    <3>1. At({"ci_take"}) = {}
      BY <2>1 DEF IInv, MutexOK, Goto, Locked, At, ThreadsAt
    <3>2. At({"ci_take"})' = {p}
      BY <2>10, <3>1 DEF At, ThreadsAt
    <3>3. kiosks' = kiosks
      BY <1>4 DEF Find
    <3> QED
      BY <2>8, <3>2, <3>3 DEF KioskFound
  <2>13. KiosksMatchPassengers'
    <3>1. Served' = Served /\ p \notin Served
      BY <2>1, <2>10 DEF Goto, Served, At, ThreadsAt
    <3>2. kiosks' = kiosks /\ Served \subseteq Passenger
      BY <1>4 DEF Find, Served, At, ThreadsAt
    <3> QED
      BY <2>8, <3>1, <3>2 DEF IInv, KiosksMatchPassengers
  <2> QED
    BY <2>3, <2>9, <2>11, <2>12, <2>13 DEF IInv
<1>5. ASSUME NEW p \in Passenger, Take(p) PROVE IInv'
  <2>1. Goto(p, "ci_take", "ci_serve") /\ pc \in [Passenger -> Labels]
    BY <1>5 DEF Take, IInv, TypeOK
  <2>2. Cardinality(Inside') = Cardinality(Inside) /\ Cardinality(Counted') = Cardinality(Counted)
    BY <2>1, LabelSets, AtAfterStep DEF Inside, Counted
  <2>3. CountersAgree'
    BY <1>5, <1>1, <2>2 DEF IInv, TypeOK, CountersAgree, Take
  <2>4. TypeOK'
    BY <1>5, <1>1, <2>3 DEF IInv, TypeOK, CountersAgree, Take, Goto, Labels
  <2>5. MutexOK' /\ KioskFound' /\ KiosksMatchPassengers'
    BY <1>5 DEF IInv, TypeOK, MutexOK, KioskFound, KiosksMatchPassengers,
                Take, Goto, Locked, Served, At, ThreadsAt
  <2> QED
    BY <2>3, <2>4, <2>5 DEF IInv
<1>6. ASSUME NEW p \in Passenger, LockOut(p) PROVE IInv'
  <2>1. Goto(p, "ci_serve", "ci_vacate") /\ pc \in [Passenger -> Labels]
    BY <1>6 DEF LockOut, IInv, TypeOK
  <2>2. Cardinality(Inside') = Cardinality(Inside) /\ Cardinality(Counted') = Cardinality(Counted)
    BY <2>1, LabelSets, AtAfterStep DEF Inside, Counted
  <2>3. CountersAgree'
    BY <1>6, <1>1, <2>2 DEF IInv, TypeOK, CountersAgree, LockOut
  <2>4. TypeOK'
    BY <1>6, <1>1, <2>3 DEF IInv, TypeOK, CountersAgree, LockOut, Goto, Labels
  <2>5. MutexOK' /\ KioskFound' /\ KiosksMatchPassengers'
    BY <1>6 DEF IInv, TypeOK, MutexOK, KioskFound, KiosksMatchPassengers,
                LockOut, Goto, Locked, Served, At, ThreadsAt
  <2> QED
    BY <2>3, <2>4, <2>5 DEF IInv
<1>7. ASSUME NEW p \in Passenger, Vacate(p) PROVE IInv'
  <2>1. Goto(p, "ci_vacate", "ci_post") /\ pc \in [Passenger -> Labels]
    BY <1>7 DEF Vacate, IInv, TypeOK
  <2>2. Cardinality(Inside') = Cardinality(Inside) /\ Cardinality(Counted') = Cardinality(Counted) - 1
    BY <2>1, LabelSets, AtAfterStep DEF Inside, Counted
  <2>3. CountersAgree'
    BY <1>7, <1>1, <2>2 DEF IInv, TypeOK, CountersAgree, Vacate
  <2>4. check_in_count' \in 0 .. M
    BY <1>7, <1>1, <2>3 DEF IInv, TypeOK, CountersAgree, Vacate
  <2>5. TypeOK'
    BY <1>7, <2>4 DEF IInv, TypeOK, Vacate, Goto, Labels
  <2>6. MutexOK' /\ KioskFound' /\ KiosksMatchPassengers'
    BY <1>7 DEF IInv, TypeOK, MutexOK, KioskFound, KiosksMatchPassengers,
                Vacate, Goto, Locked, Served, At, ThreadsAt
  <2> QED
    BY <2>3, <2>5, <2>6 DEF IInv
<1>8. ASSUME NEW p \in Passenger, Post(p) PROVE IInv'
  <2>1. Goto(p, "ci_post", "ci_done") /\ pc \in [Passenger -> Labels]
    BY <1>8 DEF Post, IInv, TypeOK
  <2>2. Cardinality(Inside') = Cardinality(Inside) - 1 /\ Cardinality(Counted') = Cardinality(Counted)
    BY <2>1, LabelSets, AtAfterStep DEF Inside, Counted
  <2>3. CountersAgree'
    BY <1>8, <1>1, <2>2 DEF IInv, TypeOK, CountersAgree, Post
  <2>4. TypeOK'
    BY <1>8, <1>1, <2>3 DEF IInv, TypeOK, CountersAgree, Post, Goto, Labels
  <2>5. MutexOK' /\ KioskFound' /\ KiosksMatchPassengers'
    BY <1>8 DEF IInv, TypeOK, MutexOK, KioskFound, KiosksMatchPassengers,
                Post, Goto, Locked, Served, At, ThreadsAt
  <2> QED
    BY <2>3, <2>4, <2>5 DEF IInv
<1>9. CASE UNCHANGED vars
  BY <1>9 DEF IInv, TypeOK, MutexOK, KioskFound, KiosksMatchPassengers, CountersAgree,
              vars, pool, Inside, Counted, Locked, Served, At
<1> QED
  BY <1>2, <1>3, <1>4, <1>5, <1>6, <1>7, <1>8, <1>9
     DEF Next, check_in

\* The invariant holds in every reachable state.
THEOREM Invariance == Spec => []IInv
BY InitIInv, NextIInv, PTL DEF Spec

\* The variables of check_in keep their types: the semaphore and the count of
\* occupied kiosks never leave 0 .. M, though the code never tests them.
THEOREM TypeCorrect == Spec => []TypeOK
<1>1. IInv => TypeOK
  BY DEF IInv
<1> QED
  BY <1>1, Invariance, PTL

\* get_idx never returns -1 to check_in: whoever passes the semaphore finds a
\* free kiosk, and keeps it to itself.
THEOREM KioskFoundAlways == Spec => []KioskFound
<1>1. IInv => KioskFound
  BY DEF IInv
<1> QED
  BY <1>1, Invariance, PTL

\* The array kiosks always describes who is being served where.
THEOREM KiosksAlwaysMatch == Spec => []KiosksMatchPassengers
<1>1. IInv => KiosksMatchPassengers
  BY DEF IInv
<1> QED
  BY <1>1, Invariance, PTL

\* The semaphore and the count always agree with the passengers inside.
THEOREM CountersAlwaysAgree == Spec => []CountersAgree
<1>1. IInv => CountersAgree
  BY DEF IInv
<1> QED
  BY <1>1, Invariance, PTL

-----------------------------------------------------------------------------

\* check_in implements the abstract pool of M slots: every step of a thread
\* gives a free kiosk, takes one back, or is invisible to the pool.
THEOREM ImplementsPool == Spec => PoolSpec
<1> DEFINE held == [p \in Passenger |-> IF p \in Served THEN assigned_kiosk[p] ELSE -1]
<1>1. Init => Pool!Init
  BY DEF Init, InitPool, Pool!Init, Pool!NoSlot, Served, At, ThreadsAt
<1>2. IInv /\ [Next]_vars => [Pool!Next]_held
  <2> SUFFICES ASSUME IInv, [Next]_vars PROVE Pool!Next \/ held' = held
    OBVIOUS
  <2>1. ASSUME NEW p \in Passenger, Take(p) PROVE Pool!Next
    <3>1. /\ p \notin Served /\ Served' = Served \cup {p} /\ Served \subseteq Passenger
          /\ assigned_kiosk' = assigned_kiosk
      BY <2>1 DEF Take, Goto, IInv, TypeOK, Served, At, ThreadsAt
    <3>2. assigned_kiosk[p] \in 0 .. M - 1 /\ kiosks[assigned_kiosk[p]] = FALSE
      BY <2>1 DEF Take, Goto, IInv, TypeOK, KioskFound, At, ThreadsAt
    <3>3. \A q \in Served : assigned_kiosk[q] # assigned_kiosk[p]
      BY <3>2 DEF IInv, KiosksMatchPassengers
    <3>4. held[p] = -1 /\ held' = [held EXCEPT ![p] = assigned_kiosk[p]]
      BY <3>1
    <3>5. \A q \in Passenger : held[q] # assigned_kiosk[p]
      BY <3>2, <3>3
    <3> QED
      BY <3>2, <3>4, <3>5 DEF Pool!Next, Pool!Acquire, Pool!NoSlot
  <2>2. ASSUME NEW p \in Passenger, Vacate(p) PROVE Pool!Next
    <3>1. /\ p \in Served /\ Served' = Served \ {p} /\ Served \subseteq Passenger
          /\ assigned_kiosk' = assigned_kiosk
      BY <2>2 DEF Vacate, Goto, IInv, TypeOK, Served, At, ThreadsAt
    <3>2. held[p] # -1 /\ held' = [held EXCEPT ![p] = -1]
      BY <3>1 DEF IInv, KiosksMatchPassengers
    <3> QED
      BY <3>2 DEF Pool!Next, Pool!Release, Pool!NoSlot
  <2>3. ASSUME NEW p \in Passenger,
               Claim(p) \/ LockIn(p) \/ Find(p) \/ LockOut(p) \/ Post(p)
        PROVE  held' = held
    <3>1. Served' = Served
      BY <2>3 DEF Claim, LockIn, Find, LockOut, Post, Goto, IInv, TypeOK, Served, At, ThreadsAt
    <3>2. \A q \in Served : assigned_kiosk'[q] = assigned_kiosk[q]
      BY <2>3 DEF Claim, LockIn, Find, LockOut, Post, Goto, IInv, TypeOK, Served, At, ThreadsAt
    <3> QED
      BY <3>1, <3>2
  <2>4. CASE UNCHANGED vars
    BY <2>4 DEF vars, pool, Served, At, ThreadsAt
  <2> QED
    BY <2>1, <2>2, <2>3, <2>4 DEF Next, check_in
<1> QED
  BY <1>1, <1>2, Invariance, PTL DEF Spec, PoolSpec, Pool!Spec
=============================================================================
