------------------------ MODULE SecurityCheckProofs -------------------------
(***************************************************************************)
(* Proofs about the belts, for every finite set of passengers, every       *)
(* number N > 0 of belts and every number P > 0 of places on a belt.       *)
(***************************************************************************)
EXTENDS SecurityCheck, HelperTheorems

-----------------------------------------------------------------------------
(* Whole groups of P passengers. *)

LEMMA DivMod ==
    ASSUME NEW a \in Nat, NEW b \in Nat \ {0}
    PROVE  /\ a \div b \in Nat /\ a % b \in 0 .. b - 1
           /\ a = (b * (a \div b)) + (a % b)
OBVIOUS

\* Quotient and remainder are unique.
LEMMA DivUnique ==
    ASSUME NEW b \in Nat \ {0}, NEW q \in Int, NEW s \in Int,
           NEW r \in 0 .. b - 1, NEW t \in 0 .. b - 1,
           (b * q) + r = (b * s) + t
    PROVE  q = s /\ r = t
<1>1. b * (q - s) = t - r
  OBVIOUS
<1>2. ~(q - s >= 1)
  <2> SUFFICES ASSUME q - s >= 1 PROVE FALSE
    OBVIOUS
  <2>1. b * (q - s) >= b
    OBVIOUS
  <2> QED
    BY <1>1, <2>1
<1>3. ~(q - s <= -1)
  <2> SUFFICES ASSUME q - s <= -1 PROVE FALSE
    OBVIOUS
  <2>1. b * (q - s) <= -b
    OBVIOUS
  <2> QED
    BY <1>1, <2>1
<1> QED
  BY <1>1, <1>2, <1>3

\* The number of whole groups grows with the passenger that completes one.
LEMMA DivSucc ==
    ASSUME NEW a \in Nat, NEW b \in Nat \ {0}
    PROVE  (a + 1) \div b = (a \div b) + (IF (a + 1) % b = 0 THEN 1 ELSE 0)
<1> DEFINE q == a \div b
           r == a % b
           s == (a + 1) \div b
           t == (a + 1) % b
<1>1. q \in Int /\ r \in 0 .. b - 1 /\ a = (b * q) + r
  BY DivMod
<1>2. s \in Int /\ t \in 0 .. b - 1 /\ a + 1 = (b * s) + t
  <2>1. a + 1 \in Nat
    OBVIOUS
  <2> QED
    BY <2>1, DivMod
<1> HIDE DEF q, r, s, t
<1>3. CASE t = 0
  <2>1. b - 1 \in 0 .. b - 1 /\ s - 1 \in Int
    BY <1>2
  <2>2. b * (s - 1) = (b * s) - b
    BY <1>2
  <2>3. (b * q) + r = (b * (s - 1)) + (b - 1)
    BY <1>1, <1>2, <1>3, <2>2
  <2>4. q = s - 1
    BY <1>1, <2>1, <2>3, DivUnique
  <2> QED
    BY <1>1, <1>2, <1>3, <2>4 DEF q, s, t
<1>4. CASE t # 0
  <2>1. t - 1 \in 0 .. b - 1
    BY <1>2, <1>4
  <2>2. (b * q) + r = (b * s) + (t - 1)
    BY <1>1, <1>2
  <2>3. q = s
    BY <1>1, <1>2, <2>1, <2>2, DivUnique
  <2> QED
    BY <1>1, <1>2, <1>4, <2>3 DEF q, s, t
<1> QED
  BY <1>3, <1>4

\* N * P passengers are N whole groups.
LEMMA DivBound ==
    ASSUME NEW a \in Nat, NEW b \in Nat \ {0}, NEW n \in Nat, a <= n * b
    PROVE  a \div b \in 0 .. n
<1> DEFINE q == a \div b
           r == a % b
<1>1. q \in Nat /\ r \in 0 .. b - 1 /\ a = (b * q) + r
  BY DivMod
<1> HIDE DEF q, r
<1>2. ~(q >= n + 1)
  <2> SUFFICES ASSUME q >= n + 1 PROVE FALSE
    OBVIOUS
  <2>1. b * q >= b * (n + 1)
    BY <1>1
  <2>2. b * (n + 1) = (n * b) + b
    OBVIOUS
  <2>3. b * q \in Int /\ n * b \in Int
    BY <1>1
  <2> QED
    BY <1>1, <2>1, <2>2, <2>3
<1> QED
  BY <1>1, <1>2 DEF q

-----------------------------------------------------------------------------
(* Counting threads. *)

LEMMA Sizing == N * P \in Nat \ {0} /\ N \in Nat \ {0} /\ P \in Nat \ {0}
<1>1. N \in Nat \ {0} /\ P \in Nat \ {0}
  BY SecurityCheckAssumption
<1>2. \A x, y \in Nat \ {0} : x * y \in Nat \ {0}
  OBVIOUS
<1> QED
  BY <1>1, <1>2

\* The effect of a step of thread p on the numbers the invariant speaks of.
LEMMA AtAfterStep ==
    ASSUME NEW p \in Passenger, NEW from, NEW to, NEW L,
           pc \in [Passenger -> Labels], Goto(p, from, to)
    PROVE  /\ from \notin L /\ to \in L =>
                Cardinality(At(L)') = Cardinality(At(L)) + 1
           /\ from \in L /\ to \notin L =>
                Cardinality(At(L)') = Cardinality(At(L)) - 1
           /\ (from \in L <=> to \in L) =>
                Cardinality(At(L)') = Cardinality(At(L))
<1>1. pc[p] = from /\ Moved(Passenger, pc, pc', p, to)
  BY DEF Goto, Moved
<1>2. IsFiniteSet(Passenger)
  BY SecurityCheckAssumption
<1>3. from \notin L /\ to \in L => Cardinality(At(L)') = Cardinality(At(L)) + 1
  BY <1>1, <1>2, OneThreadMoves DEF At
<1>4. from \in L /\ to \notin L => Cardinality(At(L)') = Cardinality(At(L)) - 1
  BY <1>1, <1>2, OneThreadMoves DEF At
<1>5. (from \in L <=> to \in L) => Cardinality(At(L)') = Cardinality(At(L))
  BY <1>1, <1>2, OneThreadMoves DEF At
<1> QED
  BY <1>3, <1>4, <1>5

\* Which of the labels of security_check count for the semaphore and the counter.
LEMMA LabelSets ==
    /\ "sc_start" \notin InsideLabels /\ "sc_start" \notin CountedLabels
    /\ "sc_lock"    \in InsideLabels  /\ "sc_lock" \notin CountedLabels
    /\ "sc_find"    \in InsideLabels  /\ "sc_find" \notin CountedLabels
    /\ "sc_take"    \in InsideLabels  /\ "sc_take"    \in CountedLabels
    /\ "sc_semwait" \in InsideLabels  /\ "sc_semwait" \in CountedLabels
    /\ "sc_unlock"  \in InsideLabels  /\ "sc_unlock"  \in CountedLabels
    /\ "sc_serve"   \in InsideLabels  /\ "sc_serve"   \in CountedLabels
    /\ "sc_vacate"  \in InsideLabels  /\ "sc_vacate"  \in CountedLabels
    /\ "sc_sempost" \in InsideLabels  /\ "sc_sempost" \notin CountedLabels
    /\ "sc_post"    \in InsideLabels  /\ "sc_post" \notin CountedLabels
    /\ "sc_done" \notin InsideLabels  /\ "sc_done" \notin CountedLabels
BY DEF InsideLabels, CountedLabels

\* The numbers the counters are compared with are naturals, and everyone
\* counted has passed the semaphore.
LEMMA Sizes ==
    ASSUME NEW f
    PROVE  /\ Cardinality(ThreadsAt(Passenger, f, InsideLabels)) \in Nat
           /\ Cardinality(ThreadsAt(Passenger, f, CountedLabels)) \in Nat
           /\ Cardinality(ThreadsAt(Passenger, f, CountedLabels))
                <= Cardinality(ThreadsAt(Passenger, f, InsideLabels))
<1> DEFINE I == ThreadsAt(Passenger, f, InsideLabels)
           C == ThreadsAt(Passenger, f, CountedLabels)
<1>1. I \in SUBSET Passenger /\ C \in SUBSET I
  BY DEF ThreadsAt, InsideLabels, CountedLabels
<1> HIDE DEF I, C
<1>2. IsFiniteSet(I)
  BY <1>1, SecurityCheckAssumption, FS_Subset
<1>3. IsFiniteSet(C) /\ Cardinality(C) <= Cardinality(I)
  BY <1>1, <1>2, FS_Subset
<1> QED
  BY <1>2, <1>3, FS_CardinalityType DEF I, C

\* The pigeonhole argument: a passenger that the semaphore has admitted and
\* that holds no place yet leaves one of the N * P places free.
LEMMA FreePlaceExists ==
    ASSUME IInv, NEW p \in Passenger, pc[p] = "sc_find"
    PROVE  \E k \in Places : ~belts[k]
<1> SUFFICES ASSUME \A k \in Places : belts[k]
             PROVE  FALSE
  OBVIOUS
<1>1. N * P \in Nat \ {0} /\ IsFiniteSet(Passenger)
  BY Sizing, SecurityCheckAssumption
<1>2. /\ Served \in SUBSET Passenger /\ Inside \in SUBSET Passenger
      /\ p \notin Served /\ Served \cup {p} \in SUBSET Inside
  BY DEF Served, Inside, InsideLabels, At, ThreadsAt
<1>3. IsFiniteSet(Served) /\ IsFiniteSet(Inside)
  BY <1>1, <1>2, FS_Subset
<1>4. Cardinality(Served) \in Nat /\ Cardinality(Inside) \in Nat
  BY <1>3, FS_CardinalityType
<1>5. Cardinality(Served \cup {p}) = Cardinality(Served) + 1
  BY <1>2, <1>3, FS_AddElement
<1>6. Cardinality(Served \cup {p}) <= Cardinality(Inside)
  BY <1>2, <1>3, FS_Subset
<1> DEFINE K == N * P
<1>7. Cardinality(Inside) <= K
  <2>1. belt_empty \in Nat /\ belt_empty + Cardinality(Inside) = K /\ K \in Nat
    BY <1>1 DEF IInv, CountersAgree, TypeOK
  <2> HIDE DEF K
  <2> QED
    BY <1>4, <2>1
<1> DEFINE f == [q \in Served |-> assigned_belt[q]]
<1>8. f \in Surjection(Served, Places)
  <2>1. f \in [Served -> Places]
    <3>1. \A q \in Passenger : assigned_belt[q] \in -1 .. K - 1
      BY DEF IInv, TypeOK
    <3>2. \A q \in Served : assigned_belt[q] # -1
      BY DEF IInv, PlacesMatchPassengers
    <3>3. K \in Nat /\ Places = 0 .. K - 1
      BY <1>1 DEF Places
    <3> HIDE DEF K
    <3> QED
      BY <1>2, <3>1, <3>2, <3>3
  <2>2. \A k \in Places : \E q \in Served : f[q] = k
    BY DEF IInv, PlacesMatchPassengers
  <2> QED
    BY <2>1, <2>2 DEF Surjection
<1>9. Cardinality(Places) <= Cardinality(Served)
  BY <1>3, <1>8, FS_Surjection
<1>10. Cardinality(Places) = K
  <2>1. K \in Nat \ {0} /\ Places = 0 .. K - 1
    BY <1>1 DEF Places
  <2> HIDE DEF K
  <2>2. 0 \in Int /\ K - 1 \in Int /\ ~(0 > K - 1) /\ (K - 1) - 0 + 1 = K
    BY <2>1
  <2> QED
    BY <2>1, <2>2, FS_Interval
<1>11. K \in Nat
  BY <1>1
<1> HIDE DEF K
<1> QED
  BY <1>4, <1>5, <1>6, <1>7, <1>9, <1>10, <1>11

-----------------------------------------------------------------------------
(* The invariant. *)

\* The invariant holds when the threads start.
LEMMA InitIInv == Init => IInv
<1> SUFFICES ASSUME Init PROVE IInv
  OBVIOUS
<1> USE DEF Init, InitPool
<1>1. N * P \in Nat \ {0} /\ N \in Nat \ {0} /\ P \in Nat \ {0}
  BY Sizing
<1>2. TypeOK
  <2>1. pc \in [Passenger -> Labels]
    BY DEF Labels
  <2> DEFINE K == N * P
  <2>2. K \in 0 .. K /\ 0 \in 0 .. K /\ -1 \in -1 .. K - 1 /\ N \in 0 .. N
    <3>1. K \in Nat
      BY <1>1
    <3> HIDE DEF K
    <3> QED
      BY <1>1, <3>1
  <2>3. belts \in [Places -> BOOLEAN] /\ assigned_belt \in [Passenger -> -1 .. K - 1]
    BY <2>2
  <2> QED
    BY <2>1, <2>2, <2>3 DEF TypeOK
<1>3. /\ Inside = {} /\ Locked = {} /\ Counted = {} /\ Served = {}
      /\ At({"sc_take"}) = {} /\ At({"sc_semwait"}) = {}
      /\ At({"sc_take", "sc_semwait"}) = {} /\ At({"sc_sempost"}) = {}
  BY DEF Inside, InsideLabels, Locked, LockedLabels, Counted, CountedLabels, Served, At, ThreadsAt
<1>4. CountersAgree
  BY <1>1, <1>3, FS_EmptySet DEF CountersAgree
<1>5. BeltSemaphore
  <2>1. Owed = 0
    BY <1>3 DEF Owed
  <2>2. 0 \div P = 0
    BY <1>1
  <2> QED
    BY <1>1, <2>1, <2>2 DEF BeltSemaphore
<1> QED
  BY <1>2, <1>3, <1>4, <1>5
     DEF IInv, MutexOK, WaitDecided, PlaceFound, PlacesMatchPassengers

\* What a thread in a protected block knows: it is alone there.
LEMMA Alone ==
    ASSUME IInv, NEW p \in Passenger, pc[p] \in LockedLabels
    PROVE  /\ belts_count_mutex
           /\ \A q \in Passenger : q # p => pc[q] \notin LockedLabels
BY DEF IInv, MutexOK, Locked, At, ThreadsAt

\* Every step of every thread preserves the invariant.
LEMMA NextIInv == IInv /\ [Next]_vars => IInv'
<1> SUFFICES ASSUME IInv, [Next]_vars PROVE IInv'
  OBVIOUS
<1>0. N * P \in Nat \ {0} /\ N \in Nat \ {0} /\ P \in Nat \ {0}
  BY Sizing
<1>1. /\ Cardinality(Inside) \in Nat /\ Cardinality(Counted) \in Nat
      /\ Cardinality(Inside') \in Nat /\ Cardinality(Counted') \in Nat
      /\ Cardinality(Counted') <= Cardinality(Inside')
  BY Sizes DEF Inside, Counted, At
<1>2. ASSUME NEW p \in Passenger, Claim(p) PROVE IInv'
  <2>1. Goto(p, "sc_start", "sc_lock") /\ pc \in [Passenger -> Labels]
    BY <1>2 DEF Claim, Goto, IInv, TypeOK
  <2>2. /\ Cardinality(Inside') = Cardinality(Inside) + 1
        /\ Cardinality(Counted') = Cardinality(Counted)
    BY <2>1, LabelSets, AtAfterStep DEF Inside, Counted
  <2>3. CountersAgree'
    BY <1>2, <1>0, <1>1, <2>2 DEF IInv, TypeOK, CountersAgree, Claim
  <2>4. /\ pc[p] = "sc_start" /\ pc'[p] = "sc_lock"
        /\ \A q \in Passenger : q # p => pc'[q] = pc[q]
    BY <2>1 DEF Goto
  <2>5. TypeOK'
    BY <1>2, <1>0, <1>1, <2>3 DEF IInv, TypeOK, CountersAgree, Claim, Goto, Labels
  <2>6. MutexOK' /\ PlaceFound' /\ PlacesMatchPassengers'
    BY <1>2, <2>4 DEF IInv, TypeOK, MutexOK, PlaceFound, PlacesMatchPassengers,
                     Claim, Locked, LockedLabels, Served, At, ThreadsAt
  <2>7. /\ At({"sc_semwait"})' = At({"sc_semwait"})
        /\ At({"sc_take", "sc_semwait"})' = At({"sc_take", "sc_semwait"})
        /\ At({"sc_sempost"})' = At({"sc_sempost"})
        /\ belts_count' = belts_count /\ sec_check_empty' = sec_check_empty
    BY <1>2, <2>4 DEF Claim, At, ThreadsAt
  <2>8. WaitDecided' /\ BeltSemaphore'
    BY <2>7 DEF IInv, WaitDecided, BeltSemaphore, Owed
  <2> QED
    BY <2>3, <2>5, <2>6, <2>8 DEF IInv
<1>3. ASSUME NEW p \in Passenger, LockIn(p) PROVE IInv'
  <2>1. Goto(p, "sc_lock", "sc_find") /\ pc \in [Passenger -> Labels]
    BY <1>3 DEF LockIn, Goto, IInv, TypeOK
  <2>2. /\ Cardinality(Inside') = Cardinality(Inside)
        /\ Cardinality(Counted') = Cardinality(Counted)
    BY <2>1, LabelSets, AtAfterStep DEF Inside, Counted
  <2>3. CountersAgree'
    BY <1>3, <1>0, <1>1, <2>2 DEF IInv, TypeOK, CountersAgree, LockIn
  <2>4. /\ pc[p] = "sc_lock" /\ pc'[p] = "sc_find"
        /\ \A q \in Passenger : q # p => pc'[q] = pc[q]
    BY <2>1 DEF Goto
  <2>5. TypeOK'
    BY <1>3, <1>0, <1>1, <2>3 DEF IInv, TypeOK, CountersAgree, LockIn, Goto, Labels
  <2>6. MutexOK' /\ PlaceFound' /\ PlacesMatchPassengers'
    BY <1>3, <2>4 DEF IInv, TypeOK, MutexOK, PlaceFound, PlacesMatchPassengers,
                     LockIn, Locked, LockedLabels, Served, At, ThreadsAt
  <2>7. /\ At({"sc_semwait"})' = At({"sc_semwait"})
        /\ At({"sc_take", "sc_semwait"})' = At({"sc_take", "sc_semwait"})
        /\ At({"sc_sempost"})' = At({"sc_sempost"})
        /\ belts_count' = belts_count /\ sec_check_empty' = sec_check_empty
    BY <1>3, <2>4 DEF LockIn, At, ThreadsAt
  <2>8. WaitDecided' /\ BeltSemaphore'
    BY <2>7 DEF IInv, WaitDecided, BeltSemaphore, Owed
  <2> QED
    BY <2>3, <2>5, <2>6, <2>8 DEF IInv
<1>4. ASSUME NEW p \in Passenger, UnlockIn(p) PROVE IInv'
  <2>1. Goto(p, "sc_unlock", "sc_serve") /\ pc \in [Passenger -> Labels]
    BY <1>4 DEF UnlockIn, Goto, IInv, TypeOK
  <2>2. /\ Cardinality(Inside') = Cardinality(Inside)
        /\ Cardinality(Counted') = Cardinality(Counted)
    BY <2>1, LabelSets, AtAfterStep DEF Inside, Counted
  <2>3. CountersAgree'
    BY <1>4, <1>0, <1>1, <2>2 DEF IInv, TypeOK, CountersAgree, UnlockIn
  <2>4. /\ pc[p] = "sc_unlock" /\ pc'[p] = "sc_serve"
        /\ \A q \in Passenger : q # p => pc'[q] = pc[q]
    BY <2>1 DEF Goto
  <2>5. TypeOK'
    BY <1>4, <1>0, <1>1, <2>3 DEF IInv, TypeOK, CountersAgree, UnlockIn, Goto, Labels
  <2>6. MutexOK' /\ PlaceFound' /\ PlacesMatchPassengers'
    BY <1>4, <2>4 DEF IInv, TypeOK, MutexOK, PlaceFound, PlacesMatchPassengers,
                     UnlockIn, Locked, LockedLabels, Served, At, ThreadsAt
  <2>7. /\ At({"sc_semwait"})' = At({"sc_semwait"})
        /\ At({"sc_take", "sc_semwait"})' = At({"sc_take", "sc_semwait"})
        /\ At({"sc_sempost"})' = At({"sc_sempost"})
        /\ belts_count' = belts_count /\ sec_check_empty' = sec_check_empty
    BY <1>4, <2>4 DEF UnlockIn, At, ThreadsAt
  <2>8. WaitDecided' /\ BeltSemaphore'
    BY <2>7 DEF IInv, WaitDecided, BeltSemaphore, Owed
  <2> QED
    BY <2>3, <2>5, <2>6, <2>8 DEF IInv
<1>5. ASSUME NEW p \in Passenger, LockOut(p) PROVE IInv'
  <2>1. Goto(p, "sc_serve", "sc_vacate") /\ pc \in [Passenger -> Labels]
    BY <1>5 DEF LockOut, Goto, IInv, TypeOK
  <2>2. /\ Cardinality(Inside') = Cardinality(Inside)
        /\ Cardinality(Counted') = Cardinality(Counted)
    BY <2>1, LabelSets, AtAfterStep DEF Inside, Counted
  <2>3. CountersAgree'
    BY <1>5, <1>0, <1>1, <2>2 DEF IInv, TypeOK, CountersAgree, LockOut
  <2>4. /\ pc[p] = "sc_serve" /\ pc'[p] = "sc_vacate"
        /\ \A q \in Passenger : q # p => pc'[q] = pc[q]
    BY <2>1 DEF Goto
  <2>5. TypeOK'
    BY <1>5, <1>0, <1>1, <2>3 DEF IInv, TypeOK, CountersAgree, LockOut, Goto, Labels
  <2>6. MutexOK' /\ PlaceFound' /\ PlacesMatchPassengers'
    BY <1>5, <2>4 DEF IInv, TypeOK, MutexOK, PlaceFound, PlacesMatchPassengers,
                     LockOut, Locked, LockedLabels, Served, At, ThreadsAt
  <2>7. /\ At({"sc_semwait"})' = At({"sc_semwait"})
        /\ At({"sc_take", "sc_semwait"})' = At({"sc_take", "sc_semwait"})
        /\ At({"sc_sempost"})' = At({"sc_sempost"})
        /\ belts_count' = belts_count /\ sec_check_empty' = sec_check_empty
    BY <1>5, <2>4 DEF LockOut, At, ThreadsAt
  <2>8. WaitDecided' /\ BeltSemaphore'
    BY <2>7 DEF IInv, WaitDecided, BeltSemaphore, Owed
  <2> QED
    BY <2>3, <2>5, <2>6, <2>8 DEF IInv
<1>6. ASSUME NEW p \in Passenger, Post(p) PROVE IInv'
  <2>1. Goto(p, "sc_post", "sc_done") /\ pc \in [Passenger -> Labels]
    BY <1>6 DEF Post, Goto, IInv, TypeOK
  <2>2. /\ Cardinality(Inside') = Cardinality(Inside) - 1
        /\ Cardinality(Counted') = Cardinality(Counted)
    BY <2>1, LabelSets, AtAfterStep DEF Inside, Counted
  <2>3. CountersAgree'
    BY <1>6, <1>0, <1>1, <2>2 DEF IInv, TypeOK, CountersAgree, Post
  <2>4. /\ pc[p] = "sc_post" /\ pc'[p] = "sc_done"
        /\ \A q \in Passenger : q # p => pc'[q] = pc[q]
    BY <2>1 DEF Goto
  <2>5. TypeOK'
    BY <1>6, <1>0, <1>1, <2>3 DEF IInv, TypeOK, CountersAgree, Post, Goto, Labels
  <2>6. MutexOK' /\ PlaceFound' /\ PlacesMatchPassengers'
    BY <1>6, <2>4 DEF IInv, TypeOK, MutexOK, PlaceFound, PlacesMatchPassengers,
                     Post, Locked, LockedLabels, Served, At, ThreadsAt
  <2>7. /\ At({"sc_semwait"})' = At({"sc_semwait"})
        /\ At({"sc_take", "sc_semwait"})' = At({"sc_take", "sc_semwait"})
        /\ At({"sc_sempost"})' = At({"sc_sempost"})
        /\ belts_count' = belts_count /\ sec_check_empty' = sec_check_empty
    BY <1>6, <2>4 DEF Post, At, ThreadsAt
  <2>8. WaitDecided' /\ BeltSemaphore'
    BY <2>7 DEF IInv, WaitDecided, BeltSemaphore, Owed
  <2> QED
    BY <2>3, <2>5, <2>6, <2>8 DEF IInv
<1>7. ASSUME NEW p \in Passenger, Find(p) PROVE IInv'
  <2>1. Goto(p, "sc_find", "sc_take") /\ pc \in [Passenger -> Labels]
    BY <1>7 DEF Find, Goto, IInv, TypeOK
  <2>2. /\ Cardinality(Inside') = Cardinality(Inside)
        /\ Cardinality(Counted') = Cardinality(Counted) + 1
    BY <2>1, LabelSets, AtAfterStep DEF Inside, Counted
  <2>3. CountersAgree'
    BY <1>7, <1>0, <1>1, <2>2 DEF IInv, TypeOK, CountersAgree, Find
  <2>4. /\ pc[p] = "sc_find" /\ pc'[p] = "sc_take"
        /\ \A q \in Passenger : q # p => pc'[q] = pc[q]
    BY <2>1 DEF Goto
  <2>5. \A q \in Passenger : q # p => pc[q] \notin LockedLabels
    BY <2>4, Alone DEF LockedLabels
  <2>6. \E k \in Places : belts[k] = FALSE
    BY <2>4, FreePlaceExists DEF IInv, TypeOK
  <2> DEFINE i == get_idx(belts, N * P, FALSE)
  <2>7. i \in Places /\ belts[i] = FALSE
    <3>1. N * P \in Nat /\ \E k \in 0 .. N * P - 1 : belts[k] = FALSE
      BY <1>0, <2>6 DEF Places
    <3> QED
      BY <3>1, GetIdxCorrect DEF Places
  <2>8. assigned_belt' = [assigned_belt EXCEPT ![p] = i] /\ belts' = belts
    BY <1>7 DEF Find
  <2> HIDE DEF i
  <2>9. /\ assigned_belt' \in [Passenger -> -1 .. N * P - 1]
        /\ assigned_belt'[p] = i
        /\ \A q \in Passenger : q # p => assigned_belt'[q] = assigned_belt[q]
    <3>1. i \in -1 .. N * P - 1
      BY <1>0, <2>7 DEF Places
    <3> QED
      BY <2>8, <3>1 DEF IInv, TypeOK
  <2>10. belts_count' \in 0 .. N * P
    BY <1>7, <1>0, <1>1, <2>3 DEF IInv, TypeOK, CountersAgree, Find
  <2>11. TypeOK'
    BY <1>7, <2>9, <2>10 DEF IInv, TypeOK, Find, Goto, Labels
  <2>12. MutexOK'
    BY <1>7, <2>4, <2>5 DEF IInv, MutexOK, Find, Locked, LockedLabels, At, ThreadsAt
  <2>13. /\ At({"sc_take"})' = {p} /\ At({"sc_semwait"})' = {}
         /\ At({"sc_take", "sc_semwait"}) = {} /\ At({"sc_take", "sc_semwait"})' = {p}
         /\ At({"sc_sempost"}) = {} /\ At({"sc_sempost"})' = {}
    BY <2>4, <2>5 DEF LockedLabels, At, ThreadsAt
  <2>14. PlaceFound' /\ WaitDecided'
    <3>1. i # -1
      BY <2>7 DEF Places
    <3> QED
      BY <2>7, <2>8, <2>9, <2>13, <3>1 DEF PlaceFound, WaitDecided
  <2>15. PlacesMatchPassengers'
    <3>1. Served' = Served /\ p \notin Served /\ Served \subseteq Passenger
      BY <2>4 DEF Served, At, ThreadsAt
    <3> QED
      BY <2>8, <2>9, <3>1 DEF IInv, PlacesMatchPassengers
  <2>16. BeltSemaphore'
    <3>1. belts_count \in Nat /\ belts_count' = belts_count + 1 /\ sec_check_empty' = sec_check_empty
      BY <1>7, <1>0 DEF IInv, TypeOK, Find
    <3>2. sec_check_empty = N - (belts_count \div P)
      <4>1. Owed = 0
        BY <2>13 DEF Owed
      <4>2. belts_count \div P \in Int
        BY <1>0, <3>1, DivMod
      <4> QED
        BY <1>0, <4>1, <4>2 DEF IInv, BeltSemaphore
    <3>3. Owed' = IF (belts_count + 1) % P = 0 THEN 1 ELSE 0
      BY <2>13, <3>1 DEF Owed
    <3>4. /\ belts_count' \div P = (belts_count \div P) + (IF (belts_count + 1) % P = 0 THEN 1 ELSE 0)
          /\ belts_count \div P \in Int
      <4>1. (belts_count + 1) \div P = (belts_count \div P) + (IF (belts_count + 1) % P = 0 THEN 1 ELSE 0)
        BY <1>0, <3>1, DivSucc, Zenon
      <4>2. belts_count \div P \in Int
        BY <1>0, <3>1, DivMod
      <4> QED
        BY <3>1, <4>1, <4>2
    <3> QED
      BY <1>0, <3>1, <3>2, <3>3, <3>4 DEF BeltSemaphore
  <2> QED
    BY <2>3, <2>11, <2>12, <2>14, <2>15, <2>16 DEF IInv
<1>8. ASSUME NEW p \in Passenger, Take(p), belts_count % P = 0 PROVE IInv'
  <2>1. Goto(p, "sc_take", "sc_semwait") /\ pc \in [Passenger -> Labels]
    BY <1>8 DEF Take, Goto, IInv, TypeOK
  <2>2. /\ Cardinality(Inside') = Cardinality(Inside)
        /\ Cardinality(Counted') = Cardinality(Counted)
    BY <2>1, LabelSets, AtAfterStep DEF Inside, Counted
  <2>3. CountersAgree'
    BY <1>8, <1>0, <1>1, <2>2 DEF IInv, TypeOK, CountersAgree, Take
  <2>4. /\ pc[p] = "sc_take" /\ pc'[p] = "sc_semwait"
        /\ \A q \in Passenger : q # p => pc'[q] = pc[q]
    BY <2>1 DEF Goto
  <2>5. \A q \in Passenger : q # p => pc[q] \notin LockedLabels
    BY <2>4, Alone DEF LockedLabels
  <2>6. TypeOK'
    BY <1>8, <1>0, <1>1, <2>3 DEF IInv, TypeOK, CountersAgree, Take, Goto, Labels
  <2>7. MutexOK' /\ PlaceFound' /\ PlacesMatchPassengers'
    <3>1. MutexOK'
      BY <1>8, <2>4, <2>5 DEF IInv, MutexOK, Take, Locked, LockedLabels, At, ThreadsAt
    <3>2. PlaceFound'
      BY <2>4, <2>5 DEF PlaceFound, LockedLabels, At, ThreadsAt
    <3>3. /\ Served' = Served \cup {p} /\ p \notin Served /\ Served \subseteq Passenger
          /\ assigned_belt' = assigned_belt
      BY <1>8, <2>4 DEF Take, Served, At, ThreadsAt
    <3>4. assigned_belt[p] \in Places /\ belts[assigned_belt[p]] = FALSE
      <4>1. assigned_belt[p] # -1 /\ belts[assigned_belt[p]] = FALSE
        BY <2>4 DEF IInv, PlaceFound, At, ThreadsAt
      <4>2. assigned_belt[p] \in -1 .. N * P - 1
        BY DEF IInv, TypeOK
      <4> QED
        BY <1>0, <4>1, <4>2 DEF Places
    <3>5. assigned_belt[p] # -1
      BY <3>4 DEF Places
    <3>6. \A k \in Places : belts'[k] = (IF k = assigned_belt[p] THEN TRUE ELSE belts[k])
      BY <1>8 DEF Take, IInv, TypeOK
    <3>7. PlacesMatchPassengers'
      BY <3>3, <3>4, <3>5, <3>6 DEF IInv, PlacesMatchPassengers
    <3> QED
      BY <3>1, <3>2, <3>7
  <2>8. /\ At({"sc_semwait"})' = {p}
        /\ At({"sc_take", "sc_semwait"}) = {p} /\ At({"sc_take", "sc_semwait"})' = {p}
        /\ At({"sc_sempost"}) = {} /\ At({"sc_sempost"})' = {}
        /\ belts_count' = belts_count /\ sec_check_empty' = sec_check_empty
    BY <1>8, <2>4, <2>5 DEF Take, LockedLabels, At, ThreadsAt
  <2>9. WaitDecided' /\ BeltSemaphore'
    BY <1>8, <2>8 DEF IInv, WaitDecided, BeltSemaphore, Owed
  <2> QED
    BY <2>3, <2>6, <2>7, <2>9 DEF IInv
<1>9. ASSUME NEW p \in Passenger, Take(p), belts_count % P # 0 PROVE IInv'
  <2>1. Goto(p, "sc_take", "sc_unlock") /\ pc \in [Passenger -> Labels]
    BY <1>9 DEF Take, Goto, IInv, TypeOK
  <2>2. /\ Cardinality(Inside') = Cardinality(Inside)
        /\ Cardinality(Counted') = Cardinality(Counted)
    BY <2>1, LabelSets, AtAfterStep DEF Inside, Counted
  <2>3. CountersAgree'
    BY <1>9, <1>0, <1>1, <2>2 DEF IInv, TypeOK, CountersAgree, Take
  <2>4. /\ pc[p] = "sc_take" /\ pc'[p] = "sc_unlock"
        /\ \A q \in Passenger : q # p => pc'[q] = pc[q]
    BY <2>1 DEF Goto
  <2>5. \A q \in Passenger : q # p => pc[q] \notin LockedLabels
    BY <2>4, Alone DEF LockedLabels
  <2>6. TypeOK'
    BY <1>9, <1>0, <1>1, <2>3 DEF IInv, TypeOK, CountersAgree, Take, Goto, Labels
  <2>7. MutexOK' /\ PlaceFound' /\ PlacesMatchPassengers'
    <3>1. MutexOK'
      BY <1>9, <2>4, <2>5 DEF IInv, MutexOK, Take, Locked, LockedLabels, At, ThreadsAt
    <3>2. PlaceFound'
      BY <2>4, <2>5 DEF PlaceFound, LockedLabels, At, ThreadsAt
    <3>3. /\ Served' = Served \cup {p} /\ p \notin Served /\ Served \subseteq Passenger
          /\ assigned_belt' = assigned_belt
      BY <1>9, <2>4 DEF Take, Served, At, ThreadsAt
    <3>4. assigned_belt[p] \in Places /\ belts[assigned_belt[p]] = FALSE
      <4>1. assigned_belt[p] # -1 /\ belts[assigned_belt[p]] = FALSE
        BY <2>4 DEF IInv, PlaceFound, At, ThreadsAt
      <4>2. assigned_belt[p] \in -1 .. N * P - 1
        BY DEF IInv, TypeOK
      <4> QED
        BY <1>0, <4>1, <4>2 DEF Places
    <3>5. assigned_belt[p] # -1
      BY <3>4 DEF Places
    <3>6. \A k \in Places : belts'[k] = (IF k = assigned_belt[p] THEN TRUE ELSE belts[k])
      BY <1>9 DEF Take, IInv, TypeOK
    <3>7. PlacesMatchPassengers'
      BY <3>3, <3>4, <3>5, <3>6 DEF IInv, PlacesMatchPassengers
    <3> QED
      BY <3>1, <3>2, <3>7
  <2>8. /\ At({"sc_semwait"})' = {}
        /\ At({"sc_take", "sc_semwait"}) = {p} /\ At({"sc_take", "sc_semwait"})' = {}
        /\ At({"sc_sempost"}) = {} /\ At({"sc_sempost"})' = {}
        /\ belts_count' = belts_count /\ sec_check_empty' = sec_check_empty
    BY <1>9, <2>4, <2>5 DEF Take, LockedLabels, At, ThreadsAt
  <2>9. WaitDecided' /\ BeltSemaphore'
    BY <1>9, <2>8 DEF IInv, WaitDecided, BeltSemaphore, Owed
  <2> QED
    BY <2>3, <2>6, <2>7, <2>9 DEF IInv
<1>10. ASSUME NEW p \in Passenger, TakeBelt(p) PROVE IInv'
  <2>1. Goto(p, "sc_semwait", "sc_unlock") /\ pc \in [Passenger -> Labels]
    BY <1>10 DEF TakeBelt, Goto, IInv, TypeOK
  <2>2. /\ Cardinality(Inside') = Cardinality(Inside)
        /\ Cardinality(Counted') = Cardinality(Counted)
    BY <2>1, LabelSets, AtAfterStep DEF Inside, Counted
  <2>3. CountersAgree'
    BY <1>10, <1>0, <1>1, <2>2 DEF IInv, TypeOK, CountersAgree, TakeBelt
  <2>4. /\ pc[p] = "sc_semwait" /\ pc'[p] = "sc_unlock"
        /\ \A q \in Passenger : q # p => pc'[q] = pc[q]
    BY <2>1 DEF Goto
  <2>5. \A q \in Passenger : q # p => pc[q] \notin LockedLabels
    BY <2>4, Alone DEF LockedLabels
  <2>6. TypeOK'
    BY <1>10, <1>0, <1>1, <2>3 DEF IInv, TypeOK, CountersAgree, TakeBelt, Goto, Labels
  <2>7. MutexOK' /\ PlaceFound' /\ PlacesMatchPassengers'
    BY <1>10, <2>4, <2>5 DEF IInv, TypeOK, MutexOK, PlaceFound, PlacesMatchPassengers,
                     TakeBelt, Locked, LockedLabels, Served, At, ThreadsAt
  <2>8. /\ At({"sc_semwait"}) = {p} /\ At({"sc_semwait"})' = {}
        /\ At({"sc_take", "sc_semwait"}) = {p} /\ At({"sc_take", "sc_semwait"})' = {}
        /\ At({"sc_sempost"})' = {}
        /\ belts_count' = belts_count /\ sec_check_empty' = sec_check_empty - 1
    BY <1>10, <2>4, <2>5 DEF TakeBelt, LockedLabels, At, ThreadsAt
  <2>9. WaitDecided' /\ BeltSemaphore'
    <3>1. belts_count % P = 0
      BY <2>8 DEF IInv, WaitDecided
    <3>2. Owed = 1 /\ Owed' = 0
      BY <2>8, <3>1 DEF Owed
    <3>3. belts_count \in Nat
      BY <1>0 DEF IInv, TypeOK
    <3>4. belts_count \div P \in Int
      BY <1>0, <3>3, DivMod
    <3> QED
      BY <1>0, <2>8, <3>2, <3>4 DEF IInv, WaitDecided, BeltSemaphore
  <2> QED
    BY <2>3, <2>6, <2>7, <2>9 DEF IInv
<1>11. ASSUME NEW p \in Passenger, Vacate(p) PROVE IInv'
  <2>1. Goto(p, "sc_vacate", "sc_sempost") /\ pc \in [Passenger -> Labels]
    BY <1>11 DEF Vacate, Goto, IInv, TypeOK
  <2>2. /\ Cardinality(Inside') = Cardinality(Inside)
        /\ Cardinality(Counted') = Cardinality(Counted) - 1
    BY <2>1, LabelSets, AtAfterStep DEF Inside, Counted
  <2>3. CountersAgree'
    BY <1>11, <1>0, <1>1, <2>2 DEF IInv, TypeOK, CountersAgree, Vacate
  <2>4. /\ pc[p] = "sc_vacate" /\ pc'[p] = "sc_sempost"
        /\ \A q \in Passenger : q # p => pc'[q] = pc[q]
    BY <2>1 DEF Goto
  <2>5. \A q \in Passenger : q # p => pc[q] \notin LockedLabels
    BY <2>4, Alone DEF LockedLabels
  <2>6. belts_count' \in 0 .. N * P
    BY <1>11, <1>0, <1>1, <2>3 DEF IInv, TypeOK, CountersAgree, Vacate
  <2>7. TypeOK'
    BY <1>11, <2>6 DEF IInv, TypeOK, Vacate, Goto, Labels
  <2>8. MutexOK' /\ PlaceFound' /\ PlacesMatchPassengers'
    BY <1>11, <2>4, <2>5 DEF IInv, TypeOK, MutexOK, PlaceFound, PlacesMatchPassengers,
                     Vacate, Locked, LockedLabels, Served, At, ThreadsAt
  <2>9. /\ At({"sc_semwait"})' = {}
        /\ At({"sc_take", "sc_semwait"}) = {} /\ At({"sc_take", "sc_semwait"})' = {}
        /\ At({"sc_sempost"}) = {} /\ At({"sc_sempost"})' = {p}
        /\ belts_count' = belts_count - 1 /\ sec_check_empty' = sec_check_empty
    BY <1>11, <2>4, <2>5 DEF Vacate, LockedLabels, At, ThreadsAt
  <2>10. WaitDecided' /\ BeltSemaphore'
    <3> DEFINE b == belts_count'
    <3>1. b \in Nat /\ belts_count = b + 1
      BY <1>0, <2>6, <2>9 DEF IInv, TypeOK
    <3>2. Owed = 0
      BY <2>9 DEF Owed
    <3>3. Owed' = IF (b + 1) % P = 0 THEN -1 ELSE 0
      BY <2>9 DEF Owed
    <3> HIDE DEF b
    <3>4. /\ (b + 1) \div P = (b \div P) + (IF (b + 1) % P = 0 THEN 1 ELSE 0)
          /\ b \div P \in Int
      <4>1. (b + 1) \div P = (b \div P) + (IF (b + 1) % P = 0 THEN 1 ELSE 0)
        BY <1>0, <3>1, DivSucc, Zenon
      <4>2. b \div P \in Int
        BY <1>0, <3>1, DivMod
      <4> QED
        BY <4>1, <4>2
    <3>5. sec_check_empty = N - ((b + 1) \div P)
      BY <1>0, <3>1, <3>2, <3>4 DEF IInv, BeltSemaphore
    <3>6. sec_check_empty' = N - (b \div P) + Owed'
      BY <1>0, <2>9, <3>3, <3>4, <3>5
    <3> QED
      BY <2>9, <3>6 DEF WaitDecided, BeltSemaphore, b
  <2> QED
    BY <2>3, <2>7, <2>8, <2>10 DEF IInv
<1>12. ASSUME NEW p \in Passenger, GiveBack(p) PROVE IInv'
  <2>1. Goto(p, "sc_sempost", "sc_post") /\ pc \in [Passenger -> Labels]
    BY <1>12 DEF GiveBack, Goto, IInv, TypeOK
  <2>2. /\ Cardinality(Inside') = Cardinality(Inside)
        /\ Cardinality(Counted') = Cardinality(Counted)
    BY <2>1, LabelSets, AtAfterStep DEF Inside, Counted
  <2>3. CountersAgree'
    BY <1>12, <1>0, <1>1, <2>2 DEF IInv, TypeOK, CountersAgree, GiveBack
  <2>4. /\ pc[p] = "sc_sempost" /\ pc'[p] = "sc_post"
        /\ \A q \in Passenger : q # p => pc'[q] = pc[q]
    BY <2>1 DEF Goto
  <2>5. \A q \in Passenger : q # p => pc[q] \notin LockedLabels
    BY <2>4, Alone DEF LockedLabels
  <2>6. MutexOK' /\ PlaceFound' /\ PlacesMatchPassengers'
    BY <1>12, <2>4, <2>5 DEF IInv, TypeOK, MutexOK, PlaceFound, PlacesMatchPassengers,
                     GiveBack, Locked, LockedLabels, Served, At, ThreadsAt
  <2>7. /\ At({"sc_semwait"})' = {}
        /\ At({"sc_take", "sc_semwait"}) = {} /\ At({"sc_take", "sc_semwait"})' = {}
        /\ At({"sc_sempost"}) = {p} /\ At({"sc_sempost"})' = {}
        /\ belts_count' = belts_count
        /\ sec_check_empty' = sec_check_empty + (IF (belts_count + 1) % P = 0 THEN 1 ELSE 0)
    BY <1>12, <2>4, <2>5 DEF GiveBack, LockedLabels, At, ThreadsAt
  <2>8. belts_count \in Nat /\ belts_count \div P \in Nat
    <3>1. belts_count \in Nat
      BY <1>0 DEF IInv, TypeOK
    <3> QED
      BY <1>0, <3>1, DivMod
  <2>9. sec_check_empty' = N - (belts_count \div P) /\ Owed' = 0
    <3>1. Owed = (IF (belts_count + 1) % P = 0 THEN -1 ELSE 0) /\ Owed' = 0
      BY <2>7 DEF Owed
    <3> QED
      BY <1>0, <2>7, <2>8, <3>1 DEF IInv, BeltSemaphore
  <2>10. WaitDecided' /\ BeltSemaphore'
    BY <1>0, <2>7, <2>8, <2>9 DEF WaitDecided, BeltSemaphore
  <2>11. sec_check_empty' \in 0 .. N
    <3>1. belts_count \div P \in 0 .. N
      BY <1>0, <2>8, DivBound DEF IInv, TypeOK
    <3> QED
      BY <1>0, <2>9, <3>1
  <2>12. TypeOK'
    BY <1>12, <2>11 DEF IInv, TypeOK, GiveBack, Goto, Labels
  <2> QED
    BY <2>3, <2>6, <2>10, <2>12 DEF IInv
<1>13. CASE UNCHANGED vars
  BY <1>13 DEF IInv, TypeOK, MutexOK, WaitDecided, PlaceFound, PlacesMatchPassengers, CountersAgree,
              BeltSemaphore, Owed, vars, pool, Inside, Counted, Locked, Served, At
<1>14. ASSUME NEW p \in Passenger, Take(p) PROVE IInv'
  BY <1>14, <1>8, <1>9
<1> QED
  BY <1>2, <1>3, <1>4, <1>5, <1>6, <1>7, <1>10, <1>11, <1>12, <1>13, <1>14
     DEF Next, security_check

\* The invariant holds in every reachable state.
THEOREM Invariance == Spec => []IInv
BY InitIInv, NextIInv, PTL DEF Spec

\* The variables of security_check keep their types: neither semaphore nor the
\* count leaves its range, though the code never tests them.
THEOREM TypeCorrect == Spec => []TypeOK
<1>1. IInv => TypeOK
  BY DEF IInv
<1> QED
  BY <1>1, Invariance, PTL

\* get_idx never returns -1 to security_check: whoever passes belt_empty finds
\* a free place.
THEOREM PlaceFoundAlways == Spec => []PlaceFound
<1>1. IInv => PlaceFound
  BY DEF IInv
<1> QED
  BY <1>1, Invariance, PTL

\* The array belts always describes who stands where.
THEOREM PlacesAlwaysMatch == Spec => []PlacesMatchPassengers
<1>1. IInv => PlacesMatchPassengers
  BY DEF IInv
<1> QED
  BY <1>1, Invariance, PTL

\* The value of sec_check_empty is determined by the count.
THEOREM BeltSemaphoreAlways == Spec => []BeltSemaphore
<1>1. IInv => BeltSemaphore
  BY DEF IInv
<1> QED
  BY <1>1, Invariance, PTL

\* sem_wait(&sec_check_empty) never blocks the passenger that calls it with
\* belts_count_mutex held, so the two locks cannot deadlock: at most N * P
\* passengers are counted, hence at most N groups, and the one being completed
\* has not been charged to the semaphore yet.
THEOREM NeverWaitsWithLockAlways == Spec => []NeverWaitsWithLock
<1>1. IInv => NeverWaitsWithLock
  <2> SUFFICES ASSUME IInv, At({"sc_semwait"}) # {} PROVE sec_check_empty > 0
    BY DEF NeverWaitsWithLock
  <2>1. N * P \in Nat \ {0} /\ N \in Nat \ {0} /\ P \in Nat \ {0}
    BY Sizing
  <2>2. belts_count % P = 0
    BY DEF IInv, WaitDecided
  <2>3. At({"sc_take", "sc_semwait"}) # {}
    BY DEF At, ThreadsAt
  <2>4. Owed = 1
    BY <2>2, <2>3 DEF Owed
  <2>5. belts_count \in Nat /\ belts_count <= N * P
    BY <2>1 DEF IInv, TypeOK
  <2>6. belts_count \div P \in 0 .. N
    BY <2>1, <2>5, DivBound
  <2> QED
    BY <2>1, <2>4, <2>6 DEF IInv, BeltSemaphore
<1> QED
  BY <1>1, Invariance, PTL

-----------------------------------------------------------------------------

\* security_check implements the abstract pool of N * P slots: every step of a
\* thread gives a free place, takes one back, or is invisible to the pool.
THEOREM ImplementsPool == Spec => PoolSpec
<1> DEFINE held == [p \in Passenger |-> IF p \in Served THEN assigned_belt[p] ELSE -1]
<1>1. Init => Pool!Init
  BY DEF Init, InitPool, Pool!Init, Pool!NoSlot, Served, At, ThreadsAt
<1>2. IInv /\ [Next]_vars => [Pool!Next]_held
  <2> SUFFICES ASSUME IInv, [Next]_vars PROVE Pool!Next \/ held' = held
    OBVIOUS
  <2>1. ASSUME NEW p \in Passenger, Take(p) PROVE Pool!Next
    <3>1. /\ p \notin Served /\ Served' = Served \cup {p} /\ Served \subseteq Passenger
          /\ assigned_belt' = assigned_belt
      BY <2>1 DEF Take, IInv, TypeOK, Served, At, ThreadsAt
    <3>2. assigned_belt[p] \in Places /\ belts[assigned_belt[p]] = FALSE
      <4>1. assigned_belt[p] # -1 /\ belts[assigned_belt[p]] = FALSE
        BY <2>1 DEF Take, IInv, PlaceFound, At, ThreadsAt
      <4>2. assigned_belt[p] \in -1 .. N * P - 1 /\ N * P \in Nat \ {0}
        BY Sizing DEF IInv, TypeOK
      <4> QED
        BY <4>1, <4>2 DEF Places
    <3>3. \A q \in Served : assigned_belt[q] # assigned_belt[p]
      BY <3>2 DEF IInv, PlacesMatchPassengers
    <3>4. held[p] = -1 /\ held' = [held EXCEPT ![p] = assigned_belt[p]]
      BY <3>1
    <3>5. \A q \in Passenger : held[q] # assigned_belt[p]
      BY <3>2, <3>3 DEF Places
    <3> QED
      BY <3>2, <3>4, <3>5 DEF Pool!Next, Pool!Acquire, Pool!NoSlot
  <2>2. ASSUME NEW p \in Passenger, Vacate(p) PROVE Pool!Next
    <3>1. /\ p \in Served /\ Served' = Served \ {p} /\ Served \subseteq Passenger
          /\ assigned_belt' = assigned_belt
      BY <2>2 DEF Vacate, Goto, IInv, TypeOK, Served, At, ThreadsAt
    <3>2. held[p] # -1 /\ held' = [held EXCEPT ![p] = -1]
      BY <3>1 DEF IInv, PlacesMatchPassengers
    <3> QED
      BY <3>2 DEF Pool!Next, Pool!Release, Pool!NoSlot
  <2>3. ASSUME NEW p \in Passenger,
               \/ Claim(p) \/ LockIn(p) \/ Find(p) \/ TakeBelt(p) \/ UnlockIn(p)
               \/ LockOut(p) \/ GiveBack(p) \/ Post(p)
        PROVE  held' = held
    <3>1. Served' = Served
      BY <2>3 DEF Claim, LockIn, Find, TakeBelt, UnlockIn, LockOut, GiveBack, Post, Goto,
                  IInv, TypeOK, Served, At, ThreadsAt
    <3>2. \A q \in Served : assigned_belt'[q] = assigned_belt[q]
      BY <2>3 DEF Claim, LockIn, Find, TakeBelt, UnlockIn, LockOut, GiveBack, Post, Goto,
                  IInv, TypeOK, Served, At, ThreadsAt
    <3> QED
      BY <3>1, <3>2
  <2>4. CASE UNCHANGED vars
    BY <2>4 DEF vars, pool, Served, At, ThreadsAt
  <2> QED
    BY <2>1, <2>2, <2>3, <2>4 DEF Next, security_check
<1> QED
  BY <1>1, <1>2, Invariance, PTL DEF Spec, PoolSpec, Pool!Spec
=============================================================================
